--------------------------- MODULE MCPasswordReset ---------------------------
(***************************************************************************)
(* A small instance of PasswordReset for TLC.                              *)
(***************************************************************************)
EXTENDS PasswordReset, FiniteSets, TLC

SingleOwner == [t \in Token |-> CHOOSE u \in User : TRUE]
OneHolder == [c \in Cred |-> CHOOSE u \in User : TRUE]

\* Credentials and the succession of tokens do not meet in one action: once
\* somebody logs in, requests change the password or reset it with one token.
Focus ==
  \/ signing \cup stored = {} /\ made = [c \in Cred |-> 0]
  \/ now = 0 /\ Cardinality(saved) < 2 /\ \A r \in Req : job[r].pc # "save"

Symm == Permutations(Token) \cup Permutations(Cred) \cup Permutations(Req)
=============================================================================
