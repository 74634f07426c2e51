-------------------------- MODULE MCAdminProtection --------------------------
(***************************************************************************)
(* A small instance of AdminProtection for TLC.                            *)
(***************************************************************************)
EXTENDS AdminProtection, TLC

\* Credentials are one account's.
Holder == CHOOSE u \in User : TRUE
OneHolder == [c \in Cred |-> Holder]

\* While there are credentials every request concerns their holder, and what
\* only tells the procedures apart does not vary.
Focus ==
  signing \cup stored = {} \/
    /\ \A u \in User : role[u] = (IF u = Holder THEN "member" ELSE "admin")
    /\ registered = User
    /\ \A r \in Req : op[r] = NoOp \/ (op[r].kind # "role" /\ op[r].target = Holder)
=============================================================================
