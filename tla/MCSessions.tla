----------------------------- MODULE MCSessions -----------------------------
(* Small instances of Sessions for TLC. *)
EXTENDS Sessions, TLC

\* All sessions are one user's.
SingleOwner == [s \in Session |-> CHOOSE u \in User : TRUE]

Symm == Permutations(Session) \cup Permutations(Req)
=============================================================================
