------------------------- MODULE MCDueNotification -------------------------
(* A small instance of DueNotification for TLC. *)
EXTENDS DueNotification

CONSTANTS r1, r2, r3

\* The third run is there for the lock, which does not depend on the tasks.
Focus ==
  \/ pc[r3] = "idle"
  \/ due = {} /\ edits = 0 /\ pc[r1] # "idle" /\ pc[r2] # "idle"
=============================================================================
