----------------------------- MODULE MCTaskBoard -----------------------------
(* Small instances of TaskBoard for TLC. *)
EXTENDS TaskBoard, TLC

Symm == Permutations(Id) \cup Permutations(Tx)

\* Outside projects any two requests; in a project with two tasks three
\* requests, which create tasks or move them to the top of a column
Focus ==
  IF constrained
  THEN /\ (\A r \in Tx : pc[r] = "new") => Cardinality(present) = 2
       /\ \A r \in Tx : \/ arg[r].kind \in {"none", "create"}
                        \/ arg[r].kind = "update" /\ arg[r].askedPos \in {0, None}
  ELSE \E r \in Tx : pc[r] = "new"
=============================================================================
