SPECIFICATION BoardSpec
CONSTANTS
  Id = {a, b, c}
  Tx = {r1, r2, r3}
  None = None
  Status = {"todo", "done"}
  MaxPosition = 2
  Kinds = {"create", "update", "deactivate"}
SYMMETRY Symm
CONSTRAINT Focus
INVARIANTS
  LockedShiftsKeepOrder
  LockedShiftsNeverDeadlock
  OldStatusIsCurrent
CHECK_DEADLOCK FALSE
