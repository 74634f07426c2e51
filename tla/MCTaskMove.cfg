SPECIFICATION BoardSpec
CONSTANTS
  Id = {a, b, c}
  Tx = {r1, r2}
  None = None
  Status = {"todo", "done"}
  MaxPosition = 2
  Kinds = {"create", "update", "deactivate"}
SYMMETRY Symm
INVARIANT MoveAppends
CHECK_DEADLOCK FALSE
