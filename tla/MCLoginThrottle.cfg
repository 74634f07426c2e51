SPECIFICATION LoginFairSpec
CONSTANTS
  Slot = {r1, r2}
  NoSlot = NoSlot
  Lost = Lost
  Max = 2
INVARIANTS
  OvershootBounded
  TimedOrOwed
  AnswerAgrees
PROPERTY LockEnds
