SPECIFICATION JobFairSpec
CONSTANTS
  r1 = r1  r2 = r2  r3 = r3
  Run = {r1, r2, r3}
  Recipient = {u1}
  NoRun = NoRun
  NTasks = 3
  Chunk = 2
  TTL = 1
  MaxTime = 1
  MaxEdits = 1
CHECK_DEADLOCK FALSE
CONSTRAINT Focus
INVARIANTS
  ExclusiveRuns
  CompleteMeansSent
  CompleteCoversStable
PROPERTY RunsEnd
