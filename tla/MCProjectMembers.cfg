CONSTANTS
  a1 = a1  u1 = u1  u2 = u2  t1 = t1  c1 = c1  r1 = r1  r2 = r2
  User = {a1, u1, u2}
  Admin = {a1}
  Task = {t1}
  Comment = {c1}
  Req = {r1, r2}
  Time = {1, 2}
  MaxVersion = 2
  NoUser = NoUser
  NoTask = NoTask
  NoComment = NoComment
  NoTime = NoTime
  Keep = Keep
  Routes <- Calls
SPECIFICATION Spec
INVARIANTS PeriodOrdered RemovalUnassigns ListedCanBeOpened WritesAreJustified
SYMMETRY Alike
CONSTRAINT Focus
