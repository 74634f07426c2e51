SPECIFICATION Spec
CONSTANTS
  Token = {t1, t2, t3, t4}
  Family = {f1, f2}
  User = {u1}
  Req = {r1, r2}
  NoFamily = NoFamily
  NoToken = NoToken
  Owner <- SingleOwner
  TTL = 2
  MaxTime = 3
SYMMETRY Symm
INVARIANTS
  OneLivePerFamily
  IndexCovers
  RevokeAllCovers
PROPERTIES
  ImplementsFamilies
CHECK_DEADLOCK FALSE
