SPECIFICATION Spec
CONSTANTS
  Token = {t1, t2, t3}
  User = {u1}
  Req = {r1, r2}
  NoToken = NoToken
  Owner <- SingleOwner
  Cred = {c1, c2, c3}
  UserOf <- OneHolder
  TTL = 2
  MaxTime = 4
  MaxPw = 2
SYMMETRY Symm
CHECK_DEADLOCK FALSE
CONSTRAINT Focus
INVARIANTS
  SupersededStaysDead
  OldPasswordEnds
PROPERTY RestoreGivesBack
