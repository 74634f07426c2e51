SPECIFICATION Spec
CONSTANTS
  Session = {s1, s2}
  User = {u1}
  Req = {r1, r2}
  NoSession = NoSession
  Owner <- SingleOwner
  TTL = 2
  AbsTTL = 3
  MaxTime = 4
SYMMETRY Symm
CHECK_DEADLOCK FALSE
INVARIANTS
  SessionAndCsrfTogether
  DeleteAllIsFinal
  IndexCovers
