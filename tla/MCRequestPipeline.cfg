CONSTANTS
  u1 = u1  u2 = u2  n1 = n1  n2 = n2  r1 = r1  r2 = r2  c1 = c1  c2 = c2  proxy = proxy
  User = {u1, u2}
  Note = {n1, n2}
  OwnerOf <- Owners
  Req = {r1, r2}
  Addr = {c1, c2, proxy}
  Trusted = {proxy}
  Client = {c1}
  Junk = Junk
  MaxRequests = 1
  NoReq = NoReq
  NoUser = NoUser
  NoNote = NoNote
SPECIFICATION Spec
INVARIANTS HistoryMatchesAnswer AnswerTellsEffect ReadAllCovers AdmittedWithinLimit
SYMMETRY Alike
CONSTRAINT Focus
