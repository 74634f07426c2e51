CONSTANTS
  s1 = s1  s2 = s2  b1 = b1  r1 = r1  r2 = r2  h1 = h1  h2 = h2
  u1 = u1  u2 = u2  g1 = g1  g2 = g2  e1 = e1  e2 = e2
  Start = {s1, s2}
  Browser = {b1}
  Req = {r1, r2}
  Handoff = {h1, h2}
  User = {u1, u2}
  Sub = {g1, g2}
  Email = {e1, e2}
  EmailOf <- Accounts
  NoStart = NoStart
  NoUser = NoUser
  NoSub = NoSub
  NoEmail = NoEmail
  NoBrowser = NoBrowser
SPECIFICATION Spec
INVARIANTS SignedInAsConsented PasswordlessCanSignIn UnrecordedIsRolledBack
PROPERTIES ImplementsFlow
SYMMETRY Alike
