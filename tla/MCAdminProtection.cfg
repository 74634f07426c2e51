SPECIFICATION FairSpec
CONSTANTS
  User = {u1, u2}
  Req = {r1, r2}
  NoReq = NoReq
  Cred = {c1, c2}
  UserOf <- OneHolder
CONSTRAINT Focus
INVARIANTS
  ActiveAdminRemains
  OldRowIsCurrent
  DeactivatedHoldNothing
PROPERTY CallsReturn
