CONSTANTS
  a1 = a1  a2 = a2  a3 = a3  n1 = n1  n2 = n2  m1 = m1  m2 = m2
  r1 = r1  r2 = r2  r3 = r3  t1 = t1  t2 = t2  t3 = t3
  Account = {a1, a2, a3}
  NameOf <- Names
  MailOf <- Mails
  Req = {r1, r2, r3}
  Token = {t1, t2, t3}
  NoAccount = NoAccount
  NoToken = NoToken
SPECIFICATION Spec
INVARIANTS OneAccountPerAddress OneLiveToken CurrentIsUsable
SYMMETRY Alike
CONSTRAINT Focus
