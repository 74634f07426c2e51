---------------------------- MODULE SignInProofs ----------------------------
(***************************************************************************)
(* Signing in, with Google and with a password, for any number of browsers,*)
(* requests, users and accounts.                                           *)
(***************************************************************************)
EXTENDS OAuthSignIn, LoginThrottle, FiniteSetTheorems, TLAPS

-----------------------------------------------------------------------------
(***************************************************************************)
(* Google: nobody is signed in but as consented, and the whole implements  *)
(* SignInFlow, for any number of browsers, starts, requests, hand-off      *)
(* codes, users and Google accounts.                                       *)
(***************************************************************************)

\* The steps after the nonce was compared, and the steps at which the user is
\* the one linked to the Google account.
Checked == PC \ {"idle", "exchange_code", "verify_id_token"}
Settled == {"read_back", "login", "record", "undo", "ex_user", "ex_login"}

\* What a request knows at each step about codes, users and links.
JobOK(j) ==
  /\ j.pc # "idle" => /\ j.st \in Start /\ j.sub \in Sub
                      /\ [st |-> j.granted, sub |-> j.sub] \in codes
  /\ j.pc \in Checked => j.granted = j.st
  /\ j.pc = "link" => j.user \in User /\ email[j.user] = EmailOf[j.sub]
  /\ j.pc \in Settled => j.user \in User /\ link[j.sub] = j.user

JobsOK == \A r \in Req : JobOK(req[r])

\* A hand-off code was made for a settled request.
HandoffsOK ==
  \A h \in Handoff : handoff[h] # NoHandoff =>
     /\ [st |-> handoff[h].st, sub |-> handoff[h].sub] \in codes
     /\ link[handoff[h].sub] = handoff[h].user

\* uq_users_email, and a link leads to the user with the account's address
AddressesOK ==
  /\ \A u, v \in User : email[u] = email[v] /\ email[u] # NoEmail => u = v
  /\ \A g \in Sub : link[g] \in User => email[link[g]] = EmailOf[g]

IInv ==
  /\ TypeOK
  /\ JobsOK
  /\ HandoffsOK
  /\ AddressesOK
  /\ SignedInAsConsented
  /\ PasswordlessCanSignIn
  /\ UnrecordedIsRolledBack

\* Rows and links only come: an address once set, a link once made and a code
\* once issued stay.
Grows ==
  /\ codes \subseteq codes'
  /\ \A u \in User : email[u] # NoEmail => email'[u] = email[u]
  /\ \A g \in Sub : link[g] # NoUser => link'[g] = link[g]

\* What a request, a hand-off or a credential knows does not become wrong.
LEMMA StaysOK ==
  ASSUME TypeOK, Grows
  PROVE  /\ \A q \in Req : JobOK(req[q]) /\ req'[q] = req[q] => JobOK(req[q])'
         /\ HandoffsOK /\ UNCHANGED handoff => HandoffsOK'
         /\ SignedInAsConsented /\ creds' \subseteq creds => SignedInAsConsented'
<1>1. ASSUME NEW q \in Req, JobOK(req[q]), req'[q] = req[q] PROVE JobOK(req[q])'
  <2> DEFINE j == req[q]
  <2>1. j.pc # "idle" => j.st \in Start /\ j.sub \in Sub /\ [st |-> j.granted, sub |-> j.sub] \in codes'
    BY <1>1 DEF JobOK, Grows
  <2>2. j.pc = "link" => j.user \in User /\ email'[j.user] = EmailOf[j.sub]
    <3> SUFFICES ASSUME j.pc = "link" PROVE j.user \in User /\ email'[j.user] = EmailOf[j.sub]
      OBVIOUS
    <3>1. EmailOf[j.sub] \in Email  BY <1>1, EmailOfAssumption DEF JobOK
    <3> QED BY <1>1, <3>1, NoneAssumption DEF JobOK, Grows
  <2>3. j.pc \in Settled => j.user \in User /\ link'[j.sub] = j.user
    <3> SUFFICES ASSUME j.pc \in Settled PROVE j.user \in User /\ link'[j.sub] = j.user
      OBVIOUS
    <3>1. j.sub \in Sub  BY <1>1 DEF JobOK, Settled
    <3> QED BY <1>1, <3>1, NoneAssumption DEF JobOK, Grows
  <2> QED BY <1>1, <2>1, <2>2, <2>3 DEF JobOK, j
<1>2. HandoffsOK /\ UNCHANGED handoff => HandoffsOK'
  <2> SUFFICES ASSUME HandoffsOK, UNCHANGED handoff, NEW h \in Handoff, handoff[h] # NoHandoff
               PROVE  /\ [st |-> handoff[h].st, sub |-> handoff[h].sub] \in codes'
                      /\ link'[handoff[h].sub] = handoff[h].user
    BY DEF HandoffsOK
  <2>1. handoff[h] \in Given  BY DEF TypeOK
  <2>2. handoff[h].sub \in Sub /\ handoff[h].user \in User  BY <2>1 DEF Given
  <2> QED BY <2>2, NoneAssumption DEF HandoffsOK, Grows
<1>3. SignedInAsConsented /\ creds' \subseteq creds => SignedInAsConsented'
  <2> SUFFICES ASSUME SignedInAsConsented, NEW c \in creds
               PROVE  [st |-> c.st, sub |-> c.sub] \in codes' /\ link'[c.sub] = c.user
    BY DEF SignedInAsConsented
  <2>1. c \in Cred  BY DEF TypeOK
  <2>2. c.sub \in Sub /\ c.user \in User  BY <2>1 DEF Cred
  <2> QED BY <2>2, NoneAssumption DEF SignedInAsConsented, Grows
<1> QED BY <1>1, <1>2, <1>3

\* The states of a request after Goto and Return.
LEMMA MoveTypes ==
  ASSUME TypeOK, NEW r \in Req
  PROVE  /\ \A label \in PC : Goto(r, label) =>
               /\ req' \in [Req -> Job] /\ req'[r] = [req[r] EXCEPT !.pc = label]
               /\ \A q \in Req \ {r} : req'[q] = req[q]
         /\ Return(r) => /\ req' \in [Req -> Job] /\ req'[r] = Idle
                         /\ \A q \in Req \ {r} : req'[q] = req[q]
<1>1. req \in [Req -> Job] /\ req[r] \in Job  BY DEF TypeOK
<1>2. ASSUME NEW label \in PC, Goto(r, label)
      PROVE  /\ req' \in [Req -> Job] /\ req'[r] = [req[r] EXCEPT !.pc = label]
             /\ \A q \in Req \ {r} : req'[q] = req[q]
  <2>1. [req[r] EXCEPT !.pc = label] \in Job  BY <1>1 DEF Job
  <2>2. req' = [req EXCEPT ![r] = [req[r] EXCEPT !.pc = label]]  BY <1>2, <1>1 DEF Goto
  <2> QED BY <1>1, <2>1, <2>2
<1>3. Return(r) => /\ req' \in [Req -> Job] /\ req'[r] = Idle
                   /\ \A q \in Req \ {r} : req'[q] = req[q]
  <2>1. Idle \in Job  BY DEF Idle, Job, PC
  <2> QED BY <1>1, <2>1 DEF Return
<1> QED BY <1>2, <1>3

\* The state cookie stays one when it is deleted.
LEMMA CookieType ==
  ASSUME TypeOK, NEW r \in Req
  PROVE  Redirect(r) \/ Unavailable(r) \/ UNCHANGED cookie => cookie' \in [Browser -> Start \cup {NoStart}]
BY DEF TypeOK, Redirect, Unavailable, ClearCookie

\* An idle request knows nothing.
LEMMA IdleOK == Idle \in Job /\ JobOK(Idle) /\ JobOK(Idle)'
BY DEF Idle, Job, JobOK, PC, Checked, Settled

\* No start is in use at first.
LEMMA InitIInv == Init => IInv
<1> SUFFICES ASSUME Init PROVE IInv
  OBVIOUS
<1>1. TypeOK  BY IdleOK DEF Init, TypeOK
<1>2. JobsOK  BY IdleOK DEF Init, JobsOK
<1>3. HandoffsOK  BY DEF Init, HandoffsOK
<1>4. AddressesOK  BY NoneAssumption DEF Init, AddressesOK
<1> QED
  BY <1>1, <1>2, <1>3, <1>4
  DEF IInv, Init, SignedInAsConsented, PasswordlessCanSignIn, UnrecordedIsRolledBack

\* A step that leaves codes, tables and credentials alone keeps the invariant
\* if the job of its request is right, and the request had stored nothing.
LEMMA QuietIInv ==
  ASSUME IInv, UNCHANGED <<mode, codes, tables, logins>>,
         \/ UNCHANGED handoff
         \/ handoff' \in [Handoff -> Given \cup {NoHandoff}] /\ HandoffsOK',
         stateKey' \in [Start -> {"absent", "live", "gone"}],
         cookie' \in [Browser -> Start \cup {NoStart}],
         req' \in [Req -> Job],
         \A q \in Req : \/ req'[q] = req[q]
                        \/ JobOK(req'[q]) /\ req[q].pc \notin {"record", "undo"}
  PROVE  IInv'
<1>1. UNCHANGED codes /\ UNCHANGED email /\ UNCHANGED link /\ UNCHANGED creds
  BY DEF tables, logins
<1>2. TypeOK'  BY DEF IInv, TypeOK, tables, logins
<1>3. Grows  BY <1>1 DEF Grows
<1>4. JobsOK'
  <2> SUFFICES ASSUME NEW q \in Req PROVE JobOK(req[q])'
    BY DEF JobsOK
  <2>1. req'[q] \in Job /\ JobOK(req'[q])  BY DEF IInv, JobsOK
  <2> QED BY <1>1, <2>1 DEF JobOK
<1>5. HandoffsOK' /\ SignedInAsConsented'  BY <1>1, <1>3, StaysOK DEF IInv
<1>6. AddressesOK'  BY <1>1 DEF IInv, AddressesOK
<1>7. PasswordlessCanSignIn'  BY <1>1 DEF IInv, PasswordlessCanSignIn, tables
<1>8. UnrecordedIsRolledBack'
  <2> SUFFICES ASSUME NEW c \in creds \ recorded, c \notin abandoned
               PROVE  \E r \in Req : req'[r].pc \in {"record", "undo"} /\ CredOf(req'[r]) = c
    BY DEF UnrecordedIsRolledBack, logins, CredOf
  <2>1. PICK r \in Req : req[r].pc \in {"record", "undo"} /\ CredOf(req[r]) = c
    BY DEF IInv, UnrecordedIsRolledBack
  <2>2. req'[r] = req[r]  BY <2>1
  <2> QED BY <2>1, <2>2
<1> QED BY <1>2, <1>4, <1>5, <1>6, <1>7, <1>8 DEF IInv

\* The calls to Google, and their failure.
LEMMA ProviderIInv ==
  ASSUME IInv, NEW r \in Req,
         ExchangeCode(r) \/ VerifyIdToken(r) \/ FetchUserinfo(r) \/ ProviderFails(r)
  PROVE  IInv'
<1>1. TypeOK /\ req[r] \in Job /\ JobOK(req[r])  BY DEF IInv, JobsOK, TypeOK
<1>2. UNCHANGED <<mode, stateKey, codes, handoff, tables, logins>>
  BY DEF ExchangeCode, VerifyIdToken, FetchUserinfo, ProviderFails
<1>3. cookie' \in [Browser -> Start \cup {NoStart}]
  BY <1>1, CookieType DEF ExchangeCode, VerifyIdToken, FetchUserinfo, ProviderFails
<1>4. CASE ProviderFails(r)
  <2>1. Return(r) /\ req[r].pc \notin {"record", "undo"}  BY <1>4 DEF ProviderFails, Redirect
  <2> QED BY <1>1, <1>2, <1>3, <2>1, MoveTypes, IdleOK, QuietIInv DEF IInv, TypeOK
<1>5. ASSUME NEW label \in {"verify_id_token", "userinfo", "account"}, Goto(r, label),
             req[r].pc \in {"exchange_code", "verify_id_token", "userinfo"},
             label # "verify_id_token" => req[r].granted = req[r].st
      PROVE  IInv'
  <2>1. label \in PC  BY DEF PC
  <2>2. JobOK([req[r] EXCEPT !.pc = label])
    BY <1>1, <1>5 DEF JobOK, Job, Checked, Settled, PC
  <2> QED BY <1>1, <1>2, <1>3, <1>5, <2>1, <2>2, MoveTypes, QuietIInv DEF IInv, TypeOK
<1>6. CASE ExchangeCode(r)  BY <1>5, <1>6 DEF ExchangeCode, AtPC
<1>7. CASE VerifyIdToken(r)  BY <1>5, <1>7 DEF VerifyIdToken, AtPC, NonceMatches
<1>8. CASE FetchUserinfo(r)
  <2>1. req[r].granted = req[r].st  BY <1>1, <1>8 DEF FetchUserinfo, AtPC, JobOK, Checked, PC
  <2> QED BY <1>5, <1>8, <2>1 DEF FetchUserinfo, AtPC
<1> QED BY <1>4, <1>6, <1>7, <1>8

\* A request that moves on in its sign-in with a user linked to the account.
LEMMA SettleIInv ==
  ASSUME IInv, NEW r \in Req, NEW j \in Job,
         UNCHANGED <<mode, stateKey, codes, handoff, tables, logins>>,
         cookie' \in [Browser -> Start \cup {NoStart}],
         req' = [req EXCEPT ![r] = j], JobOK(j), req[r].pc \notin {"record", "undo"}
  PROVE  IInv'
<1>1. req' \in [Req -> Job] /\ req'[r] = j /\ \A q \in Req \ {r} : req'[q] = req[q]
  BY DEF IInv, TypeOK
<1> QED BY <1>1, QuietIInv DEF IInv, TypeOK

\* The reads of _resolve_or_create_user, and its refusals.
LEMMA LookupIInv ==
  ASSUME IInv, NEW r \in Req,
         \/ LookupAccount(r) \/ LookupEmail(r) \/ LookupEmailRefused(r)
         \/ ReadBack(r) \/ ResolveFails(r)
  PROVE  IInv'
<1>1. TypeOK /\ req[r] \in Job /\ JobOK(req[r])  BY DEF IInv, JobsOK, TypeOK
<1>2. UNCHANGED <<mode, stateKey, codes, handoff, tables, logins>>
  BY DEF LookupAccount, LookupEmail, LookupEmailRefused, ReadBack, ResolveFails
<1>3. cookie' \in [Browser -> Start \cup {NoStart}]
  BY <1>1, CookieType DEF LookupAccount, LookupEmail, LookupEmailRefused, ReadBack, ResolveFails,
     DatabaseError
<1>4. req[r].pc \in {"account", "by_email", "link", "create", "read_back"}
  BY DEF LookupAccount, LookupEmail, LookupEmailRefused, ReadBack, ResolveFails, AtPC
<1>5. CASE Return(r)
  BY <1>1, <1>2, <1>3, <1>4, <1>5, IdleOK, SettleIInv DEF Return
<1>6. ASSUME NEW j \in Job, req' = [req EXCEPT ![r] = j], JobOK(j) PROVE IInv'
  BY <1>2, <1>3, <1>4, <1>6, SettleIInv
<1>7. ASSUME NEW label \in PC, Goto(r, label), JobOK([req[r] EXCEPT !.pc = label]) PROVE IInv'
  <2>1. [req[r] EXCEPT !.pc = label] \in Job  BY <1>1 DEF Job
  <2>2. req' = [req EXCEPT ![r] = [req[r] EXCEPT !.pc = label]]  BY <1>1, <1>7 DEF Goto, TypeOK
  <2> QED BY <1>6, <1>7, <2>1, <2>2
<1>8. ASSUME NEW label \in PC, NEW u \in User, JobOK([req[r] EXCEPT !.pc = label, !.user = u]),
             req' = [req EXCEPT ![r].pc = label, ![r].user = u]
      PROVE  IInv'
  <2>1. [req[r] EXCEPT !.pc = label, !.user = u] \in Job  BY <1>1 DEF Job
  <2>2. req' = [req EXCEPT ![r] = [req[r] EXCEPT !.pc = label, !.user = u]]
    BY <1>1, <1>8 DEF TypeOK
  <2> QED BY <1>6, <1>8, <2>1, <2>2
<1>9. CASE LookupAccount(r)
  <2>1. req[r].pc = "account" /\ req[r].sub \in Sub  BY <1>1, <1>9 DEF LookupAccount, AtPC, JobOK
  <2>2. CASE Goto(r, "by_email")
    <3>1. JobOK([req[r] EXCEPT !.pc = "by_email"])
      BY <1>1, <2>1 DEF JobOK, Job, Checked, Settled, PC
    <3> QED BY <1>7, <2>2, <3>1 DEF PC
  <2>3. CASE /\ link[req[r].sub] \in active
             /\ req' = [req EXCEPT ![r].pc = "login", ![r].user = link[req[r].sub]]
    <3> DEFINE u == link[req[r].sub]
    <3>1. u \in User  BY <1>1, <2>3 DEF TypeOK
    <3>2. JobOK([req[r] EXCEPT !.pc = "login", !.user = u])
      BY <1>1, <2>1, <3>1 DEF JobOK, Job, Checked, Settled, PC
    <3> QED BY <1>8, <2>3, <3>1, <3>2 DEF PC
  <2> QED BY <1>5, <1>9, <2>2, <2>3 DEF LookupAccount, Redirect
<1>10. CASE LookupEmail(r)
  <2>1. req[r].pc = "by_email" /\ req[r].sub \in Sub  BY <1>1, <1>10 DEF LookupEmail, AtPC, JobOK
  <2>2. CASE Goto(r, "create")
    <3>1. JobOK([req[r] EXCEPT !.pc = "create"])
      BY <1>1, <2>1 DEF JobOK, Job, Checked, Settled, PC
    <3> QED BY <1>7, <2>2, <3>1 DEF PC
  <2>3. ASSUME NEW u \in UserWith(EmailOf[req[r].sub]) \cap active,
               req' = [req EXCEPT ![r].pc = "link", ![r].user = u]
        PROVE  IInv'
    <3>1. u \in User /\ email[u] = EmailOf[req[r].sub]  BY DEF UserWith
    <3>2. JobOK([req[r] EXCEPT !.pc = "link", !.user = u])
      BY <1>1, <2>1, <3>1 DEF JobOK, Job, Checked, Settled, PC
    <3> QED BY <1>8, <2>3, <3>1, <3>2 DEF PC
  <2> QED BY <1>10, <2>2, <2>3 DEF LookupEmail
<1>11. CASE ReadBack(r)
  <2>1. JobOK([req[r] EXCEPT !.pc = "login"])
    BY <1>1, <1>11 DEF ReadBack, AtPC, JobOK, Job, Checked, Settled, PC
  <2> QED BY <1>5, <1>7, <1>11, <2>1 DEF ReadBack, Redirect, PC
<1> QED
  BY <1>5, <1>9, <1>10, <1>11
  DEF LookupEmailRefused, ResolveFails, DatabaseError, Redirect, Unavailable

\* What a transaction on the tables leaves.
TablesOK ==
  /\ email \in [User -> Email \cup {NoEmail}]
  /\ active \subseteq User /\ verified \subseteq User /\ password \subseteq User
  /\ link \in [Sub -> User \cup {NoUser}]
  /\ AddressesOK
  /\ PasswordlessCanSignIn

\* A committed transaction keeps the invariant if it leaves rows and links
\* that were there.
LEMMA CommitIInv ==
  ASSUME IInv, Grows, TablesOK', UNCHANGED <<mode, stateKey, handoff, logins>>,
         codes' \subseteq [st : Start, sub : Sub],
         cookie' \in [Browser -> Start \cup {NoStart}], req' \in [Req -> Job],
         \A q \in Req : \/ req'[q] = req[q]
                        \/ JobOK(req[q])' /\ req[q].pc \notin {"record", "undo"}
  PROVE  IInv'
<1>1. TypeOK /\ TypeOK'  BY DEF IInv, TypeOK, TablesOK, logins
<1>2. JobsOK'  BY <1>1, StaysOK DEF IInv, JobsOK
<1>3. HandoffsOK' /\ SignedInAsConsented'  BY <1>1, StaysOK DEF IInv, logins
<1>4. UnrecordedIsRolledBack'
  <2> SUFFICES ASSUME NEW c \in creds \ recorded, c \notin abandoned
               PROVE  \E r \in Req : req'[r].pc \in {"record", "undo"} /\ CredOf(req'[r]) = c
    BY DEF UnrecordedIsRolledBack, logins, CredOf
  <2>1. PICK r \in Req : req[r].pc \in {"record", "undo"} /\ CredOf(req[r]) = c
    BY DEF IInv, UnrecordedIsRolledBack
  <2>2. req'[r] = req[r]  BY <2>1
  <2> QED BY <2>1, <2>2
<1> QED BY <1>1, <1>2, <1>3, <1>4 DEF IInv, TablesOK

\* The user found by address becomes the linked one, or was it before: a
\* concurrent link of the same account is to the same user.
LEMMA LinkRowEffect ==
  ASSUME IInv, NEW r \in Req, AtPC(r, "link"), LinkRow(r)
  PROVE  /\ UNCHANGED codes => Grows
         /\ TablesOK' /\ link'[req[r].sub] = req[r].user /\ UNCHANGED email
<1> DEFINE g == req[r].sub
           u == req[r].user
<1>1. /\ TypeOK /\ g \in Sub /\ u \in User /\ email[u] = EmailOf[g] /\ AddressesOK
      /\ EmailOf[g] \in Email
  BY EmailOfAssumption DEF IInv, JobsOK, JobOK, AtPC
<1> HIDE DEF g, u
<1>2. /\ link' = IF link[g] = NoUser THEN [link EXCEPT ![g] = u] ELSE link
      /\ verified' = verified \cup {u} /\ UNCHANGED <<email, active, password>>
  BY DEF LinkRow, Upsert, g, u
<1>3. link[g] # NoUser => link[g] = u
  BY <1>1, NoneAssumption DEF TypeOK, AddressesOK
<1>4. link'[g] = u /\ \A x \in Sub \ {g} : link'[x] = link[x]
  BY <1>1, <1>2, <1>3 DEF TypeOK
<1>5. link' \in [Sub -> User \cup {NoUser}]  BY <1>1, <1>2 DEF TypeOK
<1>6. UNCHANGED codes => Grows  BY <1>2, <1>3, <1>4 DEF Grows
<1>7. AddressesOK'
  BY <1>1, <1>2, <1>4 DEF AddressesOK
<1>8. PasswordlessCanSignIn'
  <2> SUFFICES ASSUME NEW v \in User, email[v] # NoEmail, v \notin password
               PROVE  v \in verified' /\ \E x \in Sub : link'[x] = v
    BY <1>2 DEF PasswordlessCanSignIn
  <2>1. v \in verified /\ \E x \in Sub : link[x] = v  BY DEF IInv, PasswordlessCanSignIn
  <2>2. PICK x \in Sub : link[x] = v  BY <2>1
  <2>3. link'[x] = v  BY <2>2, <1>3, <1>4, NoneAssumption
  <2> QED BY <1>2, <2>1, <2>3
<1> QED BY <1>1, <1>2, <1>4, <1>5, <1>6, <1>7, <1>8 DEF TablesOK, TypeOK, g, u

\* A new user is linked and verified by the transaction that creates it; the
\* account was not linked, since no user had its address.
LEMMA CreateRowEffect ==
  ASSUME IInv, NEW r \in Req, AtPC(r, "create"), NEW u \in User, CreateRow(r, u)
  PROVE  /\ UNCHANGED codes => Grows
         /\ TablesOK' /\ link'[req[r].sub] = u
<1> DEFINE g == req[r].sub
<1>1. /\ TypeOK /\ g \in Sub /\ AddressesOK /\ EmailOf[g] \in Email
      /\ EmailOf[g] # NoEmail
  BY EmailOfAssumption, NoneAssumption DEF IInv, JobsOK, JobOK, AtPC
<1> HIDE DEF g
<1>2. /\ email[u] = NoEmail /\ \A v \in User : email[v] # EmailOf[g]
      /\ email' = [email EXCEPT ![u] = EmailOf[g]]
      /\ link' = IF link[g] = NoUser THEN [link EXCEPT ![g] = u] ELSE link
      /\ verified' = verified \cup {u} /\ active' = active \cup {u} /\ UNCHANGED password
  BY DEF CreateRow, Upsert, UserWith, g
<1>3. link[g] = NoUser  BY <1>1, <1>2 DEF TypeOK, AddressesOK
<1>4. link'[g] = u /\ \A x \in Sub \ {g} : link'[x] = link[x]
  BY <1>1, <1>2, <1>3 DEF TypeOK
<1>5. email'[u] = EmailOf[g] /\ \A v \in User \ {u} : email'[v] = email[v]
  BY <1>1, <1>2 DEF TypeOK
<1>6. /\ link' \in [Sub -> User \cup {NoUser}]
      /\ email' \in [User -> Email \cup {NoEmail}]
  BY <1>1, <1>2 DEF TypeOK
<1>7. UNCHANGED codes => Grows  BY <1>2, <1>3, <1>4, <1>5 DEF Grows
<1>8. \A x \in Sub : link[x] # u
  BY <1>1, <1>2, EmailOfAssumption, NoneAssumption DEF AddressesOK
<1>9. AddressesOK'
  <2>1. \A v, w \in User : email'[v] = email'[w] /\ email'[v] # NoEmail => v = w
    BY <1>1, <1>2, <1>5 DEF AddressesOK
  <2>2. \A x \in Sub : link'[x] \in User => email'[link'[x]] = EmailOf[x]
    BY <1>1, <1>4, <1>5, <1>8 DEF AddressesOK
  <2> QED BY <2>1, <2>2 DEF AddressesOK
<1>10. PasswordlessCanSignIn'
  <2> SUFFICES ASSUME NEW v \in User, email'[v] # NoEmail, v \notin password
               PROVE  v \in verified' /\ \E x \in Sub : link'[x] = v
    BY <1>2 DEF PasswordlessCanSignIn
  <2>1. CASE v = u  BY <1>1, <1>2, <1>4, <2>1
  <2>2. CASE v # u
    <3>1. v \in verified /\ \E x \in Sub : link[x] = v
      BY <1>5, <2>2 DEF IInv, PasswordlessCanSignIn
    <3>2. PICK x \in Sub : link[x] = v  BY <3>1
    <3>3. link'[x] = v  BY <3>2, <1>3, <1>4, NoneAssumption
    <3> QED BY <1>2, <3>1, <3>3
  <2> QED BY <2>1, <2>2
<1> QED BY <1>1, <1>2, <1>4, <1>6, <1>7, <1>9, <1>10 DEF TablesOK, TypeOK, g

\* The transactions of _resolve_or_create_user, answered or not.
LEMMA ResolveIInv ==
  ASSUME IInv, NEW r \in Req,
         LinkExisting(r) \/ (\E u \in User : CreateUser(r, u)) \/ ResolveUnanswered(r)
  PROVE  IInv'
<1>1. TypeOK /\ req[r] \in Job /\ JobOK(req[r])  BY DEF IInv, JobsOK, TypeOK
<1>2. /\ UNCHANGED <<mode, stateKey, codes, handoff, logins>>
      /\ codes' \subseteq [st : Start, sub : Sub]
  BY <1>1 DEF LinkExisting, CreateUser, ResolveUnanswered, TypeOK
<1>3. cookie' \in [Browser -> Start \cup {NoStart}]
  BY <1>1, CookieType DEF LinkExisting, CreateUser, ResolveUnanswered, DatabaseError
<1>4. CASE LinkExisting(r)
  <2>1. AtPC(r, "link") /\ LinkRow(r) /\ Goto(r, "login")  BY <1>4 DEF LinkExisting
  <2>2. Grows /\ TablesOK' /\ link'[req[r].sub] = req[r].user  BY <1>2, <2>1, LinkRowEffect
  <2>3. /\ req' \in [Req -> Job] /\ req'[r] = [req[r] EXCEPT !.pc = "login"]
        /\ \A q \in Req \ {r} : req'[q] = req[q]
    BY <1>1, <2>1, MoveTypes DEF PC
  <2>4. JobOK(req[r])'
    BY <1>1, <1>2, <2>1, <2>2, <2>3 DEF JobOK, AtPC, Job, Checked, Settled, PC
  <2> QED BY <1>2, <1>3, <2>1, <2>2, <2>3, <2>4, CommitIInv DEF AtPC
<1>5. ASSUME NEW u \in User, CreateUser(r, u) PROVE IInv'
  <2>1. /\ AtPC(r, "create") /\ CreateRow(r, u)
        /\ req' = [req EXCEPT ![r].pc = "read_back", ![r].user = u]
    BY <1>5 DEF CreateUser
  <2>2. Grows /\ TablesOK' /\ link'[req[r].sub] = u  BY <1>2, <2>1, CreateRowEffect
  <2>3. [req[r] EXCEPT !.pc = "read_back", !.user = u] \in Job  BY <1>1 DEF Job, PC
  <2>4. req' = [req EXCEPT ![r] = [req[r] EXCEPT !.pc = "read_back", !.user = u]]
    BY <1>1, <2>1 DEF TypeOK
  <2>5. /\ req' \in [Req -> Job] /\ req'[r] = [req[r] EXCEPT !.pc = "read_back", !.user = u]
        /\ \A q \in Req \ {r} : req'[q] = req[q]
    BY <1>1, <2>3, <2>4 DEF TypeOK
  <2>6. JobOK(req[r])'
    BY <1>1, <1>2, <2>1, <2>2, <2>5 DEF JobOK, AtPC, Job, Checked, Settled, PC
  <2> QED BY <1>2, <1>3, <2>1, <2>2, <2>5, <2>6, CommitIInv DEF AtPC
<1>6. CASE ResolveUnanswered(r)
  <2>1. Return(r) /\ req[r].pc \notin {"record", "undo"}
    BY <1>6 DEF ResolveUnanswered, DatabaseError, Redirect, Unavailable, AtPC
  <2>2. Grows /\ TablesOK'
    BY <1>2, <1>6, LinkRowEffect, CreateRowEffect DEF ResolveUnanswered
  <2>3. req' \in [Req -> Job] /\ req'[r] = Idle /\ \A q \in Req \ {r} : req'[q] = req[q]
    BY <1>1, <2>1, MoveTypes
  <2>4. JobOK(req[r])'  BY <2>3, IdleOK DEF JobOK, Idle
  <2> QED BY <1>2, <1>3, <2>1, <2>2, <2>3, <2>4, CommitIInv
<1> QED BY <1>4, <1>5, <1>6

\* Registration and the browser's way to Google and back.
LEMMA VisitIInv ==
  ASSUME IInv,
         \/ \E b \in Browser, s \in Start : OAuthStart(b, s) \/ CallbackInvalidState(b, s)
         \/ \E s \in Start, g \in Sub : Consent(s, g)
         \/ \E b \in Browser : CallbackWithoutCode(b) \/ CallbackStateLost(b)
         \/ \E s \in Start : StateExpires(s)
  PROVE  IInv'
<1> USE DEF ClearCookie, TakeState, SaveState, SetCookie
<1>1. UNCHANGED <<mode, handoff, req, tables, logins>> /\ TypeOK
  BY DEF OAuthStart, CallbackInvalidState, Consent, CallbackWithoutCode, CallbackStateLost,
     StateExpires, IInv
<1>2. /\ stateKey' \in [Start -> {"absent", "live", "gone"}]
      /\ cookie' \in [Browser -> Start \cup {NoStart}]
      /\ codes \subseteq codes' /\ codes' \subseteq [st : Start, sub : Sub]
  BY <1>1 DEF OAuthStart, CallbackInvalidState, Consent, CallbackWithoutCode, CallbackStateLost,
     StateExpires, TypeOK
<1>3. CASE UNCHANGED codes
  BY <1>1, <1>2, <1>3, QuietIInv DEF TypeOK
<1>4. CASE UNCHANGED stateKey
  <2>1. Grows /\ TablesOK'
    BY <1>1, <1>2 DEF Grows, TablesOK, tables, IInv, TypeOK, AddressesOK, PasswordlessCanSignIn
  <2> QED BY <1>1, <1>2, <1>4, <2>1, CommitIInv DEF TypeOK
<1> QED
  BY <1>3, <1>4 DEF OAuthStart, CallbackInvalidState, Consent, CallbackWithoutCode,
     CallbackStateLost, StateExpires

\* GETDEL of a hand-off code.
LEMMA TakeHandoffOK ==
  ASSUME TypeOK, HandoffsOK, NEW h \in Handoff, TakeHandoff(h)
  PROVE  /\ handoff' \in [Handoff -> Given \cup {NoHandoff}]
         /\ UNCHANGED <<codes, link>> => HandoffsOK'
<1>1. handoff[h] \in Given /\ handoff' = [handoff EXCEPT ![h] = [handoff[h] EXCEPT !.status = "gone"]]
  BY DEF TakeHandoff, TypeOK
<1>2. [handoff[h] EXCEPT !.status = "gone"] \in Given  BY <1>1 DEF Given
<1>3. handoff' \in [Handoff -> Given \cup {NoHandoff}]  BY <1>1, <1>2 DEF TypeOK
<1>4. \A k \in Handoff : handoff'[k] = IF k = h THEN [handoff[h] EXCEPT !.status = "gone"] ELSE handoff[k]
  BY <1>1 DEF TypeOK
<1>5. /\ handoff[h] # NoHandoff
      /\ handoff'[h].st = handoff[h].st /\ handoff'[h].sub = handoff[h].sub
      /\ handoff'[h].user = handoff[h].user
  BY <1>1, <1>4 DEF Given, TakeHandoff
<1> QED BY <1>3, <1>4, <1>5 DEF HandoffsOK

\* The start of a callback and of an exchange.
LEMMA ConsumeIInv ==
  ASSUME IInv, NEW r \in Req,
         \/ \E b \in Browser, c \in codes : CallbackConsume(r, b, c)
         \/ \E h \in Handoff : ExchangeConsume(r, h)
  PROVE  IInv'
<1>1. TypeOK /\ JobOK(req[r]) /\ HandoffsOK  BY DEF IInv, JobsOK
<1>2. ASSUME NEW j \in Job, req' = [req EXCEPT ![r] = j], JobOK(j), AtPC(r, "idle")
      PROVE  /\ req' \in [Req -> Job]
             /\ \A q \in Req : \/ req'[q] = req[q]
                               \/ JobOK(req'[q]) /\ req[q].pc \notin {"record", "undo"}
  <2>1. /\ req' \in [Req -> Job] /\ req'[r] = j /\ \A q \in Req \ {r} : req'[q] = req[q]
        /\ req[r].pc \notin {"record", "undo"}
    BY <1>1, <1>2 DEF TypeOK, AtPC
  <2>2. JobOK(req'[r])  BY <1>2, <2>1
  <2> QED BY <2>1, <2>2
<1>3. ASSUME NEW b \in Browser, NEW c \in codes, CallbackConsume(r, b, c) PROVE IInv'
  <2> DEFINE j == [pc |-> "exchange_code", st |-> cookie[b], sub |-> c.sub,
                   granted |-> c.st, user |-> NoUser, b |-> b]
  <2>1. c \in [st : Start, sub : Sub] /\ cookie[b] \in Start
    BY <1>1, <1>3 DEF TypeOK, CallbackConsume
  <2>2. j \in Job  BY <2>1 DEF Job, PC
  <2>3. [st |-> c.st, sub |-> c.sub] = c  BY <2>1
  <2>4. JobOK(j)  BY <2>1, <2>3 DEF JobOK, Checked, Settled, PC
  <2>5. /\ AtPC(r, "idle") /\ req' = [req EXCEPT ![r] = j]
        /\ UNCHANGED <<mode, cookie, codes, handoff, tables, logins>>
        /\ stateKey' \in [Start -> {"absent", "live", "gone"}]
    BY <1>1, <1>3 DEF CallbackConsume, TakeState, TypeOK
  <2> HIDE DEF j
  <2> QED BY <1>1, <1>2, <2>2, <2>4, <2>5, QuietIInv DEF TypeOK
<1>4. ASSUME NEW h \in Handoff, ExchangeConsume(r, h) PROVE IInv'
  <2> DEFINE j == [pc |-> "ex_user", st |-> handoff[h].st, sub |-> handoff[h].sub,
                   granted |-> handoff[h].st, user |-> handoff[h].user, b |-> NoBrowser]
  <2>1. handoff[h] # NoHandoff /\ handoff[h] \in Given
    BY <1>1, <1>4 DEF ExchangeConsume, TakeHandoff, TypeOK
  <2>2. j \in Job  BY <2>1 DEF Job, PC, Given
  <2>3. handoff[h].st \in Start /\ handoff[h].sub \in Sub /\ handoff[h].user \in User
    BY <2>1 DEF Given
  <2>4. JobOK(j)  BY <1>1, <2>1, <2>3 DEF JobOK, HandoffsOK, Checked, Settled, PC
  <2>5. /\ AtPC(r, "idle") /\ req' = [req EXCEPT ![r] = j] /\ TakeHandoff(h)
        /\ UNCHANGED <<mode, stateKey, cookie, codes, tables, logins>>
    BY <1>4 DEF ExchangeConsume
  <2>6. handoff' \in [Handoff -> Given \cup {NoHandoff}] /\ HandoffsOK'
    BY <1>1, <2>5, TakeHandoffOK DEF tables, IInv
  <2> HIDE DEF j
  <2> QED BY <1>1, <1>2, <2>2, <2>4, <2>5, <2>6, QuietIInv DEF TypeOK
<1> QED BY <1>3, <1>4

\* A hand-off code expires.
LEMMA HandoffExpiresIInv ==
  ASSUME IInv, NEW h \in Handoff, HandoffExpires(h)
  PROVE  IInv'
<1>1. TakeHandoff(h) /\ UNCHANGED <<mode, stateKey, cookie, codes, req, tables, logins>>
  BY DEF HandoffExpires
<1>2. handoff' \in [Handoff -> Given \cup {NoHandoff}] /\ HandoffsOK'
  BY <1>1, TakeHandoffOK DEF tables, IInv
<1> QED BY <1>1, <1>2, QuietIInv DEF IInv, TypeOK

\* A user registers with an address nobody has.
LEMMA RegisterIInv ==
  ASSUME IInv, NEW u \in User, NEW e \in Email, Register(u, e)
  PROVE  IInv'
<1>1. TypeOK /\ AddressesOK /\ e # NoEmail  BY NoneAssumption DEF IInv
<1>2. /\ email[u] = NoEmail /\ \A v \in User : email[v] # e
      /\ email' = [email EXCEPT ![u] = e] /\ password' = password \cup {u}
      /\ active' = active \cup {u}
      /\ UNCHANGED <<mode, stateKey, cookie, codes, handoff, req, verified, link, logins>>
  BY DEF Register, UserWith
<1>3. /\ email'[u] = e /\ \A v \in User \ {u} : email'[v] = email[v]
      /\ email' \in [User -> Email \cup {NoEmail}]
  BY <1>1, <1>2 DEF TypeOK
<1>4. Grows  BY <1>2, <1>3 DEF Grows
<1>5. AddressesOK'
  <2>1. \A v, w \in User : email'[v] = email'[w] /\ email'[v] # NoEmail => v = w
    BY <1>1, <1>2, <1>3 DEF AddressesOK
  <2>2. \A x \in Sub : link[x] # u
    BY <1>1, <1>2, EmailOfAssumption, NoneAssumption DEF AddressesOK
  <2>3. \A x \in Sub : link'[x] \in User => email'[link'[x]] = EmailOf[x]
    BY <1>1, <1>2, <1>3, <2>2 DEF AddressesOK
  <2> QED BY <2>1, <2>3 DEF AddressesOK
<1>6. PasswordlessCanSignIn'
  BY <1>2, <1>3 DEF IInv, PasswordlessCanSignIn
<1>7. TablesOK'  BY <1>1, <1>2, <1>3, <1>5, <1>6 DEF TablesOK, TypeOK
<1> QED BY <1>1, <1>2, <1>4, <1>7, CommitIInv DEF TypeOK

\* A step on credentials keeps the invariant if these parts of it hold after.
LEMMA LoginsIInv ==
  ASSUME IInv, UNCHANGED <<mode, stateKey, codes, handoff, email, verified, password, link>>,
         active' \subseteq User, cookie' \in [Browser -> Start \cup {NoStart}],
         req' \in [Req -> Job], creds' \subseteq Cred, recorded' \subseteq Cred,
         abandoned' \subseteq Cred, JobsOK', SignedInAsConsented', UnrecordedIsRolledBack'
  PROVE  IInv'
BY DEF IInv, TypeOK, HandoffsOK, AddressesOK, PasswordlessCanSignIn

\* A job at a settled step has a credential to store.
LEMMA CredType ==
  ASSUME NEW j \in Job, JobOK(j), j.pc \in Settled
  PROVE  /\ CredOf(j) \in Cred
         /\ [st |-> CredOf(j).st, sub |-> CredOf(j).sub] \in codes
         /\ link[CredOf(j).sub] = CredOf(j).user
<1>1. j.st \in Start /\ j.sub \in Sub /\ j.user \in User /\ j.granted = j.st
  BY DEF JobOK, Settled, Checked, PC
<1> QED BY <1>1 DEF CredOf, Cred, JobOK, Settled

\* The login of the strategy, and what follows it.
LEMMA LoginStepIInv ==
  ASSUME IInv, NEW r \in Req,
         StoreCredential(r) \/ RecordLogin(r) \/ RecordFails(r) \/ Undo(r)
  PROVE  IInv'
<1> DEFINE c == CredOf(req[r])
<1>1. TypeOK /\ req[r] \in Job /\ JobOK(req[r]) /\ JobsOK  BY DEF IInv, JobsOK, TypeOK
<1>2. req[r].pc \in Settled
  BY DEF StoreCredential, AtStore, RecordLogin, RecordFails, Undo, AtPC, Settled
<1>3. c \in Cred /\ [st |-> c.st, sub |-> c.sub] \in codes /\ link[c.sub] = c.user
  BY <1>1, <1>2, CredType
<1> HIDE DEF c
<1>4. /\ UNCHANGED <<mode, stateKey, codes, handoff, email, verified, password, link>>
      /\ UNCHANGED active
      /\ cookie' \in [Browser -> Start \cup {NoStart}]
  BY <1>1, CookieType DEF StoreCredential, RecordLogin, RecordFails, Undo, tables
<1>5. ASSUME Goto(r, "record") \/ Goto(r, "undo") \/ Return(r)
      PROVE  req' \in [Req -> Job] /\ JobsOK' /\ \A q \in Req \ {r} : req'[q] = req[q]
  <2>1. /\ req' \in [Req -> Job] /\ \A q \in Req \ {r} : req'[q] = req[q]
        /\ \/ req'[r] = Idle
           \/ \E label \in {"record", "undo"} : req'[r] = [req[r] EXCEPT !.pc = label]
    BY <1>1, <1>5, MoveTypes DEF PC
  <2>2. JobOK(req[r])'
    <3>1. CASE req'[r] = Idle  BY <3>1, IdleOK DEF JobOK, Idle
    <3>2. ASSUME NEW label \in {"record", "undo"}, req'[r] = [req[r] EXCEPT !.pc = label]
          PROVE  JobOK(req[r])'
      BY <1>1, <1>2, <1>4, <3>2 DEF JobOK, Job, Checked, Settled, PC
    <3> QED BY <2>1, <3>1, <3>2
  <2>3. Grows  BY <1>4 DEF Grows
  <2> QED BY <1>1, <2>1, <2>2, <2>3, StaysOK DEF JobsOK
<1>6. ASSUME NEW d \in creds \ recorded, d \notin abandoned, d # c,
             \A q \in Req \ {r} : req'[q] = req[q]
      PROVE  \/ \E q \in Req : req'[q].pc \in {"record", "undo"} /\ CredOf(req'[q]) = d
  <2>1. PICK q \in Req : req[q].pc \in {"record", "undo"} /\ CredOf(req[q]) = d
    BY <1>6 DEF IInv, UnrecordedIsRolledBack
  <2>2. q # r  BY <1>6, <2>1 DEF c
  <2> QED BY <1>6, <2>1, <2>2
<1>7. CASE StoreCredential(r)
  <2>1. creds' = creds \cup {c} /\ Goto(r, "record") /\ UNCHANGED <<recorded, abandoned>>
    BY <1>7 DEF StoreCredential, c
  <2>2. req' \in [Req -> Job] /\ JobsOK' /\ \A q \in Req \ {r} : req'[q] = req[q]
    BY <1>5, <2>1
  <2>3. SignedInAsConsented'  BY <1>3, <1>4, <2>1 DEF IInv, SignedInAsConsented
  <2>4. req'[r].pc = "record" /\ CredOf(req'[r]) = c
    <3>1. "record" \in PC  BY DEF PC
    <3>2. req'[r] = [req[r] EXCEPT !.pc = "record"] /\ req[r] \in Job
      BY <1>1, <2>1, <3>1, MoveTypes DEF TypeOK
    <3>3. req'[r].pc = "record" /\ CredOf(req'[r]) = CredOf(req[r])
      BY <3>2 DEF CredOf, Job
    <3> QED BY <3>3 DEF c
  <2>5. UnrecordedIsRolledBack'
    <3> SUFFICES ASSUME NEW d \in creds' \ recorded', d \notin abandoned'
                 PROVE  \E q \in Req : req'[q].pc \in {"record", "undo"} /\ CredOf(req'[q]) = d
      BY DEF UnrecordedIsRolledBack, CredOf
    <3> QED BY <1>6, <2>1, <2>2, <2>4
  <2> QED BY <1>1, <1>3, <1>4, <2>1, <2>2, <2>3, <2>5, LoginsIInv DEF TypeOK
<1>8. CASE RecordLogin(r)
  <2>1. Return(r) /\ recorded' = recorded \cup {c} /\ UNCHANGED <<creds, abandoned>>
    BY <1>8 DEF RecordLogin, Redirect, c
  <2>2. req' \in [Req -> Job] /\ JobsOK' /\ \A q \in Req \ {r} : req'[q] = req[q]
    BY <1>5, <2>1
  <2>3. SignedInAsConsented'  BY <1>4, <2>1 DEF IInv, SignedInAsConsented
  <2>4. UnrecordedIsRolledBack'
    <3> SUFFICES ASSUME NEW d \in creds' \ recorded', d \notin abandoned'
                 PROVE  \E q \in Req : req'[q].pc \in {"record", "undo"} /\ CredOf(req'[q]) = d
      BY DEF UnrecordedIsRolledBack, CredOf
    <3> QED BY <1>6, <2>1, <2>2
  <2> QED BY <1>1, <1>3, <1>4, <2>1, <2>2, <2>3, <2>4, LoginsIInv DEF TypeOK
<1>9. CASE RecordFails(r)
  <2>1. /\ Goto(r, "undo") /\ recorded' \in {recorded, recorded \cup {c}}
        /\ UNCHANGED <<creds, abandoned>>
    BY <1>9 DEF RecordFails, c
  <2>2. req' \in [Req -> Job] /\ JobsOK' /\ \A q \in Req \ {r} : req'[q] = req[q]
    BY <1>5, <2>1
  <2>3. SignedInAsConsented'  BY <1>4, <2>1 DEF IInv, SignedInAsConsented
  <2>4. req'[r].pc = "undo" /\ CredOf(req'[r]) = c
    <3>1. req'[r] = [req[r] EXCEPT !.pc = "undo"]  BY <1>1, <2>1, MoveTypes DEF PC
    <3> QED BY <1>1, <3>1 DEF CredOf, Job, c
  <2>5. UnrecordedIsRolledBack'
    <3> SUFFICES ASSUME NEW d \in creds' \ recorded', d \notin abandoned'
                 PROVE  \E q \in Req : req'[q].pc \in {"record", "undo"} /\ CredOf(req'[q]) = d
      BY DEF UnrecordedIsRolledBack, CredOf
    <3> QED BY <1>6, <2>1, <2>2, <2>4
  <2> QED BY <1>1, <1>3, <1>4, <2>1, <2>2, <2>3, <2>5, LoginsIInv DEF TypeOK
<1>10. CASE Undo(r)
  <2>1. /\ Return(r) /\ UNCHANGED recorded
        /\ \/ creds' = creds \ {c} /\ UNCHANGED abandoned
           \/ abandoned' = abandoned \cup {c} /\ UNCHANGED creds
    BY <1>10 DEF Undo, Unavailable, RollbackLogin, c
  <2>2. req' \in [Req -> Job] /\ JobsOK' /\ \A q \in Req \ {r} : req'[q] = req[q]
    BY <1>5, <2>1
  <2>3. SignedInAsConsented'  BY <1>4, <2>1 DEF IInv, SignedInAsConsented
  <2>4. UnrecordedIsRolledBack'
    <3> SUFFICES ASSUME NEW d \in creds' \ recorded', d \notin abandoned'
                 PROVE  \E q \in Req : req'[q].pc \in {"record", "undo"} /\ CredOf(req'[q]) = d
      BY DEF UnrecordedIsRolledBack, CredOf
    <3> QED BY <1>6, <2>1, <2>2
  <2> QED BY <1>1, <1>3, <1>4, <2>1, <2>2, <2>3, <2>4, LoginsIInv DEF TypeOK
<1> QED BY <1>7, <1>8, <1>9, <1>10

\* A credential left behind by a store without reply or by a death is marked.
LEMMA AbandonIInv ==
  ASSUME IInv, NEW r \in Req, req[r].pc \in Settled, Unavailable(r),
         creds' \in {creds, creds \cup {CredOf(req[r])}},
         abandoned' = abandoned \cup {CredOf(req[r])},
         UNCHANGED <<mode, stateKey, codes, handoff, tables, recorded>>
  PROVE  IInv'
<1> DEFINE c == CredOf(req[r])
<1>1. TypeOK /\ req[r] \in Job /\ JobOK(req[r]) /\ JobsOK  BY DEF IInv, JobsOK, TypeOK
<1>2. c \in Cred /\ [st |-> c.st, sub |-> c.sub] \in codes /\ link[c.sub] = c.user
  BY <1>1, CredType
<1>3. c \notin creds' \ abandoned' /\ abandoned' = abandoned \cup {c}
      /\ creds' \subseteq creds \cup {c}
  OBVIOUS
<1> HIDE DEF c
<1>4. /\ cookie' \in [Browser -> Start \cup {NoStart}]
      /\ UNCHANGED <<email, active, verified, password, link>>
  BY <1>1, CookieType DEF tables
<1>5. req' \in [Req -> Job] /\ req'[r] = Idle /\ \A q \in Req \ {r} : req'[q] = req[q]
  BY <1>1, MoveTypes DEF Unavailable
<1>6. JobsOK'
  <2>1. JobOK(req[r])'  BY <1>5, IdleOK DEF JobOK, Idle
  <2>2. Grows  BY <1>4 DEF Grows
  <2> QED BY <1>1, <1>5, <2>1, <2>2, StaysOK DEF JobsOK
<1>7. SignedInAsConsented'  BY <1>2, <1>3, <1>4 DEF IInv, SignedInAsConsented
<1>8. UnrecordedIsRolledBack'
  <2> SUFFICES ASSUME NEW d \in creds' \ recorded', d \notin abandoned'
               PROVE  \E q \in Req : req'[q].pc \in {"record", "undo"} /\ CredOf(req'[q]) = d
    BY DEF UnrecordedIsRolledBack, CredOf
  <2>1. d \in creds \ recorded /\ d \notin abandoned /\ d # c  BY <1>3
  <2>2. PICK q \in Req : req[q].pc \in {"record", "undo"} /\ CredOf(req[q]) = d
    BY <2>1 DEF IInv, UnrecordedIsRolledBack
  <2>3. q # r  BY <2>1, <2>2 DEF c
  <2> QED BY <1>5, <2>2, <2>3
<1>9. creds' \subseteq Cred /\ abandoned' \subseteq Cred /\ recorded' \subseteq Cred
  BY <1>1, <1>2, <1>3 DEF TypeOK
<1> QED BY <1>1, <1>4, <1>5, <1>6, <1>7, <1>8, <1>9, LoginsIInv DEF TypeOK

\* A request dies wherever it is.
LEMMA DiesIInv ==
  ASSUME IInv, NEW r \in Req, RequestDies(r)
  PROVE  IInv'
<1>1. TypeOK /\ Return(r) /\ UNCHANGED cookie  BY DEF IInv, RequestDies, Unavailable
<1>2. CASE req[r].pc \in {"record", "undo"}
  BY <1>2, AbandonIInv DEF RequestDies, Settled
<1>3. CASE req[r].pc \notin {"record", "undo"}
  <2>1. UNCHANGED <<mode, stateKey, codes, handoff, tables, logins>>
    BY <1>3 DEF RequestDies, logins
  <2> QED BY <1>1, <1>3, <2>1, MoveTypes, IdleOK, QuietIInv DEF TypeOK
<1> QED BY <1>2, <1>3

\* The store whose reply is lost.
LEMMA StoreUnansweredIInv ==
  ASSUME IInv, NEW r \in Req, StoreUnanswered(r)
  PROVE  IInv'
<1>1. req[r].pc \in Settled  BY DEF StoreUnanswered, AtStore, AtPC, Settled
<1> QED BY <1>1, AbandonIInv DEF StoreUnanswered

\* The hand-off, the failure to store anything and the user's second reading.
LEMMA HandIInv ==
  ASSUME IInv, NEW r \in Req,
         (\E h \in Handoff : HandOff(r, h)) \/ StoreFails(r) \/ ExchangeUser(r)
  PROVE  IInv'
<1>1. TypeOK /\ req[r] \in Job /\ JobOK(req[r]) /\ HandoffsOK  BY DEF IInv, JobsOK, TypeOK
<1>2. /\ UNCHANGED <<mode, stateKey, codes, tables, logins>>
      /\ cookie' \in [Browser -> Start \cup {NoStart}]
      /\ req[r].pc \in Settled /\ req[r].pc \notin {"record", "undo"}
  BY <1>1, CookieType DEF HandOff, StoreFails, ExchangeUser, Settled, AtPC
<1>3. \/ Return(r)
      \/ Goto(r, "ex_login")
  BY DEF HandOff, StoreFails, ExchangeUser, Redirect, Unavailable
<1>4. /\ req' \in [Req -> Job] /\ JobOK(req'[r])
      /\ \A q \in Req \ {r} : req'[q] = req[q]
  <2>1. CASE Return(r)  BY <1>1, <2>1, MoveTypes, IdleOK
  <2>2. CASE Goto(r, "ex_login")
    <3>1. JobOK([req[r] EXCEPT !.pc = "ex_login"])
      BY <1>1, <1>2 DEF JobOK, Job, Checked, Settled, PC
    <3> QED BY <1>1, <2>2, <3>1, MoveTypes DEF PC
  <2> QED BY <1>3, <2>1, <2>2
<1>5. ASSUME NEW h \in Handoff, HandOff(r, h)
      PROVE  handoff' \in [Handoff -> Given \cup {NoHandoff}] /\ HandoffsOK'
  <2> DEFINE j == req[r]
             given == [status |-> "live", st |-> j.st, sub |-> j.sub, user |-> j.user]
  <2>1. handoff' = [handoff EXCEPT ![h] = given]  BY <1>5 DEF HandOff, PutHandoff
  <2>2. /\ j.st \in Start /\ j.sub \in Sub /\ j.user \in User
        /\ [st |-> j.st, sub |-> j.sub] \in codes /\ link[j.sub] = j.user
    BY <1>1, <1>2 DEF JobOK, Settled, Checked, PC
  <2>3. given \in Given  BY <2>2 DEF Given
  <2>4. \A k \in Handoff : handoff'[k] = IF k = h THEN given ELSE handoff[k]
    BY <1>1, <2>1 DEF TypeOK
  <2>5. handoff' \in [Handoff -> Given \cup {NoHandoff}]  BY <1>1, <2>1, <2>3 DEF TypeOK
  <2>6. HandoffsOK'
    BY <1>1, <1>2, <2>2, <2>4 DEF HandoffsOK, tables
  <2> QED BY <2>5, <2>6
<1>6. UNCHANGED handoff \/ (handoff' \in [Handoff -> Given \cup {NoHandoff}] /\ HandoffsOK')
  BY <1>5 DEF StoreFails, ExchangeUser
<1> QED BY <1>1, <1>2, <1>4, <1>6, QuietIInv DEF TypeOK

\* Deactivating a user deletes its credentials.
LEMMA DeactivateIInv ==
  ASSUME IInv, NEW u \in User, Deactivate(u)
  PROVE  IInv'
<1>1. /\ creds' \subseteq creds /\ active' \subseteq active
      /\ UNCHANGED <<mode, stateKey, cookie, codes, handoff, req, email, verified, password, link,
                     recorded, abandoned>>
  BY DEF Deactivate
<1>2. JobsOK' /\ SignedInAsConsented'
  BY <1>1 DEF IInv, JobsOK, JobOK, SignedInAsConsented
<1>3. UnrecordedIsRolledBack'
  BY <1>1 DEF IInv, UnrecordedIsRolledBack, CredOf
<1> QED BY <1>1, <1>2, <1>3, LoginsIInv DEF IInv, TypeOK

\* Every step preserves the inductive invariant.
LEMMA NextIInv == IInv /\ [Next]_vars => IInv'
<1> SUFFICES ASSUME IInv, [Next]_vars PROVE IInv'
  OBVIOUS
<1>1. ASSUME NEW r \in Req, RequestStep(r) PROVE IInv'
  BY <1>1, ProviderIInv, LookupIInv, ResolveIInv, LoginStepIInv, HandIInv, DiesIInv,
     StoreUnansweredIInv DEF RequestStep
<1>2. CASE UNCHANGED vars
  BY <1>2, QuietIInv DEF vars, IInv, TypeOK
<1> QED
  BY <1>1, <1>2, VisitIInv, ConsumeIInv, HandoffExpiresIInv, RegisterIInv, DeactivateIInv
  DEF Next

\* The inductive invariant holds in every reachable state.
THEOREM Invariance == Spec => []IInv
BY InitIInv, NextIInv, PTL DEF Spec

\* Keys, cookies, requests, tables and credentials keep their types.
THEOREM TypeCorrect == Spec => []TypeOK
<1>1. IInv => TypeOK  BY DEF IInv
<1> QED BY <1>1, Invariance, PTL

\* Every credential is that of the user linked to the Google account which
\* consented to the very start it answers.
THEOREM ConsentSafety == Spec => []SignedInAsConsented
<1>1. IInv => SignedInAsConsented  BY DEF IInv
<1> QED BY <1>1, Invariance, PTL

\* A user without a password can sign in with Google.
THEOREM LinkSafety == Spec => []PasswordlessCanSignIn
<1>1. IInv => PasswordlessCanSignIn  BY DEF IInv
<1> QED BY <1>1, Invariance, PTL

\* A credential without a history row is being recorded or rolled back, or is
\* one of those nobody can roll back: its rollback failed, the reply of its
\* store was lost, or the process died before the row was written.
THEOREM RollbackSafety == Spec => []UnrecordedIsRolledBack
<1>1. IInv => UnrecordedIsRolledBack  BY DEF IInv
<1> QED BY <1>1, Invariance, PTL
-----------------------------------------------------------------------------
(* The refinement of SignInFlow                                            *)

\* A start has at most one holder, and none before it is used.
OneHolder(s) ==
  /\ \A x, y \in Holders(s) : x = y
  /\ stateKey[s] = "absent" => Holders(s) = {}

OneHolderEach == \A s \in Start : OneHolder(s)

\* The phase of a start with one holder is the kind of that holder.
LEMMA PhaseIs ==
  ASSUME NEW s \in Start, OneHolder(s)
  PROVE  /\ stateKey[s] = "absent" => PhaseOf(s) = "unused"
         /\ stateKey[s] # "absent" /\ Holders(s) = {} => PhaseOf(s) = "over"
         /\ \A x \in Holders(s) : PhaseOf(s) = x[1]
<1>1. ASSUME NEW x \in Holders(s) PROVE PhaseOf(s) = x[1]
  <2>1. Holders(s) = {x} /\ stateKey[s] # "absent"  BY <1>1 DEF OneHolder
  <2>2. Cardinality(Holders(s)) = 1  BY <2>1, FS_Singleton
  <2>3. (CHOOSE y \in Holders(s) : TRUE) = x  BY <2>1
  <2> QED BY <2>1, <2>2, <2>3 DEF PhaseOf
<1> QED BY <1>1 DEF PhaseOf

\* The kinds of holders.
LEMMA HolderKinds ==
  ASSUME NEW s \in Start, NEW x \in Holders(s)
  PROVE  x[1] \in {"open", "working", "exchanging", "handed", "granted"}
BY DEF Holders

\* What SignInFlow allows a start to do in a step.
FlowStep(s) == PhaseOf(s)' \in Flow!Follows(PhaseOf(s)) \cup {PhaseOf(s)}

\* A start that loses its holder, or keeps it, follows the flow.
LEMMA ShrinkFlow ==
  ASSUME NEW s \in Start, OneHolder(s), Holders(s)' \subseteq Holders(s),
         (stateKey'[s] = "absent") <=> (stateKey[s] = "absent")
  PROVE  OneHolder(s)' /\ FlowStep(s)
<1>1. OneHolder(s)'  BY DEF OneHolder
<1>2. CASE stateKey[s] = "absent"
  <2>1. PhaseOf(s) = "unused" /\ PhaseOf(s)' = "unused"  BY <1>2 DEF PhaseOf
  <2> QED BY <1>1, <2>1 DEF FlowStep
<1>3. CASE stateKey[s] # "absent" /\ Holders(s)' = {}
  <2>1. PhaseOf(s)' = "over"  BY <1>3 DEF PhaseOf
  <2>2. CASE Holders(s) = {}
    <3>1. PhaseOf(s) = "over"  BY <1>3, <2>2 DEF PhaseOf
    <3> QED BY <1>1, <2>1, <3>1 DEF FlowStep
  <2>3. ASSUME NEW x \in Holders(s) PROVE OneHolder(s)' /\ FlowStep(s)
    <3>1. PhaseOf(s) = x[1]  BY PhaseIs
    <3>2. PhaseOf(s) \in {"open", "working", "exchanging", "handed", "granted"}
      BY <3>1, HolderKinds
    <3> QED BY <1>1, <2>1, <3>2 DEF FlowStep, Flow!Follows
  <2> QED BY <2>2, <2>3
<1>4. CASE stateKey[s] # "absent" /\ Holders(s)' # {}
  <2>1. PICK x : x \in Holders(s)'  BY <1>4
  <2>2. Holders(s)' = Holders(s)  BY <2>1 DEF OneHolder
  <2>3. PhaseOf(s)' = PhaseOf(s)  BY <1>4, <2>2 DEF PhaseOf
  <2> QED BY <1>1, <2>3 DEF FlowStep
<1> QED BY <1>2, <1>3, <1>4

\* A start whose holder is replaced by one of a kind that may follow.
LEMMA PassFlow ==
  ASSUME NEW s \in Start, OneHolder(s), NEW x \in Holders(s), NEW y,
         Holders(s)' = {y}, stateKey'[s] # "absent", y[1] \in Flow!Follows(x[1])
  PROVE  OneHolder(s)' /\ FlowStep(s)
<1>1. OneHolder(s)'  BY DEF OneHolder
<1>2. PhaseOf(s) = x[1]  BY PhaseIs
<1>3. PhaseOf(s)' = y[1]
  <2>1. Cardinality(Holders(s)') = 1  BY FS_Singleton
  <2>2. Cardinality(Holders(s))' = 1  BY <2>1
  <2>3. (CHOOSE z \in Holders(s)' : TRUE) = y  OBVIOUS
  <2> QED BY <2>2, <2>3 DEF PhaseOf
<1> QED BY <1>1, <1>2, <1>3 DEF FlowStep

WorksFor(r, s) == req[r].st = s /\ req[r].pc \in Working
ExchangesFor(r, s) == req[r].st = s /\ req[r].pc \in Exchanging
HandedFor(h, s) ==
  handoff[h] # NoHandoff /\ handoff[h].status = "live" /\ handoff[h].st = s

\* The holders of a start, one kind after the other.
LEMMA HoldersAre ==
  ASSUME NEW s \in Start
  PROVE  /\ \A x \in Holders(s) :
               \/ x = <<"open", s>> /\ stateKey[s] = "live"
               \/ \E r \in Req : x = <<"working", r>> /\ WorksFor(r, s)
               \/ \E r \in Req : x = <<"exchanging", r>> /\ ExchangesFor(r, s)
               \/ \E h \in Handoff : x = <<"handed", h>> /\ HandedFor(h, s)
               \/ \E c \in creds : x = <<"granted", c>> /\ c.st = s
         /\ stateKey[s] = "live" => <<"open", s>> \in Holders(s)
         /\ \A r \in Req : WorksFor(r, s) => <<"working", r>> \in Holders(s)
         /\ \A r \in Req : ExchangesFor(r, s) => <<"exchanging", r>> \in Holders(s)
         /\ \A h \in Handoff : HandedFor(h, s) => <<"handed", h>> \in Holders(s)
         /\ \A c \in creds : c.st = s => <<"granted", c>> \in Holders(s)
BY DEF Holders, WorksFor, ExchangesFor, HandedFor

\* No holder is new to a start.
Fades(s) ==
  /\ stateKey'[s] = "live" => stateKey[s] = "live"
  /\ \A r \in Req : WorksFor(r, s)' => WorksFor(r, s)
  /\ \A r \in Req : ExchangesFor(r, s)' => ExchangesFor(r, s)
  /\ \A h \in Handoff : HandedFor(h, s)' => HandedFor(h, s)
  /\ \A c \in creds' : c.st = s => c \in creds

\* Then it follows the flow.
LEMMA FadeFlow ==
  ASSUME NEW s \in Start, OneHolder(s), Fades(s),
         (stateKey'[s] = "absent") <=> (stateKey[s] = "absent")
  PROVE  OneHolder(s)' /\ FlowStep(s)
<1>1. ASSUME NEW x \in Holders(s)' PROVE x \in Holders(s)
  <2>1. \/ x = <<"open", s>> /\ stateKey'[s] = "live"
        \/ \E r \in Req : x = <<"working", r>> /\ WorksFor(r, s)'
        \/ \E r \in Req : x = <<"exchanging", r>> /\ ExchangesFor(r, s)'
        \/ \E h \in Handoff : x = <<"handed", h>> /\ HandedFor(h, s)'
        \/ \E c \in creds' : x = <<"granted", c>> /\ c.st = s
    BY DEF Holders, WorksFor, ExchangesFor, HandedFor
  <2> QED BY <2>1, HoldersAre DEF Fades
<1> QED BY <1>1, ShrinkFlow

\* The request goes on within its phase, or ends.
KeepsPhase(r) ==
  /\ \A q \in Req \ {r} : req'[q] = req[q]
  /\ \/ req'[r].pc \in {"idle", "undo"}
     \/ /\ req'[r].st = req[r].st
        /\ req'[r].pc \in Working => req[r].pc \in Working
        /\ req'[r].pc \in Exchanging => req[r].pc \in Exchanging

\* A request that only moves on within its phase, or ends.
LEMMA RequestFades ==
  ASSUME IInv, NEW r \in Req, RequestStep(r),
         ~StoreCredential(r), ~StoreUnanswered(r), ~\E h \in Handoff : HandOff(r, h)
  PROVE  /\ UNCHANGED stateKey
         /\ \A s \in Start : Fades(s)
<1>1. TypeOK  BY DEF IInv
<1>2. UNCHANGED <<stateKey, handoff>> /\ creds' \subseteq creds
  BY DEF RequestStep, ExchangeCode, VerifyIdToken, FetchUserinfo, ProviderFails, LookupAccount,
     LookupEmail, LookupEmailRefused, LinkExisting, CreateUser, ReadBack, ResolveFails,
     ResolveUnanswered, StoreFails, RequestDies, ExchangeUser, RecordLogin, RecordFails, Undo,
     RollbackLogin, logins
<1>3. KeepsPhase(r)
  <2>1. CASE Return(r)  BY <1>1, <2>1, MoveTypes DEF Idle, KeepsPhase
  <2>2. CASE \/ ExchangeCode(r) \/ VerifyIdToken(r) \/ FetchUserinfo(r) \/ LinkExisting(r)
             \/ (ReadBack(r) /\ Goto(r, "login"))
             \/ (LookupAccount(r) /\ Goto(r, "by_email"))
             \/ (LookupEmail(r) /\ Goto(r, "create"))
    <3>1. PICK label \in Working : Goto(r, label) /\ req[r].pc \in Working
      BY <2>2 DEF ExchangeCode, VerifyIdToken, FetchUserinfo, LinkExisting, ReadBack,
         LookupAccount, LookupEmail, AtPC, Working
    <3>2. /\ req'[r] = [req[r] EXCEPT !.pc = label] /\ \A q \in Req \ {r} : req'[q] = req[q]
          /\ req[r] \in Job
      <4>1. label \in PC  BY DEF Working, PC
      <4> QED BY <1>1, <3>1, <4>1, MoveTypes DEF TypeOK
    <3> QED BY <3>1, <3>2 DEF Working, Exchanging, Job, KeepsPhase
  <2>3. ASSUME NEW label \in Working, NEW u, req[r].pc \in Working,
               req' = [req EXCEPT ![r].pc = label, ![r].user = u]
        PROVE  /\ \A q \in Req \ {r} : req'[q] = req[q]
               /\ req'[r].st = req[r].st /\ req[r].pc \in Working /\ req'[r].pc = label
    BY <1>1, <2>3 DEF TypeOK, Job
  <2>4. ASSUME NEW u, \/ CreateUser(r, u)
                      \/ LookupAccount(r) /\ req' = [req EXCEPT ![r].pc = "login", ![r].user = u]
                      \/ LookupEmail(r) /\ req' = [req EXCEPT ![r].pc = "link", ![r].user = u]
        PROVE  /\ \A q \in Req \ {r} : req'[q] = req[q]
               /\ req'[r].st = req[r].st /\ req[r].pc \in Working /\ req'[r].pc \in Working
    <3>1. /\ req[r].pc \in Working
          /\ \E label \in Working : req' = [req EXCEPT ![r].pc = label, ![r].user = u]
      BY <2>4 DEF CreateUser, LookupAccount, LookupEmail, AtPC, Working
    <3>2. PICK label \in Working : req' = [req EXCEPT ![r].pc = label, ![r].user = u]  BY <3>1
    <3> QED BY <2>3, <3>1, <3>2
  <2>5. ASSUME NEW u, \/ CreateUser(r, u)
                      \/ LookupAccount(r) /\ req' = [req EXCEPT ![r].pc = "login", ![r].user = u]
                      \/ LookupEmail(r) /\ req' = [req EXCEPT ![r].pc = "link", ![r].user = u]
        PROVE  KeepsPhase(r)
    <3>1. Working \cap Exchanging = {}  BY DEF Working, Exchanging
    <3> QED BY <2>4, <2>5, <3>1 DEF KeepsPhase
  <2>6. CASE ExchangeUser(r) /\ Goto(r, "ex_login")
    <3>1. /\ req'[r] = [req[r] EXCEPT !.pc = "ex_login"] /\ \A q \in Req \ {r} : req'[q] = req[q]
          /\ req[r] \in Job /\ req[r].pc = "ex_user"
      BY <1>1, <2>6, MoveTypes DEF PC, TypeOK, ExchangeUser, AtPC
    <3> QED BY <3>1 DEF Working, Exchanging, Job, KeepsPhase
  <2>7. CASE Goto(r, "undo")
    <3>1. /\ req'[r] = [req[r] EXCEPT !.pc = "undo"] /\ \A q \in Req \ {r} : req'[q] = req[q]
          /\ req[r] \in Job
      BY <1>1, <2>7, MoveTypes DEF PC, TypeOK
    <3> QED BY <3>1 DEF Job, KeepsPhase
  <2>11. \/ ProviderFails(r) \/ LookupEmailRefused(r) \/ ResolveFails(r) \/ ResolveUnanswered(r)
        \/ StoreFails(r) \/ RequestDies(r) \/ RecordLogin(r) \/ Undo(r)
        => Return(r)
    BY DEF ProviderFails, LookupEmailRefused, ResolveFails, ResolveUnanswered, StoreFails,
       RequestDies, RecordLogin, Undo, DatabaseError, Redirect, Unavailable
  <2>8. CASE LookupAccount(r)
    <3>1. \/ Return(r) \/ Goto(r, "by_email")
          \/ \E u : req' = [req EXCEPT ![r].pc = "login", ![r].user = u]
      BY <2>8 DEF LookupAccount, Redirect
    <3>2. CASE \E u : req' = [req EXCEPT ![r].pc = "login", ![r].user = u]
      <4>1. PICK u : req' = [req EXCEPT ![r].pc = "login", ![r].user = u]  BY <3>2
      <4> QED BY <2>8, <2>5, <4>1
    <3> QED BY <2>1, <2>2, <2>8, <3>1, <3>2
  <2>9. CASE LookupEmail(r)
    <3>1. \/ Goto(r, "create")
          \/ \E u : req' = [req EXCEPT ![r].pc = "link", ![r].user = u]
      BY <2>9 DEF LookupEmail
    <3>2. CASE \E u : req' = [req EXCEPT ![r].pc = "link", ![r].user = u]
      <4>1. PICK u : req' = [req EXCEPT ![r].pc = "link", ![r].user = u]  BY <3>2
      <4> QED BY <2>5, <2>9, <4>1
    <3> QED BY <2>2, <2>9, <3>1, <3>2
  <2>10. CASE ReadBack(r) \/ ExchangeUser(r) \/ RecordFails(r)
    <3>1. \/ Return(r) \/ Goto(r, "undo")
          \/ ReadBack(r) /\ Goto(r, "login")
          \/ ExchangeUser(r) /\ Goto(r, "ex_login")
      BY <2>10 DEF ReadBack, ExchangeUser, RecordFails, Redirect
    <3> QED BY <2>1, <2>2, <2>6, <2>7, <3>1
  <2>12. \/ Return(r) \/ Goto(r, "undo")
         \/ ExchangeCode(r) \/ VerifyIdToken(r) \/ FetchUserinfo(r) \/ LinkExisting(r)
         \/ LookupAccount(r) \/ LookupEmail(r) \/ ReadBack(r) \/ ExchangeUser(r) \/ RecordFails(r)
         \/ \E u : CreateUser(r, u)
    BY <2>11 DEF RequestStep
  <2> QED BY <2>1, <2>2, <2>7, <2>8, <2>5, <2>12, <2>9, <2>10
<1> QED BY <1>2, <1>3 DEF KeepsPhase, Fades, WorksFor, ExchangesFor, HandedFor, Working, Exchanging

\* The holders after a step, one kind after the other.
LEMMA NextHolders ==
  ASSUME NEW s \in Start
  PROVE  /\ \A x \in Holders(s)' :
               \/ x = <<"open", s>> /\ stateKey'[s] = "live"
               \/ \E r \in Req : x = <<"working", r>> /\ WorksFor(r, s)'
               \/ \E r \in Req : x = <<"exchanging", r>> /\ ExchangesFor(r, s)'
               \/ \E h \in Handoff : x = <<"handed", h>> /\ HandedFor(h, s)'
               \/ \E c \in creds' : x = <<"granted", c>> /\ c.st = s
         /\ stateKey'[s] = "live" => <<"open", s>> \in Holders(s)'
         /\ \A r \in Req : WorksFor(r, s)' => <<"working", r>> \in Holders(s)'
         /\ \A r \in Req : ExchangesFor(r, s)' => <<"exchanging", r>> \in Holders(s)'
         /\ \A h \in Handoff : HandedFor(h, s)' => <<"handed", h>> \in Holders(s)'
         /\ \A c \in creds' : c.st = s => <<"granted", c>> \in Holders(s)'
BY DEF Holders, WorksFor, ExchangesFor, HandedFor

\* No holder but y is new to a start.
FadesBut(s, y) ==
  /\ stateKey'[s] = "live" => stateKey[s] = "live" \/ y = <<"open", s>>
  /\ \A r \in Req : WorksFor(r, s)' => WorksFor(r, s) \/ y = <<"working", r>>
  /\ \A r \in Req : ExchangesFor(r, s)' => ExchangesFor(r, s) \/ y = <<"exchanging", r>>
  /\ \A h \in Handoff : HandedFor(h, s)' => HandedFor(h, s) \/ y = <<"handed", h>>
  /\ \A c \in creds' : c.st = s => c \in creds \/ y = <<"granted", c>>

\* Every holder after such a step is the new one or a holder before it.
LEMMA NewHolder ==
  ASSUME NEW s \in Start, NEW y, FadesBut(s, y)
  PROVE  \A z \in Holders(s)' : z = y \/ z \in Holders(s)
<1> SUFFICES ASSUME NEW z \in Holders(s)', z # y PROVE z \in Holders(s)
  OBVIOUS
<1>1. CASE z = <<"open", s>> /\ stateKey'[s] = "live"  BY <1>1, HoldersAre DEF FadesBut
<1>2. ASSUME NEW r \in Req, z = <<"working", r>>, WorksFor(r, s)' PROVE z \in Holders(s)
  BY <1>2, HoldersAre DEF FadesBut
<1>3. ASSUME NEW r \in Req, z = <<"exchanging", r>>, ExchangesFor(r, s)' PROVE z \in Holders(s)
  BY <1>3, HoldersAre DEF FadesBut
<1>4. ASSUME NEW h \in Handoff, z = <<"handed", h>>, HandedFor(h, s)' PROVE z \in Holders(s)
  BY <1>4, HoldersAre DEF FadesBut
<1>5. ASSUME NEW c \in creds', z = <<"granted", c>>, c.st = s PROVE z \in Holders(s)
  BY <1>5, HoldersAre DEF FadesBut
<1> QED BY <1>1, <1>2, <1>3, <1>4, <1>5, NextHolders

\* A holder passes the start on: there is exactly one new holder, of a kind
\* that may follow.
LEMMA HandOverFlow ==
  ASSUME NEW s \in Start, OneHolder(s), NEW x \in Holders(s), NEW y, y \in Holders(s)',
         x \notin Holders(s)', FadesBut(s, y),
         y[1] \in Flow!Follows(x[1]), stateKey'[s] # "absent"
  PROVE  OneHolder(s)' /\ FlowStep(s)
<1>1. Holders(s)' = {y}  BY NewHolder DEF OneHolder
<1> QED BY <1>1, PassFlow

FlowSteps == \A s \in Start : OneHolder(s)' /\ FlowStep(s)

\* A step that touches only one start leaves the others where they are.
LEMMA OthersFlow ==
  ASSUME OneHolderEach, NEW s \in Start, OneHolder(s)' /\ FlowStep(s),
         \A t \in Start \ {s} : Fades(t) /\ stateKey'[t] = stateKey[t]
  PROVE  FlowSteps
BY FadeFlow DEF FlowSteps, OneHolderEach

\* oauth_start opens its start.
LEMMA StartFlow ==
  ASSUME IInv, OneHolderEach, NEW b \in Browser, NEW s \in Start, OAuthStart(b, s)
  PROVE  FlowSteps
<1>1. /\ stateKey[s] = "absent" /\ stateKey' = [stateKey EXCEPT ![s] = "live"]
      /\ UNCHANGED <<handoff, req, creds>> /\ stateKey \in [Start -> {"absent", "live", "gone"}]
  BY DEF OAuthStart, SaveState, logins, IInv, TypeOK
<1>2. \A t \in Start \ {s} : Fades(t) /\ stateKey'[t] = stateKey[t]
  BY <1>1 DEF Fades, WorksFor, ExchangesFor, HandedFor
<1>3. OneHolder(s) /\ Holders(s) = {} /\ stateKey'[s] = "live"
  BY <1>1 DEF OneHolderEach, OneHolder
<1>4. FadesBut(s, <<"open", s>>)
  BY <1>1 DEF FadesBut, WorksFor, ExchangesFor, HandedFor
<1>5. Holders(s)' = {<<"open", s>>}  BY <1>3, <1>4, NewHolder, NextHolders
<1>6. OneHolder(s)'  BY <1>3, <1>5 DEF OneHolder
<1>7. PhaseOf(s) = "unused"  BY <1>1 DEF PhaseOf
<1>8. PhaseOf(s)' = "open"
  <2>1. Cardinality(Holders(s)') = 1  BY <1>5, FS_Singleton
  <2>2. Cardinality(Holders(s))' = 1  BY <2>1
  <2>3. (CHOOSE z \in Holders(s)' : TRUE) = <<"open", s>>  BY <1>5
  <2> QED BY <1>3, <1>5, <2>2, <2>3 DEF PhaseOf
<1>9. FlowStep(s)  BY <1>7, <1>8 DEF FlowStep, Flow!Follows
<1> QED BY <1>2, <1>6, <1>9, OthersFlow

\* A callback takes its start from the state key to a request.
LEMMA CallbackFlow ==
  ASSUME IInv, OneHolderEach, NEW r \in Req, NEW b \in Browser, NEW c \in codes,
         CallbackConsume(r, b, c)
  PROVE  FlowSteps
<1>1. PICK s \in Start : s = cookie[b]  BY DEF CallbackConsume
<1>2. /\ stateKey[s] = "live" /\ stateKey' = [stateKey EXCEPT ![s] = "gone"]
      /\ UNCHANGED <<handoff, creds>> /\ stateKey \in [Start -> {"absent", "live", "gone"}]
  BY <1>1 DEF CallbackConsume, TakeState, logins, IInv, TypeOK
<1>3. /\ \A q \in Req \ {r} : req'[q] = req[q]
      /\ req'[r].st = s /\ req'[r].pc = "exchange_code"
  BY <1>1 DEF CallbackConsume, IInv, TypeOK
<1>4. \A t \in Start \ {s} : Fades(t) /\ stateKey'[t] = stateKey[t]
  BY <1>2, <1>3 DEF Fades, WorksFor, ExchangesFor, HandedFor
<1>5. OneHolder(s) /\ <<"open", s>> \in Holders(s) /\ stateKey'[s] = "gone"
  BY <1>2, HoldersAre DEF OneHolderEach
<1>6. WorksFor(r, s)' /\ ~ExchangesFor(r, s)'
  BY <1>3 DEF WorksFor, ExchangesFor, Working, Exchanging
<1>7. <<"working", r>> \in Holders(s)'  BY <1>6, NextHolders
<1>8. FadesBut(s, <<"working", r>>)
  <2>1. \A q \in Req \ {r} : /\ WorksFor(q, s)' => WorksFor(q, s)
                             /\ ExchangesFor(q, s)' => ExchangesFor(q, s)
    BY <1>3 DEF WorksFor, ExchangesFor
  <2>2. \A h \in Handoff : HandedFor(h, s)' => HandedFor(h, s)  BY <1>2 DEF HandedFor
  <2> QED BY <1>2, <1>5, <1>6, <2>1, <2>2 DEF FadesBut
<1>9. <<"open", s>> \notin Holders(s)'  BY <1>5, NextHolders
<1>10. <<"working", r>>[1] \in Flow!Follows(<<"open", s>>[1])  BY DEF Flow!Follows
<1>11. OneHolder(s)' /\ FlowStep(s)
  BY <1>5, <1>7, <1>8, <1>9, <1>10, HandOverFlow
<1> QED BY <1>4, <1>11, OthersFlow

\* An exchange takes its start from the hand-off code to a request.
LEMMA ExchangeFlow ==
  ASSUME IInv, OneHolderEach, NEW r \in Req, NEW h \in Handoff, ExchangeConsume(r, h)
  PROVE  FlowSteps
<1>1. /\ handoff[h] \in Given /\ handoff[h] # NoHandoff /\ handoff[h].status = "live"
      /\ handoff' = [handoff EXCEPT ![h] = [handoff[h] EXCEPT !.status = "gone"]]
      /\ UNCHANGED <<stateKey, creds>>
  BY DEF ExchangeConsume, TakeHandoff, logins, IInv, TypeOK
<1>2. PICK s \in Start : s = handoff[h].st  BY <1>1 DEF Given
<1>3. /\ \A q \in Req \ {r} : req'[q] = req[q]
      /\ req'[r].st = s /\ req'[r].pc = "ex_user"
  BY <1>2 DEF ExchangeConsume, IInv, TypeOK
<1>4. \A k \in Handoff \ {h} : handoff'[k] = handoff[k]  BY <1>1 DEF IInv, TypeOK
<1>5. handoff'[h].status = "gone"  BY <1>1 DEF IInv, TypeOK, Given
<1>6. \A t \in Start, k \in Handoff : HandedFor(k, t)' => HandedFor(k, t) /\ k # h
  BY <1>4, <1>5 DEF HandedFor
<1>7. \A t \in Start \ {s} : Fades(t) /\ stateKey'[t] = stateKey[t]
  BY <1>1, <1>3, <1>6 DEF Fades, WorksFor, ExchangesFor
<1>8. OneHolder(s) /\ <<"handed", h>> \in Holders(s) /\ stateKey'[s] # "absent"
  <2>1. HandedFor(h, s)  BY <1>1, <1>2 DEF HandedFor
  <2>2. OneHolder(s) /\ <<"handed", h>> \in Holders(s)  BY <2>1, HoldersAre DEF OneHolderEach
  <2> QED BY <1>1, <2>2 DEF OneHolder
<1>9. ExchangesFor(r, s)' /\ ~WorksFor(r, s)'
  BY <1>3 DEF WorksFor, ExchangesFor, Working, Exchanging
<1>10. <<"exchanging", r>> \in Holders(s)'  BY <1>9, NextHolders
<1>11. FadesBut(s, <<"exchanging", r>>)
  <2>1. \A q \in Req \ {r} : /\ WorksFor(q, s)' => WorksFor(q, s)
                             /\ ExchangesFor(q, s)' => ExchangesFor(q, s)
    BY <1>3 DEF WorksFor, ExchangesFor
  <2> QED BY <1>1, <1>6, <1>9, <2>1 DEF FadesBut
<1>12. <<"handed", h>> \notin Holders(s)'  BY <1>6, NextHolders
<1>13. <<"exchanging", r>>[1] \in Flow!Follows(<<"handed", h>>[1])  BY DEF Flow!Follows
<1>14. OneHolder(s)' /\ FlowStep(s)
  BY <1>8, <1>10, <1>11, <1>12, <1>13, HandOverFlow
<1> QED BY <1>7, <1>14, OthersFlow

\* The callback's hand-off.
LEMMA HandOffFlow ==
  ASSUME IInv, OneHolderEach, NEW r \in Req, NEW h \in Handoff, HandOff(r, h)
  PROVE  FlowSteps
<1>1. TypeOK /\ req[r] \in Job /\ JobOK(req[r]) /\ req[r].pc = "login"
  BY DEF IInv, JobsOK, TypeOK, HandOff, AtPC
<1>2. PICK s \in Start : s = req[r].st  BY <1>1 DEF JobOK
<1>3. /\ handoff[h] = NoHandoff
      /\ handoff' = [handoff EXCEPT ![h] = [status |-> "live", st |-> s, sub |-> req[r].sub,
                       user |-> req[r].user]]
      /\ UNCHANGED <<stateKey, creds>> /\ Return(r)
  BY <1>2 DEF HandOff, PutHandoff, Redirect, logins
<1>4. (\A q \in Req \ {r} : req'[q] = req[q]) /\ req'[r].pc = "idle"
  BY <1>1, <1>3, MoveTypes DEF Idle
<1>5. /\ \A k \in Handoff \ {h} : handoff'[k] = handoff[k]
      /\ handoff'[h].status = "live" /\ handoff'[h].st = s /\ handoff'[h] # NoHandoff
  BY <1>1, <1>3 DEF TypeOK, NoHandoff
<1>6. \A t \in Start, q \in Req : /\ WorksFor(q, t)' => WorksFor(q, t) /\ q # r
                                  /\ ExchangesFor(q, t)' => ExchangesFor(q, t)
  BY <1>4 DEF WorksFor, ExchangesFor, Working, Exchanging
<1>7. \A t \in Start \ {s} : Fades(t) /\ stateKey'[t] = stateKey[t]
  BY <1>3, <1>5, <1>6 DEF Fades, HandedFor
<1>8. OneHolder(s) /\ <<"working", r>> \in Holders(s) /\ stateKey'[s] # "absent"
  <2>1. WorksFor(r, s)  BY <1>1, <1>2 DEF WorksFor, Working
  <2>2. OneHolder(s) /\ <<"working", r>> \in Holders(s)  BY <2>1, HoldersAre DEF OneHolderEach
  <2> QED BY <1>3, <2>2 DEF OneHolder
<1>9. HandedFor(h, s)'  BY <1>5 DEF HandedFor
<1>10. <<"handed", h>> \in Holders(s)'  BY <1>9, NextHolders
<1>11. FadesBut(s, <<"handed", h>>)
  <2>1. \A k \in Handoff \ {h} : HandedFor(k, s)' => HandedFor(k, s)
    BY <1>5 DEF HandedFor
  <2> QED BY <1>3, <1>6, <2>1 DEF FadesBut
<1>12. <<"working", r>> \notin Holders(s)'  BY <1>6, NextHolders
<1>13. <<"handed", h>>[1] \in Flow!Follows(<<"working", r>>[1])  BY DEF Flow!Follows
<1>14. OneHolder(s)' /\ FlowStep(s)
  BY <1>8, <1>10, <1>11, <1>12, <1>13, HandOverFlow
<1> QED BY <1>7, <1>14, OthersFlow

\* The login of the strategy turns the request into the credential, whether
\* or not it is told so.
LEMMA CredentialFlow ==
  ASSUME IInv, OneHolderEach, NEW r \in Req, StoreCredential(r) \/ StoreUnanswered(r)
  PROVE  FlowSteps
<1>1. /\ TypeOK /\ req[r] \in Job /\ JobOK(req[r])
      /\ req[r].pc = "login" \/ req[r].pc = "ex_login"
  BY DEF IInv, JobsOK, TypeOK, StoreCredential, StoreUnanswered, AtStore, AtPC
<1>2. PICK s \in Start : s = req[r].st  BY <1>1 DEF JobOK
<1>3. PICK c : c = CredOf(req[r])  OBVIOUS
<1>4. /\ creds' = creds \cup {c} /\ c.st = s
      /\ Goto(r, "record") \/ Return(r)
      /\ UNCHANGED <<stateKey, handoff>>
  BY <1>2, <1>3 DEF StoreCredential, StoreUnanswered, Unavailable, CredOf
<1>5. (\A q \in Req \ {r} : req'[q] = req[q]) /\ req'[r].pc \in {"record", "idle"}
  <2>1. /\ \A q \in Req \ {r} : req'[q] = req[q]
        /\ req'[r] = [req[r] EXCEPT !.pc = "record"] \/ req'[r] = Idle
    BY <1>1, <1>4, MoveTypes DEF PC
  <2> QED BY <1>1, <2>1 DEF Job, Idle
<1>6. \A t \in Start, q \in Req : /\ WorksFor(q, t)' => WorksFor(q, t) /\ q # r
                                  /\ ExchangesFor(q, t)' => ExchangesFor(q, t) /\ q # r
  BY <1>5 DEF WorksFor, ExchangesFor, Working, Exchanging
<1>7. \A t \in Start, h \in Handoff : HandedFor(h, t)' => HandedFor(h, t)
  BY <1>4 DEF HandedFor
<1>8. \A t \in Start \ {s} : Fades(t) /\ stateKey'[t] = stateKey[t]
  BY <1>4, <1>6, <1>7 DEF Fades
<1>9. <<"granted", c>> \in Holders(s)'  BY <1>4, NextHolders
<1>10. FadesBut(s, <<"granted", c>>)  BY <1>4, <1>6, <1>7 DEF FadesBut
<1>11. ASSUME NEW x \in Holders(s), x = <<"working", r>> \/ x = <<"exchanging", r>>
       PROVE  OneHolder(s)' /\ FlowStep(s)
  <2>1. OneHolder(s) /\ stateKey'[s] # "absent"  BY <1>4 DEF OneHolderEach, OneHolder
  <2>2. x \notin Holders(s)'
    <3>1. ~WorksFor(r, s)' /\ ~ExchangesFor(r, s)'  BY <1>6
    <3>2. <<"working", r>> \notin Holders(s)'  BY <3>1, NextHolders
    <3>3. <<"exchanging", r>> \notin Holders(s)'  BY <3>1, NextHolders
    <3>4. CASE x = <<"working", r>>  BY <3>2, <3>4
    <3>5. CASE x = <<"exchanging", r>>  BY <3>3, <3>5
    <3> QED BY <1>11, <3>4, <3>5
  <2>3. <<"granted", c>>[1] \in Flow!Follows(x[1])  BY <1>11 DEF Flow!Follows
  <2> QED BY <1>9, <1>10, <2>1, <2>2, <2>3, HandOverFlow
<1>12. \E x \in Holders(s) : x = <<"working", r>> \/ x = <<"exchanging", r>>
  <2>1. WorksFor(r, s) \/ ExchangesFor(r, s)
    BY <1>1, <1>2 DEF WorksFor, ExchangesFor, Working, Exchanging
  <2> QED BY <2>1, HoldersAre
<1> QED BY <1>8, <1>11, <1>12, OthersFlow

\* Every step follows the flow at every start.
LEMMA NextFlow ==
  ASSUME IInv, OneHolderEach, [Next]_vars
  PROVE  FlowSteps
<1>1. ASSUME \A s \in Start : /\ Fades(s)
                              /\ (stateKey'[s] = "absent") <=> (stateKey[s] = "absent")
      PROVE  FlowSteps
  BY <1>1, FadeFlow DEF FlowSteps, OneHolderEach
<1>2. TypeOK  BY DEF IInv
<1>3. ASSUME NEW r \in Req, RequestStep(r) PROVE FlowSteps
  BY <1>1, <1>3, RequestFades, CredentialFlow, HandOffFlow
<1> DEFINE Quiet ==
      /\ UNCHANGED <<handoff, req>>
      /\ creds' \subseteq creds
      /\ \A s \in Start : (stateKey'[s] = stateKey[s] \/ (stateKey[s] = "live" /\ stateKey'[s] = "gone"))
<1>4. ASSUME Quiet PROVE FlowSteps
  <2>1. ASSUME NEW s \in Start
        PROVE  Fades(s) /\ ((stateKey'[s] = "absent") <=> (stateKey[s] = "absent"))
    BY <1>4 DEF Fades, WorksFor, ExchangesFor, HandedFor
  <2> QED BY <1>1, <2>1
<1>5. ASSUME NEW b \in Browser, NEW s \in Start, CallbackInvalidState(b, s) PROVE FlowSteps
  <2>1. Quiet  BY <1>5 DEF CallbackInvalidState, logins
  <2> QED BY <1>4, <2>1
<1>6. ASSUME NEW b \in Browser, CallbackWithoutCode(b) \/ CallbackStateLost(b) PROVE FlowSteps
  <2>1. Quiet
    BY <1>2, <1>6 DEF CallbackWithoutCode, CallbackStateLost, TakeState, logins, TypeOK
  <2> QED BY <1>4, <2>1
<1>7. ASSUME NEW s \in Start, StateExpires(s) PROVE FlowSteps
  <2>1. Quiet  BY <1>2, <1>7 DEF StateExpires, TakeState, logins, TypeOK
  <2> QED BY <1>4, <2>1
<1>8. ASSUME NEW h \in Handoff, HandoffExpires(h) PROVE FlowSteps
  <2>1. /\ handoff' = [handoff EXCEPT ![h] = [handoff[h] EXCEPT !.status = "gone"]]
        /\ handoff[h] \in Given /\ UNCHANGED <<stateKey, req, creds>>
    BY <1>2, <1>8 DEF HandoffExpires, TakeHandoff, logins, TypeOK
  <2>2. handoff'[h].status = "gone" /\ \A k \in Handoff \ {h} : handoff'[k] = handoff[k]
    BY <1>2, <2>1 DEF TypeOK, Given
  <2>3. \A s \in Start, k \in Handoff : HandedFor(k, s)' => HandedFor(k, s)
    BY <2>2 DEF HandedFor
  <2> QED BY <1>1, <2>1, <2>3 DEF Fades, WorksFor, ExchangesFor
<1>9. CASE \/ \E s \in Start, g \in Sub : Consent(s, g)
           \/ \E u \in User, e \in Email : Register(u, e)
           \/ \E u \in User : Deactivate(u)
           \/ UNCHANGED vars
  <2>1. Quiet  BY <1>9 DEF Consent, Register, Deactivate, vars, logins
  <2> QED BY <1>4, <2>1
<1> QED
  BY <1>3, <1>5, <1>6, <1>7, <1>8, <1>9, StartFlow, CallbackFlow, ExchangeFlow DEF Next

\* Each start has one holder at most.
LEMMA InitHolders == Init => OneHolderEach
<1> SUFFICES ASSUME Init, NEW s \in Start PROVE OneHolder(s)
  BY DEF OneHolderEach
<1>1. Holders(s) = {}
  BY HoldersAre DEF Init, Idle, Working, Exchanging, WorksFor, ExchangesFor, HandedFor
<1> QED BY <1>1 DEF OneHolder

\* One press of the button is answered once: however callbacks, exchanges,
\* expiries and deactivations interleave, a start becomes at most one hand-off
\* code and at most one credential.
THEOREM Refinement == Spec => ImplementsFlow
<1>1. Init => Flow!Init
  <2> SUFFICES ASSUME Init PROVE Flow!Init
    OBVIOUS
  <2>1. \A s \in Start : PhaseOf(s) = "unused"  BY DEF Init, PhaseOf
  <2> QED BY <2>1 DEF Flow!Init
<1>2. IInv /\ OneHolderEach /\ [Next]_vars => OneHolderEach' /\ [Flow!Next]_([s \in Start |-> PhaseOf(s)])
  <2> SUFFICES ASSUME IInv, OneHolderEach, [Next]_vars
               PROVE  OneHolderEach' /\ Flow!Next
    OBVIOUS
  <2>1. FlowSteps  BY NextFlow
  <2>2. OneHolderEach'  BY <2>1 DEF FlowSteps, OneHolderEach
  <2>3. Flow!Next  BY <2>1 DEF FlowSteps, FlowStep, Flow!Next
  <2> QED BY <2>2, <2>3
<1> QED BY <1>1, <1>2, InitHolders, Invariance, PTL DEF Spec, ImplementsFlow, Flow!Spec
-----------------------------------------------------------------------------
(***************************************************************************)
(* Password: for every limit and every number of concurrent logins the     *)
(* counter's overshoot is bounded, it never stays without a TTL unless the *)
(* call setting it was lost, and answers agree with what the logins left.  *)
(***************************************************************************)

USE SlotAssumption, MaxAssumption

\* The number of logins that may still count a failure is a natural number,
\* no larger than the number of slots.
LEMMA PendingCount ==
  ASSUME NEW S \in SUBSET Slot
  PROVE  /\ IsFiniteSet(S) /\ Cardinality(S) \in Nat /\ Cardinality(Slot) \in Nat
         /\ Cardinality(S) <= Cardinality(Slot)
BY FS_Subset, FS_CardinalityType

\* With no login in flight and no counter the invariant holds.
LEMMA InitLogin == LoginInit => LoginIInv
<1> SUFFICES ASSUME LoginInit PROVE LoginIInv
  OBVIOUS
<1>1. Pending = {}  BY DEF LoginInit, Pending
<1>2. RoomForPending
  BY <1>1, FS_EmptySet, FS_CardinalityType DEF RoomForPending, LoginInit
<1> QED
  BY <1>2 DEF LoginInit, LoginIInv, LoginTypeOK, TimedOrOwed, Progress, AnswerAgrees, LoginPC, Answer

\* The part of the invariant about the counter and the order of steps.
Shape == LoginTypeOK /\ TimedOrOwed /\ Progress /\ AnswerAgrees

\* A step that lets no further login past the check and does not count.
LEMMA RoomKept ==
  ASSUME LoginTypeOK, RoomForPending, count' = count \/ count' = 0,
         \A q \in Slot : pc'[q] \in {"lookup", "incr"} => pc[q] \in {"lookup", "incr"}
  PROVE  RoomForPending'
<1>1. Pending' \subseteq Pending /\ Pending \subseteq Slot  BY DEF Pending
<1>2. /\ Cardinality(Pending') <= Cardinality(Pending)
      /\ Cardinality(Pending') \in Nat /\ Cardinality(Pending) \in Nat /\ Cardinality(Slot) \in Nat
  BY <1>1, PendingCount, FS_Subset, FS_CardinalityType
<1> QED BY <1>2 DEF RoomForPending, LoginTypeOK

\* A counted failure takes its login out of the pending ones.
LEMMA RoomCounted ==
  ASSUME LoginTypeOK, RoomForPending, NEW r \in Slot, pc[r] = "incr", count' = count + 1,
         NEW l \in LoginPC \ {"lookup", "incr"}, pc' = [pc EXCEPT ![r] = l]
  PROVE  RoomForPending'
<1>1. Pending' = Pending \ {r} /\ r \in Pending /\ Pending \subseteq Slot
  BY DEF Pending, LoginTypeOK
<1>2. /\ Cardinality(Pending') = Cardinality(Pending) - 1
      /\ Cardinality(Pending') \in Nat /\ Cardinality(Pending) \in Nat /\ Cardinality(Slot) \in Nat
  BY <1>1, PendingCount, FS_RemoveElement, FS_CardinalityType
<1> QED BY <1>2 DEF RoomForPending, LoginTypeOK

\* A login passes the check below the limit only.
LEMMA RoomStart ==
  ASSUME LoginTypeOK, NEW r \in Slot, StartLogin(r)
  PROVE  RoomForPending'
<1>1. Pending' \subseteq Slot /\ count' = count /\ count < Max  BY DEF Pending, StartLogin, keyVars
<1>2. /\ Cardinality(Pending') <= Cardinality(Slot)
      /\ Cardinality(Pending') \in Nat /\ Cardinality(Slot) \in Nat
  BY <1>1, PendingCount
<1> QED BY <1>1, <1>2 DEF RoomForPending, LoginTypeOK

\* Every step of a request keeps room for the pending ones.
LEMMA RoomStep ==
  ASSUME LoginTypeOK, RoomForPending, NEW r \in Slot, StartLogin(r) \/ Refuse(r) \/ Step(r)
  PROVE  RoomForPending'
<1> USE DEF Proceed, Reply, keyVars, LoginTypeOK
<1>1. CASE StartLogin(r)    BY <1>1, RoomStart
<1>2. CASE Incr(r)     BY <1>2, RoomCounted DEF Incr, LoginPC
<1>3. CASE IncrFails(r) /\ count' = count + 1
  BY <1>3, RoomCounted DEF IncrFails, LoginPC
<1>4. CASE IncrFails(r) /\ count' = count
  BY <1>4, RoomKept DEF IncrFails
<1>5. CASE Refuse(r)   BY <1>5, RoomKept DEF Refuse
<1>6. CASE Lookup(r)   BY <1>6, RoomKept DEF Lookup
<1>7. CASE Expire(r) \/ ExpireFails(r)  BY <1>7, RoomKept DEF Expire, ExpireFails
<1>8. CASE RecordFailure(r) \/ RecordFailureFails(r)
  BY <1>8, RoomKept DEF RecordFailure, RecordFailureFails
<1>9. CASE Reset(r) \/ Check(r)  BY <1>9, RoomKept DEF Reset, Check, NoKey
<1>10. CASE Store(r) \/ StoreLoginFails(r)  BY <1>10, RoomKept DEF Store, StoreLoginFails
<1>11. CASE RecordSuccess(r) \/ RecordSuccessFails(r)
  BY <1>11, RoomKept DEF RecordSuccess, RecordSuccessFails
<1>12. CASE Rollback(r) \/ RollbackFails(r)  BY <1>12, RoomKept DEF Rollback, RollbackFails
<1>13. CASE Dies(r)  BY <1>13, RoomKept DEF Dies
<1>14. IncrFails(r) => count' = count + 1 \/ count' = count  BY DEF IncrFails
<1> QED
  BY <1>1, <1>2, <1>3, <1>4, <1>5, <1>6, <1>7, <1>8, <1>9, <1>10, <1>11, <1>12, <1>13, <1>14
  DEF Step

\* Every step of a request keeps the types, the TTL owed to the counter, and
\* the agreement of answers with what was stored and recorded.
LEMMA ShapeStep ==
  ASSUME Shape, NEW r \in Slot, StartLogin(r) \/ Refuse(r) \/ Step(r)
  PROVE  Shape'
<1> USE DEF Shape, LoginTypeOK, TimedOrOwed, Progress, AnswerAgrees, Proceed, Reply, keyVars, LoginPC, Answer
<1>1. CASE StartLogin(r)    BY <1>1 DEF StartLogin
<1>2. CASE Refuse(r)   BY <1>2 DEF Refuse
<1>3. CASE Lookup(r)   BY <1>3 DEF Lookup
<1>4. CASE Incr(r)     BY <1>4 DEF Incr
<1>5. CASE IncrFails(r)  BY <1>5 DEF IncrFails
<1>6. CASE Expire(r)   BY <1>6 DEF Expire
<1>7. CASE ExpireFails(r)  BY <1>7 DEF ExpireFails, Disown
<1>8. CASE RecordFailure(r)  BY <1>8 DEF RecordFailure
<1>9. CASE RecordFailureFails(r)  BY <1>9 DEF RecordFailureFails
<1>10. CASE Reset(r)   BY <1>10 DEF Reset, NoKey
<1>11. CASE Check(r)   BY <1>11 DEF Check
<1>12. CASE Store(r)   BY <1>12 DEF Store
<1>13. CASE StoreLoginFails(r)  BY <1>13 DEF StoreLoginFails
<1>14. CASE RecordSuccess(r)  BY <1>14 DEF RecordSuccess
<1>15. CASE RecordSuccessFails(r)  BY <1>15 DEF RecordSuccessFails
<1>16. CASE Rollback(r)  BY <1>16 DEF Rollback
<1>17. CASE RollbackFails(r)  BY <1>17 DEF RollbackFails
<1>18. CASE Dies(r)    BY <1>18 DEF Dies, Disown
<1> QED
  BY <1>1, <1>2, <1>3, <1>4, <1>5, <1>6, <1>7, <1>8, <1>9, <1>10, <1>11, <1>12, <1>13, <1>14,
     <1>15, <1>16, <1>17, <1>18
  DEF Step

\* Every step preserves the inductive invariant.
LEMMA NextLogin == LoginIInv /\ [LoginNext]_loginVars => LoginIInv'
<1> SUFFICES ASSUME LoginIInv, [LoginNext]_loginVars PROVE LoginIInv'
  OBVIOUS
<1>1. Shape /\ LoginTypeOK /\ RoomForPending  BY DEF LoginIInv, Shape
<1>2. ASSUME NEW r \in Slot, StartLogin(r) \/ Refuse(r) \/ Step(r) PROVE LoginIInv'
  <2>1. Shape'  BY <1>1, <1>2, ShapeStep
  <2>2. RoomForPending'  BY <1>1, <1>2, RoomStep
  <2> QED BY <2>1, <2>2 DEF Shape, LoginIInv
<1>3. CASE KeyExpires
  <2>1. Shape'
    BY <1>1, <1>3 DEF Shape, LoginTypeOK, TimedOrOwed, Progress, AnswerAgrees, KeyExpires, NoKey
  <2>2. RoomForPending'  BY <1>1, <1>3, RoomKept DEF KeyExpires, NoKey
  <2> QED BY <2>1, <2>2 DEF Shape, LoginIInv
<1>4. CASE UNCHANGED loginVars
  <2>1. Shape'
    BY <1>1, <1>4 DEF Shape, LoginTypeOK, TimedOrOwed, Progress, AnswerAgrees, loginVars
  <2>2. RoomForPending'  BY <1>1, <1>4, RoomKept DEF loginVars
  <2> QED BY <2>1, <2>2 DEF Shape, LoginIInv
<1> QED BY <1>2, <1>3, <1>4 DEF LoginNext

\* The inductive invariant holds in every reachable state.
THEOREM LoginInvariance == LoginSpec => []LoginIInv
BY InitLogin, NextLogin, PTL DEF LoginSpec

\* The counter, the steps of the logins and their answers keep their types.
THEOREM LoginTypeCorrect == LoginSpec => []LoginTypeOK
<1>1. LoginIInv => LoginTypeOK  BY DEF LoginIInv
<1> QED BY <1>1, LoginInvariance, PTL

\* With n logins at a time the counter passes LOGIN_MAX_ATTEMPTS by n - 1 at
\* most, although the check and the INCR are separate calls.
THEOREM Overshoot == LoginSpec => []OvershootBounded
<1>1. LoginIInv => OvershootBounded
  <2> SUFFICES ASSUME LoginIInv PROVE OvershootBounded
    OBVIOUS
  <2>1. Cardinality(Pending) \in Nat /\ Cardinality(Slot) \in Nat
    BY PendingCount DEF Pending
  <2> QED BY <2>1 DEF LoginIInv, RoomForPending, OvershootBounded, LoginTypeOK
<1> QED BY <1>1, LoginInvariance, PTL

\* A counter without a TTL is about to get it, or the EXPIRE was lost.
THEOREM CounterEnds == LoginSpec => []TimedOrOwed
<1>1. LoginIInv => TimedOrOwed  BY DEF LoginIInv
<1> QED BY <1>1, LoginInvariance, PTL

\* Answers agree with the history rows and the stored credentials.
THEOREM Agreement == LoginSpec => []AnswerAgrees
<1>1. LoginIInv => AnswerAgrees  BY DEF LoginIInv
<1> QED BY <1>1, LoginInvariance, PTL
=============================================================================
