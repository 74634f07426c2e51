------------------------- MODULE RefreshTokensProofs -------------------------
(***************************************************************************)
(* For every number of tokens, families, users, requests and every TTL:    *)
(* one stored token per family, no token issued in a revoked family, and   *)
(* the Redis operations implement TokenFamilies.                           *)
(*                                                                         *)
(* The argument turns on MarkerOutlives.  A marker is written with the     *)
(* lifetime of a token, so it ends no earlier than any token already       *)
(* stored; and while it exists no token is added.  Hence a family whose    *)
(* marker was ever written has no usable token, after the marker's expiry  *)
(* included, although no step looks at whether a marker was written.       *)
(***************************************************************************)
EXTENDS RefreshTokens, TLAPS

\* Everything a step can do except the two steps that store a token.
Quiet ==
  \/ \E r \in Req, t \in Token :
       RefuseRevoked(r, t) \/ DetectReuse(r, t) \/ FamilyGet(r, t) \/ LogoutGet(r, t)
  \/ \E r \in Req : \/ LoginRecorded(r) \/ RollbackLogin(r)
                    \/ FamilyMembers(r) \/ FamilyExec(r)
                    \/ LogoutRevoke(r) \/ RevokeAllExec(r) \/ RedisFails(r)
  \/ \E r \in Req, u \in User : RevokeAllMembers(r, u)
  \/ Tick

\* What such a step does to tokens and markers: tokens keep their expiry or
\* lose the key, markers keep theirs or get a full TTL.
QuietEffect ==
  /\ fam' = fam
  /\ now' \in Nat /\ now <= now'
  /\ usedExp' = usedExp
  /\ exp' \in [Token -> Nat]
  /\ revExp' \in [Family -> Nat]
  /\ \A t \in Token : exp'[t] = exp[t] \/ exp'[t] = 0
  /\ \A f \in Family : revExp'[f] = revExp[f] \/ (revExp'[f] = now + TTL /\ now' = now)

\* The initial state satisfies the inductive invariant.
LEMMA InitIInv == Init => IInv
  BY NoFamilyAssumption, TTLAssumption
  DEF Init, IInv, TypeOK, UnissuedIsAbsent, ExpiryBounded, OneLivePerFamily,
      MarkedWasOpened, MarkerOutlives, Live, Fresh, Job, Idle, PC

\* A request that has ended is still a job.
LEMMA IdleIsJob == Idle \in Job
  BY DEF Idle, Job, PC

\* A stored token belongs to a family.
LEMMA LiveHasFamily ==
  ASSUME IInv, NEW t \in Token
  PROVE  (Live(t) \/ Used(t)) => fam[t] \in Family
  BY DEF IInv, TypeOK, UnissuedIsAbsent, Live, Used, Fresh

\* Steps that store no token only shorten lives and set markers.
LEMMA QuietSteps ==
  ASSUME IInv, Quiet
  PROVE  QuietEffect
<1> USE DEF IInv, TypeOK, QuietEffect, keys
<1> USE TTLAssumption, MaxTimeAssumption
<1>1. CASE \E r \in Req, t \in Token : RefuseRevoked(r, t) \/ FamilyGet(r, t) \/ LogoutGet(r, t)
  BY <1>1 DEF RefuseRevoked, FamilyGet, LogoutGet
<1>2. CASE \E r \in Req, t \in Token : DetectReuse(r, t)
  <2>1. PICK r \in Req, t \in Token : DetectReuse(r, t)  BY <1>2
  <2>2. fam[t] \in Family  BY <2>1, LiveHasFamily DEF DetectReuse
  <2> QED BY <2>1, <2>2 DEF DetectReuse
<1>3. CASE \E r \in Req : LoginRecorded(r) \/ FamilyMembers(r) \/ RedisFails(r)
  BY <1>3 DEF LoginRecorded, FamilyMembers, RedisFails
<1>4. CASE \E r \in Req : RollbackLogin(r) \/ LogoutRevoke(r)
  <2>1. PICK t \in Token : RevokeRefreshToken(t) /\ now' = now
    BY <1>4 DEF RollbackLogin, LogoutRevoke
  <2> QED BY <2>1 DEF RevokeRefreshToken
<1>5. CASE \E r \in Req : FamilyExec(r)
  <2>1. PICK r \in Req : FamilyExec(r)  BY <1>5
  <2> QED BY <2>1 DEF FamilyExec
<1>6. CASE \E r \in Req : RevokeAllExec(r)
  <2>1. PICK r \in Req : RevokeAllExec(r)  BY <1>6
  <2> QED BY <2>1 DEF RevokeAllExec
<1>7. CASE \E r \in Req, u \in User : RevokeAllMembers(r, u)
  BY <1>7 DEF RevokeAllMembers
<1>8. CASE Tick  BY <1>8 DEF Tick
<1> QED BY <1>1, <1>2, <1>3, <1>4, <1>5, <1>6, <1>7, <1>8 DEF Quiet

\* The parts of the inductive invariant that speak of tokens and markers.
TokenInv == UnissuedIsAbsent /\ ExpiryBounded /\ OneLivePerFamily /\ MarkerOutlives

\* A quiet step keeps them: a new marker ends at now + TTL, and no token does
\* later (ExpiryBounded).
LEMMA QuietTokenInv ==
  ASSUME IInv, QuietEffect
  PROVE  TokenInv'
<1> USE DEF IInv, TypeOK, QuietEffect, Fresh, Live
<1> USE TTLAssumption
<1>1. UnissuedIsAbsent'  BY DEF UnissuedIsAbsent
<1>2. ExpiryBounded'     BY DEF ExpiryBounded
<1>3. OneLivePerFamily'  BY DEF OneLivePerFamily
<1>4. MarkerOutlives'
  <2> SUFFICES ASSUME NEW t \in Token, Live(t)', revExp'[fam'[t]] # 0
               PROVE  exp'[t] <= revExp'[fam'[t]]
    BY DEF MarkerOutlives
  <2>1. exp'[t] = exp[t] /\ Live(t)  OBVIOUS
  <2>2. fam[t] \in Family            BY <2>1, LiveHasFamily
  <2> QED BY <2>1, <2>2 DEF MarkerOutlives, ExpiryBounded
<1> QED BY <1>1, <1>2, <1>3, <1>4 DEF TokenInv

\* A login stores its token in a family that has none.
LEMMA LoginTokenInv ==
  ASSUME IInv, NEW r \in Req, NEW f \in Family, NEW t \in Token, Login(r, f, t)
  PROVE  TokenInv' /\ revExp[f] = 0
<1> USE DEF IInv, TypeOK, Login, Fresh, Live
<1> USE TTLAssumption, NoFamilyAssumption
<1>1. UnissuedIsAbsent'  BY DEF UnissuedIsAbsent
<1>2. ExpiryBounded'     BY DEF ExpiryBounded
<1>3. OneLivePerFamily'  BY DEF OneLivePerFamily
<1>4. MarkerOutlives'    BY DEF MarkerOutlives, MarkedWasOpened, Opened
<1>5. revExp[f] = 0      BY DEF MarkedWasOpened, Opened
<1> QED BY <1>1, <1>2, <1>3, <1>4, <1>5 DEF TokenInv

\* A rotation: the family of a usable token never had a marker.
LEMMA RotateTokenInv ==
  ASSUME IInv, NEW t \in Token, NEW n \in Token, Rotate(t, n)
  PROVE  TokenInv' /\ fam[t] \in Family /\ revExp[fam[t]] = 0 /\ t # n
<1> USE DEF IInv, TypeOK, Fresh, Live
<1> USE TTLAssumption, NoFamilyAssumption
<1>1. fam[t] \in Family /\ t # n
  BY LiveHasFamily DEF Rotate
<1>2. revExp[fam[t]] = 0
  BY <1>1 DEF Rotate, MarkerOutlives, Revoked
<1>3. UnissuedIsAbsent'  BY <1>1 DEF UnissuedIsAbsent, Rotate
<1>4. ExpiryBounded'     BY <1>1 DEF ExpiryBounded, Rotate
<1>5. OneLivePerFamily'  BY <1>1 DEF OneLivePerFamily, Rotate
<1>6. MarkerOutlives'
  <2> SUFFICES ASSUME NEW u \in Token, Live(u)', revExp'[fam'[u]] # 0
               PROVE  exp'[u] <= revExp'[fam'[u]]
    BY DEF MarkerOutlives
  <2>1. u # n /\ fam'[u] = fam[u] /\ exp'[u] = exp[u] /\ revExp' = revExp /\ now' = now
    BY <1>1, <1>2 DEF Rotate
  <2> QED BY <2>1 DEF MarkerOutlives
<1> QED BY <1>1, <1>2, <1>3, <1>4, <1>5, <1>6 DEF TokenInv

\* The rest of the type invariant and MarkedWasOpened, one action at a time.
LEMMA NextTypeOK ==
  ASSUME IInv, Next
  PROVE  TypeOK'
<1> USE DEF IInv, TypeOK, keys, ghosts, Goto, Finish
<1> USE TTLAssumption, NoFamilyAssumption, NoTokenAssumption, OwnerAssumption, MaxTimeAssumption
<1>a. \A u \in User : Members(u) \subseteq Token  BY DEF Members
<1>b. \A l \in PC, t \in Token : OnToken(l, t) \in Job  BY DEF OnToken, Job
<1>c. \A l \in PC, f \in Family, S, T \in SUBSET Token : OnFamily(l, f, S, T) \in Job
  BY DEF OnFamily, Job
<1>d. \A u \in User, S \in SUBSET Token : OnUser(u, S) \in Job  BY DEF OnUser, Job, PC
<1>e. \A r \in Req : /\ job[r].tok \in Token \cup {NoToken} /\ job[r].todo \in SUBSET Token
                    /\ job[r].hits \in SUBSET Token /\ job[r].users \in SUBSET User
  BY DEF Job
<1>1. CASE \E r \in Req, f \in Family, t \in Token : Login(r, f, t)
  <2>1. PICK r \in Req, f \in Family, t \in Token : Login(r, f, t)  BY <1>1
  <2>2. job' \in [Req -> Job]  BY <2>1, <1>b DEF Login, PC
  <2>3. raced' \subseteq Family  BY <2>1 DEF Login, NoteRace
  <2>4. index' \in [User -> SUBSET Token] /\ indexExp' \in [User -> Nat]
    BY <2>1, <1>a DEF Login, AddMember
  <2>5. \A q \in Req : job'[q] = IF q = r THEN OnToken("recording", t) ELSE job[q]
    BY <2>1 DEF Login
  <2> QED BY <2>1, <2>2, <2>3, <2>4, <2>5 DEF Login, OnToken, Fresh
<1>2. CASE \E t, n \in Token : Rotate(t, n)
  <2>1. PICK t \in Token, n \in Token : Rotate(t, n)  BY <1>2
  <2>2. fam[t] \in Family  BY <2>1, RotateTokenInv
  <2>3. raced' \subseteq Family  BY <2>1, <2>2 DEF Rotate, NoteRace
  <2>4. index' \in [User -> SUBSET Token] /\ indexExp' \in [User -> Nat]
    BY <2>1, <2>2, <1>a DEF Rotate, AddMember
  <2> QED BY <2>1, <2>2, <2>3, <2>4 DEF Rotate, Fresh
<1>3. CASE Quiet
  <2>0. QuietEffect  BY <1>3, QuietSteps
  <2> SUFFICES /\ index' \in [User -> SUBSET Token]
               /\ indexExp' \in [User -> Nat]
               /\ job' \in [Req -> Job]
               /\ \A r \in Req :
                    /\ job'[r].pc \in {"members", "scan"} => job'[r].fam \in Family
                    /\ job'[r].pc \in {"recording", "logout"} =>
                         job'[r].tok \in Token /\ fam[job'[r].tok] \in Family
               /\ raced' \subseteq Family
               /\ ended' \subseteq Family
    BY <2>0 DEF QuietEffect
  <2>1. CASE \E r \in Req, t \in Token : RefuseRevoked(r, t) \/ DetectReuse(r, t)
    <3>1. PICK r \in Req, t \in Token : RefuseRevoked(r, t) \/ DetectReuse(r, t)  BY <2>1
    <3>2. fam[t] \in Family  BY <3>1, LiveHasFamily DEF RefuseRevoked, DetectReuse
    <3>3. OnFamily("members", fam[t], {}, {}) \in Job  BY <3>2, <1>c DEF PC
    <3>4. job' = [job EXCEPT ![r] = OnFamily("members", fam[t], {}, {})]
      BY <3>1 DEF RefuseRevoked, DetectReuse
    <3> QED BY <3>1, <3>2, <3>3, <3>4 DEF RefuseRevoked, DetectReuse, OnFamily
  <2>2. CASE \E r \in Req, t \in Token : LogoutGet(r, t)
    <3>1. PICK r \in Req, t \in Token : LogoutGet(r, t)  BY <2>2
    <3>2. fam[t] \in Family  BY <3>1, LiveHasFamily DEF LogoutGet
    <3> QED BY <3>1, <3>2, <1>b DEF LogoutGet, OnToken, PC
  <2>3. CASE \E r \in Req, t \in Token : FamilyGet(r, t)
    <3>1. PICK r \in Req, t \in Token : FamilyGet(r, t)  BY <2>3
    <3>2. PICK S \in SUBSET Token, T \in SUBSET Token :
            job' = [job EXCEPT ![r] = OnFamily("scan", job[r].fam, S, T)]
      BY <3>1, <1>e DEF FamilyGet
    <3>3. job[r].fam \in Family  BY <3>1 DEF FamilyGet
    <3>4. job' \in [Req -> Job]  BY <3>2, <3>3, <1>c DEF PC
    <3>5. \A q \in Req : job'[q] = IF q = r THEN OnFamily("scan", job[r].fam, S, T) ELSE job[q]
      BY <3>2
    <3>6. UNCHANGED <<index, indexExp, raced, ended>>  BY <3>1 DEF FamilyGet
    <3> QED BY <3>3, <3>4, <3>5, <3>6 DEF OnFamily
  <2>4. CASE \E r \in Req : FamilyMembers(r)
    <3>1. PICK r \in Req : FamilyMembers(r)  BY <2>4
    <3>2. job[r].fam \in Family  BY <3>1 DEF FamilyMembers
    <3>3. PICK S \in SUBSET Token : job' = [job EXCEPT ![r] = OnFamily("scan", job[r].fam, S, {})]
      BY <3>1, <3>2, <1>a DEF FamilyMembers
    <3>4. job' \in [Req -> Job]  BY <3>2, <3>3, <1>c DEF PC
    <3>5. \A q \in Req : job'[q] = IF q = r THEN OnFamily("scan", job[r].fam, S, {}) ELSE job[q]
      BY <3>3
    <3>6. UNCHANGED <<index, indexExp, raced, ended>>  BY <3>1 DEF FamilyMembers
    <3> QED BY <3>2, <3>4, <3>5, <3>6 DEF OnFamily
  <2>5. CASE \E r \in Req : LoginRecorded(r) \/ RedisFails(r)
    <3>1. PICK r \in Req : LoginRecorded(r) \/ RedisFails(r)  BY <2>5
    <3>2. job' = [job EXCEPT ![r] = Idle]  BY <3>1 DEF LoginRecorded, RedisFails
    <3>3. job' \in [Req -> Job]  BY <3>2, IdleIsJob
    <3>4. UNCHANGED <<index, indexExp, raced, ended>>  BY <3>1 DEF LoginRecorded, RedisFails
    <3> QED BY <3>2, <3>3, <3>4 DEF Idle
  <2>6. CASE \E r \in Req : RollbackLogin(r) \/ LogoutRevoke(r)
    <3>1. PICK r \in Req : RollbackLogin(r) \/ LogoutRevoke(r)  BY <2>6
    <3>2. RevokeRefreshToken(job[r].tok) /\ job' = [job EXCEPT ![r] = Idle] /\ ghosts' = ghosts
      BY <3>1 DEF RollbackLogin, LogoutRevoke
    <3>3. job' \in [Req -> Job]  BY <3>2, IdleIsJob
    <3>4. index' \in [User -> SUBSET Token] /\ indexExp' = indexExp
      BY <3>2 DEF RevokeRefreshToken
    <3> QED BY <3>2, <3>3, <3>4 DEF Idle
  <2>7. CASE \E r \in Req : FamilyExec(r)
    <3>1. PICK r \in Req : FamilyExec(r)  BY <2>7
    <3>3. job' \in [Req -> Job]  BY <3>1, IdleIsJob DEF FamilyExec
    <3>4. index' \in [User -> SUBSET Token]  BY <3>1 DEF FamilyExec
    <3> QED BY <3>1, <3>3, <3>4 DEF FamilyExec, Idle
  <2>8. CASE \E r \in Req : RevokeAllExec(r)
    BY <2>8, IdleIsJob DEF RevokeAllExec, Idle
  <2>9. CASE \E r \in Req, u \in User : RevokeAllMembers(r, u)
    <3>1. PICK r \in Req, u \in User : RevokeAllMembers(r, u)  BY <2>9
    <3> QED BY <3>1, <1>a, <1>d DEF RevokeAllMembers, OnUser
  <2>10. CASE Tick  BY <2>10 DEF Tick
  <2> QED BY <1>3, <2>1, <2>2, <2>3, <2>4, <2>5, <2>6, <2>7, <2>8, <2>9, <2>10 DEF Quiet
<1> QED BY <1>1, <1>2, <1>3 DEF Next, Quiet

\* Markers are set, and families are revoked, only after a login opened them.
LEMMA NextMarkedWasOpened ==
  ASSUME IInv, Next
  PROVE  MarkedWasOpened'
<1> USE DEF IInv, TypeOK, keys, Goto, Finish
<1>a. \A f \in Family : Opened(f) => Opened(f)'
  <2>1. CASE \E r \in Req, f \in Family, t \in Token : Login(r, f, t)
    BY <2>1, NoFamilyAssumption DEF Login, Fresh, Opened
  <2>2. CASE \E t, n \in Token : Rotate(t, n)
    BY <2>2, NoFamilyAssumption DEF Rotate, Fresh, Opened
  <2>3. CASE Quiet
    BY <2>3, QuietSteps DEF QuietEffect, Opened
  <2> QED BY <2>1, <2>2, <2>3 DEF Next, Quiet
\* It is enough to look at where the marker and the job of a step come from.
<1>b. /\ \A f \in Family : revExp'[f] # 0 => Opened(f)
      /\ \A q \in Req : job'[q].pc \in {"members", "scan"} =>
           job'[q].fam \in Family /\ Opened(job'[q].fam)
  <2>0. /\ \A f \in Family : revExp[f] # 0 => Opened(f)
        /\ \A q \in Req : job[q].pc \in {"members", "scan"} =>
             job[q].fam \in Family /\ Opened(job[q].fam)
    BY DEF MarkedWasOpened
  <2>i. ASSUME NEW r \in Req, Finish(r)
        PROVE  \A q \in Req : job'[q].pc \in {"members", "scan"} =>
                 job'[q].fam \in Family /\ Opened(job'[q].fam)
    BY <2>0, <2>i DEF Idle
  <2>f. ASSUME NEW r \in Req, NEW l \in PC, NEW f \in Family, Opened(f), NEW S, NEW T,
               Goto(r, OnFamily(l, f, S, T))
        PROVE  \A q \in Req : job'[q].pc \in {"members", "scan"} =>
                 job'[q].fam \in Family /\ Opened(job'[q].fam)
    BY <2>0, <2>f DEF OnFamily
  <2>t. ASSUME NEW r \in Req, NEW t, NEW l \in {"recording", "logout"},
               Goto(r, OnToken(l, t))
        PROVE  \A q \in Req : job'[q].pc \in {"members", "scan"} =>
                 job'[q].fam \in Family /\ Opened(job'[q].fam)
    BY <2>0, <2>t DEF OnToken
  <2>1. CASE \E r \in Req, f \in Family, t \in Token : Login(r, f, t)
    <3>1. PICK r \in Req, f \in Family, t \in Token : Login(r, f, t)  BY <2>1
    <3>2. Goto(r, OnToken("recording", t)) /\ revExp' = revExp  BY <3>1 DEF Login
    <3> QED BY <2>0, <2>t, <3>2
  <2>2. CASE \E t, n \in Token : Rotate(t, n)
    <3>1. job' = job /\ revExp' = revExp  BY <2>2 DEF Rotate
    <3> QED BY <2>0, <3>1
  <2>3. CASE \E r \in Req, t \in Token : RefuseRevoked(r, t) \/ DetectReuse(r, t)
    <3>1. PICK r \in Req, t \in Token : RefuseRevoked(r, t) \/ DetectReuse(r, t)  BY <2>3
    <3>2. fam[t] \in Family  BY <3>1, LiveHasFamily DEF RefuseRevoked, DetectReuse
    <3>3. Opened(fam[t])  BY DEF Opened
    <3>4. Goto(r, OnFamily("members", fam[t], {}, {}))
      BY <3>1 DEF RefuseRevoked, DetectReuse
    <3>5. \A f \in Family : f # fam[t] => revExp'[f] = revExp[f]
      BY <3>1, <3>2 DEF RefuseRevoked, DetectReuse
    <3>6. "members" \in PC  BY DEF PC
    <3> QED BY <2>0, <2>f, <3>2, <3>3, <3>4, <3>5, <3>6
  <2>4. CASE \E r \in Req, t \in Token : FamilyGet(r, t)
    <3>1. PICK r \in Req, t \in Token : FamilyGet(r, t)  BY <2>4
    <3>2. PICK S, T : Goto(r, OnFamily("scan", job[r].fam, S, T))  BY <3>1 DEF FamilyGet
    <3>3. job[r].fam \in Family /\ Opened(job[r].fam) /\ revExp' = revExp
      BY <2>0, <3>1 DEF FamilyGet
    <3>4. "scan" \in PC  BY DEF PC
    <3> QED BY <2>0, <2>f, <3>2, <3>3, <3>4
  <2>5. CASE \E r \in Req : FamilyMembers(r)
    <3>1. PICK r \in Req : FamilyMembers(r)  BY <2>5
    <3>2. PICK S : Goto(r, OnFamily("scan", job[r].fam, S, {}))  BY <3>1 DEF FamilyMembers
    <3>3. job[r].fam \in Family /\ Opened(job[r].fam) /\ revExp' = revExp
      BY <2>0, <3>1 DEF FamilyMembers
    <3>4. "scan" \in PC  BY DEF PC
    <3> QED BY <2>0, <2>f, <3>2, <3>3, <3>4
  <2>6. CASE \E r \in Req, t \in Token : LogoutGet(r, t)
    <3>1. PICK r \in Req, t \in Token : LogoutGet(r, t)  BY <2>6
    <3>2. Goto(r, OnToken("logout", t)) /\ revExp' = revExp  BY <3>1 DEF LogoutGet
    <3> QED BY <2>0, <2>t, <3>2
  <2>7. CASE \E r \in Req : FamilyExec(r)
    <3>1. PICK r \in Req : FamilyExec(r)  BY <2>7
    <3>2. Finish(r)  BY <3>1 DEF FamilyExec
    <3>3. job[r].fam \in Family /\ Opened(job[r].fam)  BY <2>0, <3>1 DEF FamilyExec
    <3>4. \A f \in Family : f # job[r].fam => revExp'[f] = revExp[f]
      BY <3>1, <3>3 DEF FamilyExec
    <3> QED BY <2>0, <2>i, <3>2, <3>3, <3>4
  <2>8. CASE \E r \in Req : \/ LoginRecorded(r) \/ RollbackLogin(r) \/ LogoutRevoke(r)
                            \/ RevokeAllExec(r) \/ RedisFails(r)
    <3>1. PICK r \in Req : \/ LoginRecorded(r) \/ RollbackLogin(r) \/ LogoutRevoke(r)
                           \/ RevokeAllExec(r) \/ RedisFails(r)
      BY <2>8
    <3>2. Finish(r) /\ revExp' = revExp
      BY <3>1 DEF LoginRecorded, RollbackLogin, LogoutRevoke, RevokeAllExec, RedisFails,
                  RevokeRefreshToken
    <3> QED BY <2>0, <2>i, <3>2
  <2>9. CASE \E r \in Req, u \in User : RevokeAllMembers(r, u)
    <3>1. PICK r \in Req, u \in User : RevokeAllMembers(r, u)  BY <2>9
    <3> QED BY <2>0, <3>1 DEF RevokeAllMembers, OnUser
  <2>10. CASE Tick  BY <2>0, <2>10 DEF Tick
  <2> QED BY <2>1, <2>2, <2>3, <2>4, <2>5, <2>6, <2>7, <2>8, <2>9, <2>10 DEF Next
<1>c. revExp' \in [Family -> Nat]  BY NextTypeOK
<1> QED BY <1>a, <1>b, <1>c DEF MarkedWasOpened

\* Every step preserves the inductive invariant.
LEMMA NextIInv == IInv /\ [Next]_vars => IInv'
<1> SUFFICES ASSUME IInv, [Next]_vars PROVE IInv'
  OBVIOUS
<1>1. CASE Next
  <2>1. TokenInv'
    <3>1. CASE Quiet  BY <3>1, QuietSteps, QuietTokenInv
    <3>2. CASE ~Quiet
      BY <1>1, <3>2, LoginTokenInv, RotateTokenInv DEF Next, Quiet
    <3> QED BY <3>1, <3>2
  <2> QED BY <1>1, <2>1, NextTypeOK, NextMarkedWasOpened DEF IInv, TokenInv
<1>2. CASE UNCHANGED vars
  BY <1>2
  DEF vars, IInv, TypeOK, UnissuedIsAbsent, ExpiryBounded, OneLivePerFamily,
      MarkedWasOpened, MarkerOutlives, Live, Fresh, Opened
<1> QED BY <1>1, <1>2
-----------------------------------------------------------------------------
\* The inductive invariant holds in every reachable state.
THEOREM Invariance == Spec => []IInv
  BY InitIInv, NextIInv, PTL DEF Spec

\* Type correctness of the Redis keys and of the requests' local variables.
THEOREM TypeCorrect == Spec => []TypeOK
<1>1. IInv => TypeOK  BY DEF IInv
<1> QED BY <1>1, Invariance, PTL

\* A login has at most one stored refresh token, whatever runs concurrently.
THEOREM SingleToken == Spec => []OneLivePerFamily
<1>1. IInv => OneLivePerFamily  BY DEF IInv
<1> QED BY <1>1, Invariance, PTL

\* No token is issued in a family after reuse was detected in it.
THEOREM RevocationIsFinal == Spec => NoIssueAfterRevocation
<1>1. IInv /\ [Next]_vars =>
      [\A t \in Token : Fresh(t) /\ fam'[t] # NoFamily => revExp[fam'[t]] = 0]_vars
  <2> SUFFICES ASSUME IInv, Next, NEW u \in Token, Fresh(u), fam'[u] # NoFamily
               PROVE  revExp[fam'[u]] = 0
    OBVIOUS
  <2>1. CASE \E r \in Req, f \in Family, t \in Token : Login(r, f, t)
    <3>1. PICK r \in Req, f \in Family, t \in Token : Login(r, f, t)  BY <2>1
    <3>2. revExp[f] = 0  BY <3>1, LoginTokenInv
    <3> QED BY <3>1, <3>2 DEF Login, Fresh, IInv, TypeOK
  <2>2. CASE \E t, n \in Token : Rotate(t, n)
    <3>1. PICK t \in Token, n \in Token : Rotate(t, n)  BY <2>2
    <3>2. revExp[fam[t]] = 0  BY <3>1, RotateTokenInv
    <3> QED BY <3>1, <3>2 DEF Rotate, Fresh, IInv, TypeOK
  <2>3. CASE Quiet  BY <2>3, QuietSteps DEF QuietEffect, Fresh
  <2> QED BY <2>1, <2>2, <2>3 DEF Next, Quiet
<1> QED BY <1>1, Invariance, PTL DEF Spec, NoIssueAfterRevocation
-----------------------------------------------------------------------------
\* A quiet step takes usable tokens away and returns none: a marker that has
\* expired blocked only tokens that expired with it.
LEMMA QuietRefines ==
  ASSUME IInv, QuietEffect
  PROVE  \E S \in SUBSET Usable : Abstract!Close(S)
<1>1. Usable' \subseteq Usable
  <2> SUFFICES ASSUME NEW t \in Token, Live(t)', ~Revoked(fam[t])'
               PROVE  Live(t) /\ ~Revoked(fam[t])
    BY DEF Usable, QuietEffect
  <2> USE DEF IInv, TypeOK, QuietEffect, Live, Revoked
  <2>1. exp'[t] = exp[t] /\ Live(t)  OBVIOUS
  <2>2. fam[t] \in Family  BY <2>1, LiveHasFamily
  <2>3. fam'[t] = fam[t] /\ revExp'[fam[t]] <= now'  BY <2>2
  <2>4. revExp'[fam[t]] = 0
    BY <2>2, <2>3, QuietTokenInv DEF TokenInv, MarkerOutlives
  <2> QED BY <2>1, <2>2, <2>4, TTLAssumption
<1>2. Abstract!Close(Usable \ Usable')
  BY <1>1 DEF Abstract!Close, QuietEffect
<1> QED BY <1>2

\* A login opens a family.
LEMMA LoginRefines ==
  ASSUME IInv, NEW r \in Req, NEW f \in Family, NEW t \in Token, Login(r, f, t)
  PROVE  Abstract!Open(f, t)
<1> USE DEF IInv, TypeOK
<1>1. revExp[f] = 0  BY LoginTokenInv
<1>2. Usable' = Usable \cup {t}
  BY <1>1, TTLAssumption, NoFamilyAssumption
  DEF Login, Usable, Live, Revoked, Fresh, UnissuedIsAbsent
<1> QED BY <1>2 DEF Login, Fresh, Abstract!Open, Abstract!Fresh, Abstract!Opened

\* A rotation replaces the usable token of its family.
LEMMA RotateRefines ==
  ASSUME IInv, NEW t \in Token, NEW n \in Token, Rotate(t, n)
  PROVE  Abstract!Advance(t, n)
<1> USE DEF IInv, TypeOK
<1>1. fam[t] \in Family /\ revExp[fam[t]] = 0 /\ t # n  BY RotateTokenInv
<1>2. t \in Usable  BY DEF Rotate, Usable
<1>3. Usable' = (Usable \ {t}) \cup {n}
  BY <1>1, TTLAssumption, NoFamilyAssumption
  DEF Rotate, Usable, Live, Revoked, Fresh, UnissuedIsAbsent
<1> QED BY <1>2, <1>3 DEF Rotate, Fresh, Abstract!Advance, Abstract!Fresh

\* The Redis implementation refines the abstract life cycle of a family.
THEOREM Refinement == Spec => ImplementsFamilies
<1>1. Init => Abstract!Init
  BY DEF Init, Abstract!Init, Usable, Live
<1>2. IInv /\ [Next]_vars => [Abstract!Next]_(Abstract!vars)
  <2> SUFFICES ASSUME IInv, [Next]_vars
               PROVE  Abstract!Next \/ UNCHANGED Abstract!vars
    OBVIOUS
  <2>1. CASE Quiet  BY <2>1, QuietSteps, QuietRefines DEF Abstract!Next
  <2>2. CASE \E r \in Req, f \in Family, t \in Token : Login(r, f, t)
    BY <2>2, LoginRefines DEF Abstract!Next
  <2>3. CASE \E t, n \in Token : Rotate(t, n)
    BY <2>3, RotateRefines DEF Abstract!Next
  <2>4. CASE UNCHANGED vars
    BY <2>4 DEF vars, Abstract!vars, Usable, Live, Revoked
  <2> QED BY <2>1, <2>2, <2>3, <2>4 DEF Next, Quiet
<1> QED BY <1>1, <1>2, Invariance, PTL DEF Spec, ImplementsFamilies, Abstract!Spec
-----------------------------------------------------------------------------
(***************************************************************************)
(* The index of a user's tokens.  IndexCovers needs that the set lives as  *)
(* long as the tokens it names, and RevokeAllExec, which drops the set,    *)
(* that every token still stored was seen by its SMEMBERS or is raced.     *)
(***************************************************************************)
IndexOwned ==
  \A u \in User : \A t \in index[u] : fam[t] \in Family /\ Owner[fam[t]] = u

IndexKept ==
  \A t \in Token : Live(t) /\ fam[t] \notin raced =>
    t \in index[Owner[fam[t]]] /\ exp[t] <= indexExp[Owner[fam[t]]]

SeenOrRaced ==
  \A r \in Req : job[r].pc = "delete_all" =>
    /\ \A t \in job[r].todo : fam[t] \in Family /\ Owner[fam[t]] \in job[r].users
    /\ \A t \in Token : Live(t) /\ Owner[fam[t]] \in job[r].users /\ fam[t] \notin raced
         => t \in job[r].todo

EndedIsOver ==
  /\ \A f \in ended : Opened(f)
  /\ \A t \in Token : Live(t) /\ fam[t] \in ended => fam[t] \in raced

CoverInv == IndexOwned /\ IndexKept /\ SeenOrRaced /\ EndedIsOver

\* Initially nothing is stored.
LEMMA InitCoverInv == Init => CoverInv
  BY DEF Init, CoverInv, IndexOwned, IndexKept, SeenOrRaced, EndedIsOver, Live, Idle

\* What every step does that neither stores a token nor belongs to a
\* revoke-all: an entry leaves the index only together with its token.
ShrinkEffect ==
  /\ UNCHANGED <<fam, indexExp, raced, ended>>
  /\ now' \in Nat /\ now <= now'
  /\ \A t \in Token : exp'[t] = exp[t] \/ exp'[t] = 0
  /\ \A u \in User : index'[u] \subseteq index[u]
  /\ \A u \in User : \A t \in index[u] \ index'[u] : exp'[t] = 0
  /\ \A q \in Req : job'[q].pc = "delete_all" => job'[q] = job[q]

\* A step that stores no token cannot uncover one.
LEMMA ShrinkCoverInv ==
  ASSUME IInv, CoverInv, ShrinkEffect
  PROVE  CoverInv'
<1> USE DEF IInv, TypeOK, ShrinkEffect, CoverInv
<1>a. \A t \in Token : Live(t)' => Live(t) /\ exp'[t] = exp[t] /\ exp'[t] # 0 /\ fam[t] \in Family
  BY LiveHasFamily DEF Live
<1>1. IndexOwned'   BY DEF IndexOwned
<1>2. IndexKept'    BY <1>a, OwnerAssumption DEF IndexKept
<1>3. SeenOrRaced'  BY <1>a DEF SeenOrRaced
<1>4. EndedIsOver'  BY <1>a DEF EndedIsOver, Opened
<1> QED BY <1>1, <1>2, <1>3, <1>4

\* A job that is not at "delete_all" may take the place of another.
LEMMA OtherJob ==
  ASSUME IInv, NEW r \in Req, NEW j, j.pc # "delete_all", Goto(r, j)
  PROVE  \A q \in Req : job'[q].pc = "delete_all" => job'[q] = job[q]
  BY DEF IInv, TypeOK, Goto

\* Every quiet step but the two of a revoke-all is one of these.
LEMMA ShrinkSteps ==
  ASSUME IInv, CoverInv, Quiet,
         ~\E r \in Req : RevokeAllExec(r),
         ~\E r \in Req, u \in User : RevokeAllMembers(r, u)
  PROVE  ShrinkEffect
<1>0. QuietEffect  BY QuietSteps
<1> USE DEF ShrinkEffect, keys, ghosts
<1>a. /\ Idle.pc # "delete_all"
      /\ \A t, f, S, T : /\ OnToken("logout", t).pc # "delete_all"
                         /\ OnFamily("members", f, S, T).pc # "delete_all"
                         /\ OnFamily("scan", f, S, T).pc # "delete_all"
  BY DEF Idle, OnToken, OnFamily
<1>1. CASE \E r \in Req, t \in Token :
             RefuseRevoked(r, t) \/ DetectReuse(r, t) \/ FamilyGet(r, t) \/ LogoutGet(r, t)
  <2>1. PICK r \in Req : \E j : Goto(r, j) /\ j.pc # "delete_all"
    BY <1>1, <1>a DEF RefuseRevoked, DetectReuse, FamilyGet, LogoutGet
  <2>2. UNCHANGED <<fam, index, indexExp, raced, ended>>
    BY <1>1 DEF RefuseRevoked, DetectReuse, FamilyGet, LogoutGet
  <2> QED BY <1>0, <2>1, <2>2, OtherJob DEF QuietEffect
<1>2. CASE \E r \in Req : LoginRecorded(r) \/ FamilyMembers(r) \/ RedisFails(r)
  <2>1. PICK r \in Req : \E j : Goto(r, j) /\ j.pc # "delete_all"
    BY <1>2, <1>a DEF LoginRecorded, FamilyMembers, RedisFails, Finish
  <2>2. UNCHANGED <<fam, index, indexExp, raced, ended>>
    BY <1>2 DEF LoginRecorded, FamilyMembers, RedisFails
  <2> QED BY <1>0, <2>1, <2>2, OtherJob DEF QuietEffect
<1>3. CASE \E r \in Req : RollbackLogin(r) \/ LogoutRevoke(r)
  <2>1. PICK r \in Req : RollbackLogin(r) \/ LogoutRevoke(r)  BY <1>3
  <2>2. job[r].tok \in Token /\ fam[job[r].tok] \in Family
    BY <2>1 DEF IInv, TypeOK, RollbackLogin, LogoutRevoke
  <2>3. RevokeRefreshToken(job[r].tok) /\ Goto(r, Idle) /\ UNCHANGED <<raced, ended>>
    BY <2>1 DEF RollbackLogin, LogoutRevoke, Finish
  <2>4. /\ \A u \in User : index'[u] \subseteq index[u]
        /\ \A u \in User : \A t \in index[u] \ index'[u] : t = job[r].tok
        /\ exp'[job[r].tok] = 0
    BY <2>2, <2>3 DEF RevokeRefreshToken, IInv, TypeOK
  <2>5. UNCHANGED <<fam, indexExp>>  BY <2>3 DEF RevokeRefreshToken
  <2> QED BY <1>0, <1>a, <2>3, <2>4, <2>5, OtherJob DEF QuietEffect
<1>4. CASE \E r \in Req : FamilyExec(r)
  <2>1. PICK r \in Req : FamilyExec(r)  BY <1>4
  <2>2. job[r].hits \subseteq Token  BY DEF IInv, TypeOK, Job
  <2>3. /\ \A u \in User : index'[u] \subseteq index[u]
        /\ \A u \in User : \A t \in index[u] \ index'[u] : t \in job[r].hits
        /\ \A t \in job[r].hits : exp'[t] = 0
    BY <2>1, <2>2 DEF FamilyExec, IInv, TypeOK
  <2>4. Goto(r, Idle) /\ UNCHANGED <<fam, indexExp, raced, ended>>
    BY <2>1 DEF FamilyExec, Finish
  <2> QED BY <1>0, <1>a, <2>3, <2>4, OtherJob DEF QuietEffect
<1>5. CASE Tick
  BY <1>0, <1>5 DEF Tick, QuietEffect
<1> QED BY <1>1, <1>2, <1>3, <1>4, <1>5 DEF Quiet

\* The two steps that store a token put it into the index, and its family
\* among the raced ones if a revoke-all of the user has read the index.
StoreEffect(f, n, gone) ==
  /\ f \in Family /\ n \in Token /\ Fresh(n) /\ gone \subseteq Token
  /\ now' = now
  /\ fam' = [fam EXCEPT ![n] = f]
  /\ exp'[n] = now + TTL
  /\ \A t \in Token \ {n} : exp'[t] = exp[t] \/ exp'[t] = 0
  /\ \A t \in gone : exp'[t] = 0
  /\ AddMember(Owner[f], n, gone)
  /\ NoteRace(f)
  /\ f \in ended => f \in raced
  /\ ended' = ended
  /\ \A q \in Req : job'[q].pc = "delete_all" => job'[q] = job[q]

\* A token is added to the set of its user in the transaction that stores it,
\* which gives the set the longer life.
LEMMA StoreCoverInv ==
  ASSUME IInv, CoverInv, NEW f, NEW n, NEW gone, StoreEffect(f, n, gone)
  PROVE  CoverInv'
<1> DEFINE o == Owner[f]
<1>a. /\ f \in Family /\ n \in Token /\ o \in User /\ now' = now /\ now \in Nat /\ TTL \in Nat
      /\ gone \subseteq Token /\ fam[n] = NoFamily
  BY OwnerAssumption, TTLAssumption DEF StoreEffect, IInv, TypeOK, Fresh
<1>b. /\ fam'[n] = f /\ \A t \in Token \ {n} : fam'[t] = fam[t]
  BY <1>a DEF StoreEffect, IInv, TypeOK
<1>c. /\ index'[o] = (Members(o) \ gone) \cup {n} /\ indexExp'[o] = now + TTL
      /\ \A u \in User \ {o} : index'[u] = index[u] /\ indexExp'[u] = indexExp[u]
      /\ Members(o) \subseteq index[o] /\ index[o] \subseteq Token
  BY <1>a DEF StoreEffect, AddMember, Members, IInv, TypeOK
<1>d. raced \subseteq raced'  BY DEF StoreEffect, NoteRace
<1>e. ASSUME NEW t \in Token, t # n, Live(t)'
      PROVE  /\ Live(t) /\ exp'[t] = exp[t] /\ t \notin gone
             /\ fam'[t] = fam[t] /\ fam[t] \in Family
             /\ fam[t] \notin raced => t \in Members(Owner[fam[t]])
             /\ exp[t] <= now + TTL
  <2>1. Live(t) /\ exp'[t] = exp[t] /\ t \notin gone
    BY <1>a, <1>e DEF StoreEffect, Live
  <2>2. fam[t] \in Family  BY <2>1, LiveHasFamily
  <2>3. Owner[fam[t]] \in User  BY <2>2, OwnerAssumption
  <2>4. fam[t] \notin raced => t \in Members(Owner[fam[t]])
    BY <1>a, <2>1, <2>3 DEF CoverInv, IndexKept, Members, Live, IInv, TypeOK
  <2> QED BY <1>b, <1>e, <2>1, <2>2, <2>4 DEF IInv, ExpiryBounded
<1>1. IndexOwned'
  <2> SUFFICES ASSUME NEW u \in User, NEW t \in index'[u]
               PROVE  fam'[t] \in Family /\ Owner[fam'[t]] = u
    BY DEF IndexOwned
  <2>1. CASE t = n
    <3>1. n \notin index[u]
      BY <1>a, NoFamilyAssumption DEF CoverInv, IndexOwned
    <3> QED BY <1>a, <1>b, <1>c, <2>1, <3>1
  <2>2. CASE t # n
    <3>1. t \in index[u] /\ t \in Token  BY <1>c, <2>2 DEF IInv, TypeOK
    <3> QED BY <1>b, <2>2, <3>1 DEF CoverInv, IndexOwned
  <2> QED BY <2>1, <2>2
<1>2. IndexKept'
  <2> SUFFICES ASSUME NEW t \in Token, Live(t)', fam'[t] \notin raced'
               PROVE  t \in index'[Owner[fam'[t]]] /\ exp'[t] <= indexExp'[Owner[fam'[t]]]
    BY DEF IndexKept
  <2>1. CASE t = n
    BY <1>a, <1>b, <1>c, <2>1 DEF StoreEffect
  <2>2. CASE t # n
    <3>1. fam'[t] = fam[t] /\ fam[t] \in Family /\ exp'[t] = exp[t] /\ t \notin gone
          /\ t \in Members(Owner[fam[t]]) /\ exp[t] <= now + TTL /\ Live(t)
      BY <1>d, <1>e, <2>2
    <3>2. Owner[fam[t]] \in User  BY <3>1, OwnerAssumption
    <3>3. CASE Owner[fam[t]] = o  BY <1>c, <3>1, <3>3
    <3>4. CASE Owner[fam[t]] # o
      BY <1>c, <1>d, <3>1, <3>2, <3>4 DEF CoverInv, IndexKept
    <3> QED BY <3>3, <3>4
  <2> QED BY <2>1, <2>2
<1>3. SeenOrRaced'
  <2> SUFFICES ASSUME NEW q \in Req, job'[q].pc = "delete_all"
               PROVE  /\ \A t \in job'[q].todo : fam'[t] \in Family /\ Owner[fam'[t]] \in job'[q].users
                      /\ \A t \in Token : Live(t)' /\ Owner[fam'[t]] \in job'[q].users
                                          /\ fam'[t] \notin raced' => t \in job'[q].todo
    BY DEF SeenOrRaced
  <2>1. job'[q] = job[q] /\ job[q].todo \subseteq Token
    BY DEF StoreEffect, IInv, TypeOK, Job
  <2>2. \A t \in job[q].todo : fam[t] \in Family /\ Owner[fam[t]] \in job[q].users /\ t # n
    BY <1>a, <2>1, NoFamilyAssumption DEF CoverInv, SeenOrRaced
  <2>3. o \in job[q].users => f \in raced'
    BY <2>1 DEF StoreEffect, NoteRace
  <2> QED BY <1>b, <1>d, <1>e, <2>1, <2>2, <2>3 DEF CoverInv, SeenOrRaced
<1>4. EndedIsOver'
  <2>1. \A g \in ended : Opened(g)'
    BY <1>a, <1>b, NoFamilyAssumption DEF CoverInv, EndedIsOver, Opened, IInv, TypeOK
  <2>2. \A t \in Token : Live(t)' /\ fam'[t] \in ended => fam'[t] \in raced'
    BY <1>b, <1>d, <1>e DEF CoverInv, EndedIsOver, StoreEffect
  <2> QED BY <2>1, <2>2 DEF EndedIsOver, StoreEffect
<1> QED BY <1>1, <1>2, <1>3, <1>4 DEF CoverInv

\* A login and a rotation store a token that way.
LEMMA StoreSteps ==
  ASSUME IInv, CoverInv
  PROVE  /\ \A r \in Req, f \in Family, t \in Token : Login(r, f, t) => StoreEffect(f, t, {})
         /\ \A t, n \in Token : Rotate(t, n) => StoreEffect(fam[t], n, {t})
<1>1. ASSUME NEW r \in Req, NEW f \in Family, NEW t \in Token, Login(r, f, t)
      PROVE  StoreEffect(f, t, {})
  <2>1. \A q \in Req : job'[q].pc = "delete_all" => job'[q] = job[q]
    BY <1>1, OtherJob DEF Login, OnToken
  <2>2. f \notin ended  BY <1>1 DEF Login, CoverInv, EndedIsOver, Opened
  <2> QED BY <1>1, <2>1, <2>2, TTLAssumption DEF Login, StoreEffect, IInv, TypeOK
<1>2. ASSUME NEW t \in Token, NEW n \in Token, Rotate(t, n)
      PROVE  StoreEffect(fam[t], n, {t})
  <2>1. fam[t] \in Family /\ t # n  BY <1>2, RotateTokenInv
  <2>2. fam[t] \in ended => fam[t] \in raced  BY <1>2 DEF Rotate, CoverInv, EndedIsOver
  <2> QED BY <1>2, <2>1, <2>2, TTLAssumption DEF Rotate, StoreEffect, IInv, TypeOK
<1> QED BY <1>1, <1>2

\* SMEMBERS of a revoke-all sees every token that is not raced.
LEMMA MembersCoverInv ==
  ASSUME IInv, CoverInv, NEW r \in Req, NEW u \in User, RevokeAllMembers(r, u)
  PROVE  CoverInv'
<1>1. UNCHANGED <<now, fam, exp, index, indexExp, raced, ended>>
  BY DEF RevokeAllMembers, keys, ghosts
<1>2. IndexOwned' /\ IndexKept' /\ EndedIsOver'
  BY <1>1 DEF CoverInv, IndexOwned, IndexKept, EndedIsOver, Live, Opened
<1>3. \A q \in Req : job'[q] = IF q = r THEN OnUser(u, Members(u)) ELSE job[q]
  BY DEF RevokeAllMembers, Goto, IInv, TypeOK
<1>4. \A t \in Members(u) : fam[t] \in Family /\ Owner[fam[t]] = u
  BY DEF CoverInv, IndexOwned, Members
<1>5. \A t \in Token : Live(t) /\ Owner[fam[t]] = u /\ fam[t] \notin raced => t \in Members(u)
  BY DEF CoverInv, IndexKept, Members, Live, IInv, TypeOK
<1>6. SeenOrRaced'
  BY <1>1, <1>3, <1>4, <1>5 DEF CoverInv, SeenOrRaced, OnUser, Live
<1> QED BY <1>2, <1>6 DEF CoverInv

\* DEL of a revoke-all: what remains of the user is raced.
LEMMA ExecCoverInv ==
  ASSUME IInv, CoverInv, NEW r \in Req, RevokeAllExec(r)
  PROVE  CoverInv'
<1>1. UNCHANGED <<now, fam, indexExp, raced>>
  BY DEF RevokeAllExec
<1>2. \A t \in Token : exp'[t] = IF t \in job[r].todo THEN 0 ELSE exp[t]
  BY DEF RevokeAllExec
<1>3. \A u \in User : index'[u] = IF u \in job[r].users THEN {} ELSE index[u]
  BY DEF RevokeAllExec
<1>4. /\ \A t \in job[r].todo : fam[t] \in Family /\ Owner[fam[t]] \in job[r].users
      /\ \A t \in Token : Live(t) /\ Owner[fam[t]] \in job[r].users /\ fam[t] \notin raced
           => t \in job[r].todo
  BY DEF RevokeAllExec, CoverInv, SeenOrRaced
<1>5. ASSUME NEW t \in Token, Live(t)'
      PROVE  /\ Live(t) /\ t \notin job[r].todo /\ exp'[t] = exp[t] /\ fam[t] \in Family
             /\ Owner[fam[t]] \in job[r].users => fam[t] \in raced
  <2>1. t \notin job[r].todo /\ exp'[t] = exp[t] /\ Live(t)
    BY <1>1, <1>2, <1>5 DEF Live, IInv, TypeOK
  <2> QED BY <1>4, <2>1, LiveHasFamily
<1>6. \A q \in Req : job'[q].pc = "delete_all" => job'[q] = job[q]
  <2>1. Idle.pc # "delete_all"  BY DEF Idle
  <2> QED BY <2>1, OtherJob DEF RevokeAllExec, Finish
<1>7. IndexOwned'  BY <1>1, <1>3 DEF CoverInv, IndexOwned
<1>8. IndexKept'
  BY <1>1, <1>3, <1>5, OwnerAssumption DEF CoverInv, IndexKept
<1>9. SeenOrRaced'
  BY <1>1, <1>5, <1>6 DEF CoverInv, SeenOrRaced
<1>10. EndedIsOver'
  <2>1. ended' = ended \cup {f \in Family : \E t \in job[r].todo : fam[t] = f}
    BY DEF RevokeAllExec
  <2>2. \A f \in ended' : Opened(f)'
    BY <1>1, <2>1 DEF CoverInv, EndedIsOver, Opened, IInv, TypeOK, Job
  <2>3. \A t \in Token : Live(t)' /\ fam'[t] \in ended' => fam'[t] \in raced'
    BY <1>1, <1>4, <1>5, <2>1 DEF CoverInv, EndedIsOver
  <2> QED BY <2>2, <2>3 DEF EndedIsOver
<1> QED BY <1>7, <1>8, <1>9, <1>10 DEF CoverInv

\* Every step keeps the sets of the users complete.
LEMMA NextCoverInv == IInv /\ CoverInv /\ [Next]_vars => CoverInv'
<1> SUFFICES ASSUME IInv, CoverInv, [Next]_vars PROVE CoverInv'
  OBVIOUS
<1>1. CASE \E r \in Req, f \in Family, t \in Token : Login(r, f, t)
  BY <1>1, StoreSteps, StoreCoverInv
<1>2. CASE \E t, n \in Token : Rotate(t, n)
  BY <1>2, StoreSteps, StoreCoverInv
<1>3. CASE \E r \in Req, u \in User : RevokeAllMembers(r, u)
  BY <1>3, MembersCoverInv
<1>4. CASE \E r \in Req : RevokeAllExec(r)
  BY <1>4, ExecCoverInv
<1>5. CASE /\ Quiet
           /\ ~\E r \in Req : RevokeAllExec(r)
           /\ ~\E r \in Req, u \in User : RevokeAllMembers(r, u)
  BY <1>5, ShrinkSteps, ShrinkCoverInv
<1>6. CASE UNCHANGED vars
  BY <1>6 DEF vars, CoverInv, IndexOwned, IndexKept, SeenOrRaced, EndedIsOver, Live, Opened
<1> QED BY <1>1, <1>2, <1>3, <1>4, <1>5, <1>6 DEF Next, Quiet

\* The sets of the users are complete, save for the tokens that raced with a
\* revoke-all.
THEOREM CoverInvariance == Spec => [](IInv /\ CoverInv)
  BY Invariance, InitCoverInv, NextCoverInv, PTL DEF Spec

\* user_refresh:{uid} names every stored token of its user and lives as long
\* as any of them, except tokens stored between the two calls of a revoke-all.
THEOREM IndexSafety == Spec => []IndexCovers
<1>1. IInv /\ CoverInv => IndexCovers
  <2> SUFFICES ASSUME IInv, CoverInv, NEW t \in Token, Live(t), fam[t] \notin raced
               PROVE  t \in Members(Owner[fam[t]])
    BY DEF IndexCovers
  <2>1. Owner[fam[t]] \in User  BY LiveHasFamily, OwnerAssumption
  <2> QED BY <2>1 DEF CoverInv, IndexKept, Members, Live, IInv, TypeOK
<1> QED BY <1>1, CoverInvariance, PTL

\* revoke_all_refresh_tokens ends every family it saw, except those that a
\* refresh or a login prolonged while it ran.
THEOREM RevokeAllSafety == Spec => []RevokeAllCovers
<1>1. CoverInv => RevokeAllCovers
  BY DEF CoverInv, EndedIsOver, RevokeAllCovers, Usable
<1> QED BY <1>1, CoverInvariance, PTL
=============================================================================
