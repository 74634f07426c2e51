---------------------------- MODULE SessionsProofs ----------------------------
(***************************************************************************)
(* Sessions: types, the pairing of session and CSRF key, and the finality  *)
(* of deletion, for any sets of sessions, users and requests, any owners   *)
(* and any life times.                                                     *)
(***************************************************************************)
EXTENDS Sessions, TLAPS

\* The two keys of a session always expire together.
SameExpiry == \A s \in Session : exp[s] = csrfExp[s]

\* The index, and so a delete-all under way, names only sessions there have
\* been: Login cannot create one of them again.
OnlyBorn ==
  /\ \A u \in User : index[u] \subseteq born
  /\ \A r \in Req : job[r].todo \subseteq born

EndedGone == \A s \in ended : s \in born /\ exp[s] <= now

\* A session that has not been created has no key.
UnbornKeyless == \A s \in Session \ born : exp[s] = 0

IInv == TypeOK /\ SameExpiry /\ OnlyBorn /\ EndedGone /\ UnbornKeyless

\* The jobs the actions put a request on are jobs.
LEMMA JobTypes ==
  /\ Idle \in Job
  /\ \A label \in PC, s \in Session, n \in Nat : On(label, s, n) \in Job
  /\ \A u \in User, todo \in SUBSET Session : OnUser(u, todo) \in Job
BY DEF Job, Idle, On, OnUser, PC

\* A request that finishes leaves the others where they were.
LEMMA FinishKeeps ==
  ASSUME NEW r \in Req, job \in [Req -> Job], Finish(r)
  PROVE  /\ job' \in [Req -> Job]
         /\ \A q \in Req : job'[q] = job[q] \/ (job'[q].pc = "idle" /\ job'[q].todo = {})
BY JobTypes DEF Finish, Goto, Idle

\* A request that moves on in a labelled step does so with the session given.
LEMMA OnKeeps ==
  ASSUME NEW r \in Req, job \in [Req -> Job],
         NEW label \in PC, NEW s \in Session, NEW n \in Nat, Goto(r, On(label, s, n))
  PROVE  /\ job' \in [Req -> Job]
         /\ \A q \in Req : job'[q] = job[q] \/ (job'[q].sid = s /\ job'[q].todo = {})
BY JobTypes DEF Goto, On

\* There is no session at first.
LEMMA InitInv == Init => IInv
<1> SUFFICES ASSUME Init PROVE IInv
  OBVIOUS
<1>1. \A r \in Req : job[r].pc = "idle" /\ job[r].todo = {}
  BY DEF Init, Idle
<1>2. TypeOK
  BY <1>1, JobTypes DEF Init, TypeOK
<1> QED BY <1>1, <1>2 DEF Init, IInv, SameExpiry, OnlyBorn, EndedGone, UnbornKeyless

Busy == {"recording", "touch", "extend", "logout"}

\* The part of the step lemma common to all: a step that changes no key and
\* whose requests stay on sessions there have been.
LEMMA KeysKept ==
  ASSUME IInv, UNCHANGED <<now, keys, ghosts>>, job' \in [Req -> Job],
         \A q \in Req : \/ job'[q] = job[q]
                        \/ /\ job'[q].pc \in Busy => job'[q].sid \in born
                           /\ job'[q].todo \subseteq born
  PROVE  IInv'
<1>1. TypeOK'
  BY DEF IInv, TypeOK, keys, ghosts, Busy
<1>2. SameExpiry'
  BY DEF IInv, SameExpiry, keys
<1>3. OnlyBorn'
  BY DEF IInv, OnlyBorn, keys
<1>4. EndedGone'
  BY DEF IInv, EndedGone, keys, ghosts
<1>5. UnbornKeyless'
  BY DEF IInv, UnbornKeyless, keys
<1> QED BY <1>1, <1>2, <1>3, <1>4, <1>5 DEF IInv

\* delete_session on a session there has been, at the end of a request.
LEMMA DeleteKeeps ==
  ASSUME IInv, NEW r \in Req, job[r].pc \in Busy, DeleteSession(job[r].sid), Finish(r),
         UNCHANGED <<now, ghosts>>
  PROVE  IInv'
<1> DEFINE s == job[r].sid
<1>0. s \in Session /\ Owner[s] \in User
  BY OwnerAssumption DEF IInv, TypeOK, Busy
<1>1. /\ job' \in [Req -> Job]
      /\ \A q \in Req : job'[q] = job[q] \/ (job'[q].pc = "idle" /\ job'[q].todo = {})
  BY FinishKeeps DEF IInv, TypeOK
<1>2. TypeOK'
  BY <1>0, <1>1 DEF IInv, TypeOK, DeleteSession, ghosts
<1>3. SameExpiry'
  BY <1>0 DEF IInv, SameExpiry, DeleteSession, TypeOK
<1>4. OnlyBorn'
  BY <1>0, <1>1 DEF IInv, OnlyBorn, DeleteSession, TypeOK
<1>5. EndedGone'
  BY <1>0 DEF IInv, EndedGone, DeleteSession, TypeOK, ghosts
<1>6. UnbornKeyless'
  BY <1>0 DEF IInv, UnbornKeyless, DeleteSession, TypeOK
<1> QED BY <1>2, <1>3, <1>4, <1>5, <1>6 DEF IInv

\* create_session writes both keys and the set in one transaction.
LEMMA LoginStep ==
  ASSUME IInv, NEW r \in Req, NEW s \in Session, Login(r, s)
  PROVE  IInv'
<1> USE OwnerAssumption, TTLAssumption
<1>1. /\ job' \in [Req -> Job]
      /\ \A q \in Req : job'[q] = job[q] \/ (job'[q].sid = s /\ job'[q].todo = {})
  BY OnKeeps DEF IInv, TypeOK, Login, PC
<1>2. Owner[s] \in User /\ Members(Owner[s]) \subseteq born
  BY DEF IInv, OnlyBorn, Members
<1>3. TypeOK'
  <2>1. born' \subseteq Session /\ created' \in [Session -> Nat] /\ now' \in Nat
    BY DEF IInv, TypeOK, Login
  <2>2. exp' \in [Session -> Nat] /\ csrfExp' \in [Session -> Nat] /\ indexExp' \in [User -> Nat]
    BY <1>2 DEF IInv, TypeOK, Login
  <2>3. index' \in [User -> SUBSET Session]
    BY <1>2 DEF IInv, TypeOK, Login
  <2>4. raced' \subseteq Session /\ shrunk' \subseteq User /\ ended' \subseteq Session
    BY DEF IInv, TypeOK, Login
  <2>5. \A q \in Req : job'[q].pc \in Busy => job'[q].sid \in born'
    BY <1>1 DEF IInv, TypeOK, Login, Busy
  <2> QED BY <1>1, <2>1, <2>2, <2>3, <2>4, <2>5 DEF TypeOK, Busy
<1>4. SameExpiry'
  BY DEF IInv, TypeOK, SameExpiry, Login
<1>5. OnlyBorn'
  BY <1>1, <1>2 DEF IInv, TypeOK, OnlyBorn, Login
<1>6. EndedGone'
  BY DEF IInv, TypeOK, EndedGone, Login
<1>7. UnbornKeyless'
  BY DEF IInv, TypeOK, UnbornKeyless, Login
<1> QED BY <1>3, <1>4, <1>5, <1>6, <1>7 DEF IInv

\* The EXPIREs of a touch extend what is there and create nothing.
LEMMA ExtendStep ==
  ASSUME IInv, NEW r \in Req, Extend(r)
  PROVE  IInv'
<1> DEFINE s == job[r].sid
           u == Owner[s]
           Expire(e) == IF e > now THEN now + job[r].ttl ELSE e
<1>0. s \in Session /\ u \in User /\ job[r].ttl \in Nat /\ now \in Nat
  BY OwnerAssumption DEF IInv, TypeOK, Extend, Job
<1>1. /\ job' \in [Req -> Job]
      /\ \A q \in Req : job'[q] = job[q] \/ (job'[q].pc = "idle" /\ job'[q].todo = {})
  BY FinishKeeps DEF IInv, TypeOK, Extend
<1>2. \A e \in Nat : Expire(e) \in Nat /\ (e <= now => Expire(e) = e)
  BY <1>0
<1>3. /\ exp' = [exp EXCEPT ![s] = Expire(exp[s])]
      /\ csrfExp' = [csrfExp EXCEPT ![s] = Expire(csrfExp[s])]
      /\ indexExp' = [indexExp EXCEPT ![u] = Expire(indexExp[u])]
  BY DEF Extend
<1> HIDE DEF s, u, Expire
<1>4. TypeOK'
  <2>1. exp' \in [Session -> Nat] /\ csrfExp' \in [Session -> Nat] /\ indexExp' \in [User -> Nat]
    BY <1>0, <1>2, <1>3 DEF IInv, TypeOK
  <2>2. shrunk' \subseteq User
    BY <1>0 DEF IInv, TypeOK, Extend, s, u
  <2> QED BY <1>1, <2>1, <2>2 DEF IInv, TypeOK, Extend
<1>5. SameExpiry'
  BY <1>0, <1>3 DEF IInv, TypeOK, SameExpiry
<1>6. OnlyBorn'
  BY <1>1 DEF IInv, OnlyBorn, Extend
<1>7. EndedGone'
  <2>1. \A x \in ended : exp'[x] = exp[x]
    BY <1>0, <1>2, <1>3 DEF IInv, TypeOK, EndedGone
  <2> QED BY <2>1 DEF IInv, EndedGone, Extend
<1>8. UnbornKeyless'
  <2>1. \A x \in Session \ born : exp'[x] = exp[x]
    BY <1>0, <1>2, <1>3 DEF IInv, TypeOK, UnbornKeyless
  <2> QED BY <2>1 DEF IInv, UnbornKeyless, Extend
<1> QED BY <1>4, <1>5, <1>6, <1>7, <1>8 DEF IInv

\* The pipeline of a delete-all deletes what its SMEMBERS found.
LEMMA DeleteAllStep ==
  ASSUME IInv, NEW r \in Req, DeleteAllExec(r)
  PROVE  IInv'
<1>1. /\ job' \in [Req -> Job]
      /\ \A q \in Req : job'[q] = job[q] \/ (job'[q].pc = "idle" /\ job'[q].todo = {})
  BY FinishKeeps DEF IInv, TypeOK, DeleteAllExec
<1>2. job[r].todo \subseteq Session /\ job[r].todo \subseteq born
  BY DEF IInv, TypeOK, OnlyBorn
<1>3. TypeOK'
  BY <1>1, <1>2 DEF IInv, TypeOK, DeleteAllExec
<1>4. SameExpiry'
  BY DEF IInv, SameExpiry, DeleteAllExec
<1>5. OnlyBorn'
  BY <1>1 DEF IInv, OnlyBorn, DeleteAllExec
<1>6. EndedGone'
  BY <1>2 DEF IInv, EndedGone, DeleteAllExec, TypeOK
<1>7. UnbornKeyless'
  BY DEF IInv, UnbornKeyless, DeleteAllExec
<1> QED BY <1>3, <1>4, <1>5, <1>6, <1>7 DEF IInv

\* Time passes, and only takes keys away.
LEMMA TickStep ==
  ASSUME IInv, Tick
  PROVE  IInv'
<1>1. TypeOK'
  BY DEF IInv, TypeOK, Tick, keys, ghosts
<1>2. SameExpiry' /\ OnlyBorn' /\ UnbornKeyless'
  BY DEF IInv, SameExpiry, OnlyBorn, UnbornKeyless, Tick, keys
<1>3. EndedGone'
  BY DEF IInv, TypeOK, EndedGone, Tick, keys, ghosts
<1> QED BY <1>1, <1>2, <1>3 DEF IInv

\* The steps that touch no key.
LEMMA JobStep ==
  ASSUME IInv, NEW r \in Req,
         \/ LoginRecorded(r) \/ RedisFails(r) \/ TouchSession(r)
         \/ \E s \in Session : Authenticate(r, s) \/ LogoutGet(r, s)
         \/ \E u \in User : DeleteAllMembers(r, u)
  PROVE  IInv'
<1>0. job \in [Req -> Job] /\ now \in Nat
  BY DEF IInv, TypeOK
<1>1. CASE LoginRecorded(r) \/ RedisFails(r)
  <2>1. Finish(r) /\ UNCHANGED <<now, keys, ghosts>>
    BY <1>1 DEF LoginRecorded, RedisFails
  <2> QED BY <1>0, <2>1, FinishKeeps, KeysKept DEF Busy
<1>2. CASE TouchSession(r)
  <2>0. job[r].sid \in Session /\ job[r].sid \in born /\ created[job[r].sid] \in Nat
    BY <1>2 DEF TouchSession, IInv, TypeOK
  <2>1. UNCHANGED <<now, keys, ghosts>>
    BY <1>2 DEF TouchSession
  <2>2. CASE Finish(r)
    BY <1>0, <2>1, <2>2, FinishKeeps, KeysKept DEF Busy
  <2>3. CASE \E n \in Nat : Goto(r, On("extend", job[r].sid, n))
    BY <1>0, <2>0, <2>1, <2>3, OnKeeps, KeysKept DEF PC
  <2>4. CASE /\ created[job[r].sid] + AbsTTL > now
             /\ Goto(r, On("extend", job[r].sid, Least(TTL, created[job[r].sid] + AbsTTL - now)))
    <3>1. Least(TTL, created[job[r].sid] + AbsTTL - now) \in Nat
      BY <1>0, <2>0, <2>4, TTLAssumption DEF Least
    <3> QED BY <2>3, <2>4, <3>1
  <2>5. \/ Finish(r)
        \/ /\ created[job[r].sid] + AbsTTL > now
           /\ Goto(r, On("extend", job[r].sid, Least(TTL, created[job[r].sid] + AbsTTL - now)))
    BY <1>0, <1>2, <2>0, TTLAssumption DEF TouchSession, Goto, Finish, Least
  <2> QED BY <2>2, <2>4, <2>5
<1>3. ASSUME NEW s \in Session, Authenticate(r, s) \/ LogoutGet(r, s) PROVE IInv'
  <2>1. UNCHANGED <<now, keys, ghosts>>
    BY <1>3 DEF Authenticate, LogoutGet
  <2>2. \E label \in PC : Goto(r, On(label, s, 0))
    BY <1>3 DEF Authenticate, LogoutGet, PC
  <2>3. s \in born
    BY <1>0, <1>3 DEF Authenticate, LogoutGet, Live, IInv, UnbornKeyless
  <2> QED BY <1>0, <2>1, <2>2, <2>3, OnKeeps, KeysKept
<1>4. ASSUME NEW u \in User, DeleteAllMembers(r, u) PROVE IInv'
  <2>1. UNCHANGED <<now, keys, ghosts>>
    BY <1>4 DEF DeleteAllMembers
  <2>2. Members(u) \subseteq Session /\ Members(u) \subseteq born
    BY DEF IInv, TypeOK, OnlyBorn, Members
  <2>3. job' = [job EXCEPT ![r] = OnUser(u, Members(u))]
    BY <1>4 DEF DeleteAllMembers, Goto
  <2>4. OnUser(u, Members(u)) \in Job
    BY <2>2, JobTypes
  <2>5. OnUser(u, Members(u)).pc = "delete_all" /\ OnUser(u, Members(u)).todo = Members(u)
    BY DEF OnUser
  <2>6. job' \in [Req -> Job]
    BY <1>0, <2>3, <2>4
  <2>7. \A q \in Req : job'[q] = job[q] \/ job'[q] = OnUser(u, Members(u))
    BY <1>0, <2>3
  <2> QED BY <2>1, <2>2, <2>5, <2>6, <2>7, KeysKept DEF Busy
<1> QED BY <1>1, <1>2, <1>3, <1>4

\* Every step keeps the invariant.
LEMMA NextInv ==
  ASSUME IInv, [Next]_vars
  PROVE  IInv'
<1>1. ASSUME NEW r \in Req, RollbackLogin(r) \/ LogoutDelete(r) PROVE IInv'
  BY <1>1, DeleteKeeps DEF RollbackLogin, LogoutDelete, Busy
<1>2. CASE UNCHANGED vars
  <2>1. UNCHANGED <<now, keys, ghosts>> /\ job' = job
    BY <1>2 DEF vars, keys, ghosts
  <2> QED BY <2>1, KeysKept DEF IInv, TypeOK
<1> QED
  BY <1>1, <1>2, LoginStep, ExtendStep, DeleteAllStep, TickStep, JobStep DEF Next

\* The invariant behind the results below.
THEOREM Invariance == Spec => []IInv
BY InitInv, NextInv, PTL DEF Spec

\* Every variable keeps its type, and a request under way is on a session
\* there has been.
THEOREM TypeCorrect == Spec => []TypeOK
<1>1. IInv => TypeOK
  BY DEF IInv
<1> QED BY Invariance, <1>1, PTL

\* session:{sid} and csrf:{sid} exist together, always.
THEOREM Paired == Spec => []SessionAndCsrfTogether
<1>1. IInv => SessionAndCsrfTogether
  BY DEF IInv, SameExpiry, SessionAndCsrfTogether, Live, CsrfLive
<1> QED BY Invariance, <1>1, PTL

\* No session delete_all_sessions found survives its pipeline or returns.
THEOREM DeletionIsFinal == Spec => []DeleteAllIsFinal
<1>1. IInv => DeleteAllIsFinal
  BY DEF IInv, TypeOK, EndedGone, DeleteAllIsFinal, Live
<1> QED BY Invariance, <1>1, PTL

\* No step brings a deleted or expired session back to life.
THEOREM NoReturn == Spec => GoneStaysGone
<1>1. ASSUME IInv, IInv', [Next]_vars, NEW s \in Session, s \in born, ~Live(s)
      PROVE  ~Live(s)'
  <2>0. now \in Nat /\ exp[s] \in Nat /\ now' \in Nat /\ exp[s] <= now
    BY <1>1 DEF IInv, TypeOK, Live
  <2>1. (exp'[s] <= exp[s] /\ now' = now) \/ (exp'[s] = exp[s] /\ now' = now + 1)
    <3>1. ASSUME NEW r \in Req, NEW x \in Session, Login(r, x) PROVE exp'[s] = exp[s] /\ now' = now
      BY <1>1, <3>1 DEF Login, IInv, TypeOK
    <3>2. ASSUME NEW r \in Req, Extend(r) PROVE exp'[s] = exp[s] /\ now' = now
      BY <1>1, <2>0, <3>2 DEF Extend, IInv, TypeOK
    <3>3. ASSUME NEW r \in Req, RollbackLogin(r) \/ LogoutDelete(r) \/ DeleteAllExec(r)
          PROVE  exp'[s] <= exp[s] /\ now' = now
      BY <1>1, <2>0, <3>3 DEF RollbackLogin, LogoutDelete, DeleteAllExec, DeleteSession, IInv, TypeOK
    <3>4. ASSUME NEW r \in Req,
                 \/ LoginRecorded(r) \/ RedisFails(r) \/ TouchSession(r)
                 \/ \E x \in Session : Authenticate(r, x) \/ LogoutGet(r, x)
                 \/ \E u \in User : DeleteAllMembers(r, u)
          PROVE  exp'[s] = exp[s] /\ now' = now
      BY <3>4 DEF LoginRecorded, RedisFails, TouchSession, Authenticate, LogoutGet,
                  DeleteAllMembers, keys
    <3>5. CASE Tick
      BY <3>5 DEF Tick, keys
    <3>6. CASE UNCHANGED vars
      BY <2>0, <3>6 DEF vars
    <3>7. exp[s] <= exp[s]
      BY <2>0
    <3> QED BY <1>1, <3>1, <3>2, <3>3, <3>4, <3>5, <3>6, <3>7 DEF Next
  <2>2. exp'[s] \in Nat
    BY <1>1 DEF IInv, TypeOK
  <2> QED BY <2>0, <2>1, <2>2 DEF Live
<1>2. IInv /\ IInv' /\ [Next]_vars => [\A s \in Session : s \in born /\ ~Live(s) => ~Live(s)']_vars
  BY <1>1
<1> QED BY Invariance, <1>2, PTL DEF Spec, GoneStaysGone
-----------------------------------------------------------------------------
(***************************************************************************)
(* user_sessions:{uid} covers the live sessions of its user.               *)
(***************************************************************************)

\* A live session is in the index, and the index lives as long as it does.
IndexKept ==
  \A s \in Session : Live(s) => \/ s \in raced
                                \/ Owner[s] \in shrunk
                                \/ s \in index[Owner[s]] /\ exp[s] <= indexExp[Owner[s]]

\* What SMEMBERS returned still holds the live sessions of the user when the
\* pipeline that deletes them, and the index, is sent.
SeenOrRaced ==
  \A r \in Req, s \in Session :
    job[r].pc = "delete_all" /\ Owner[s] \in job[r].users /\ Live(s)
      => s \in raced \/ Owner[s] \in shrunk \/ s \in job[r].todo

\* Neither a session nor an extension under way is longer than TTL, which is
\* the life login gives the index.
WithinTTL ==
  /\ \A s \in Session : exp[s] <= now + TTL
  /\ \A r \in Req : job[r].ttl <= TTL

CoverInv == IndexKept /\ SeenOrRaced /\ WithinTTL

\* No request starts a delete-all, or an extension beyond TTL.
JobsQuiet ==
  \A q \in Req : job'[q] = job[q] \/ (job'[q].pc # "delete_all" /\ job'[q].ttl <= TTL)

\* What most steps do at most: some sessions end, and the index keeps the
\* entries of the others.
ShrinkEffect ==
  /\ now' >= now
  /\ \A s \in Session : \/ exp'[s] = 0
                        \/ exp'[s] = exp[s] /\ (s \in index'[Owner[s]] <=> s \in index[Owner[s]])
  /\ UNCHANGED <<indexExp, raced, shrunk>>
  /\ JobsQuiet

\* At the start there is no session and no request.
LEMMA InitCoverInv == Init => CoverInv
<1> SUFFICES ASSUME Init PROVE CoverInv
  OBVIOUS
<1>1. \A r \in Req : job[r].pc = "idle" /\ job[r].ttl = 0
  BY DEF Init, Idle
<1>2. now = 0 /\ \A s \in Session : exp[s] = 0
  BY DEF Init
<1>3. ASSUME NEW s \in Session PROVE ~Live(s)
  <2>1. exp[s] = 0 /\ now = 0
    BY <1>2
  <2>2. ~(exp[s] > now)
    BY <2>1
  <2> QED BY <2>2 DEF Live
<1> QED BY <1>1, <1>2, <1>3, TTLAssumption DEF CoverInv, IndexKept, SeenOrRaced, WithinTTL

\* Sessions that end leave the rest covered.
LEMMA ShrinkCoverInv ==
  ASSUME IInv, IInv', CoverInv, ShrinkEffect
  PROVE  CoverInv'
<1>0. /\ now \in Nat /\ now' \in Nat /\ exp \in [Session -> Nat] /\ exp' \in [Session -> Nat]
      /\ now' >= now
  BY DEF IInv, TypeOK, ShrinkEffect
<1>1. \A s \in Session : Live(s)' => /\ Live(s)
                                     /\ exp'[s] = exp[s]
                                     /\ s \in index'[Owner[s]] <=> s \in index[Owner[s]]
  BY <1>0 DEF Live, ShrinkEffect
<1>2. IndexKept'
  BY <1>1 DEF CoverInv, IndexKept, ShrinkEffect, Live
<1>3. SeenOrRaced'
  <2> SUFFICES ASSUME NEW r \in Req, NEW s \in Session,
                      job'[r].pc = "delete_all", Owner[s] \in job'[r].users, Live(s)'
               PROVE  s \in raced' \/ Owner[s] \in shrunk' \/ s \in job'[r].todo
    BY DEF SeenOrRaced
  <2>1. job'[r] = job[r] /\ Live(s)
    BY <1>1 DEF ShrinkEffect, JobsQuiet
  <2> QED BY <2>1 DEF CoverInv, SeenOrRaced, ShrinkEffect
<1>4. WithinTTL'
  <2>1. \A s \in Session : exp'[s] <= now' + TTL
    BY <1>0, TTLAssumption DEF CoverInv, WithinTTL, ShrinkEffect
  <2>2. \A r \in Req : job'[r].ttl <= TTL
    BY DEF CoverInv, WithinTTL, ShrinkEffect, JobsQuiet
  <2> QED BY <2>1, <2>2 DEF WithinTTL
<1> QED BY <1>2, <1>3, <1>4 DEF CoverInv

\* A request that finishes, or goes on with a session, starts no delete-all.
LEMMA QuietJobs ==
  ASSUME NEW r \in Req, job \in [Req -> Job],
         \/ Finish(r)
         \/ \E label \in PC \ {"delete_all"}, s \in Session, n \in Nat :
              n <= TTL /\ Goto(r, On(label, s, n))
  PROVE  JobsQuiet
<1>1. CASE Finish(r)
  BY <1>1, TTLAssumption DEF Finish, Goto, Idle, JobsQuiet
<1>2. ASSUME NEW label \in PC \ {"delete_all"}, NEW s \in Session, NEW n \in Nat,
             n <= TTL, Goto(r, On(label, s, n))
      PROVE  JobsQuiet
  BY <1>2 DEF Goto, On, JobsQuiet
<1> QED BY <1>1, <1>2

\* The steps with that effect.
LEMMA ShrinkSteps ==
  ASSUME IInv, NEW r \in Req,
         \/ LoginRecorded(r) \/ RedisFails(r) \/ TouchSession(r)
         \/ RollbackLogin(r) \/ LogoutDelete(r)
         \/ \E s \in Session : Authenticate(r, s) \/ LogoutGet(r, s)
  PROVE  ShrinkEffect
<1>0. /\ job \in [Req -> Job] /\ now \in Nat /\ exp \in [Session -> Nat]
      /\ index \in [User -> SUBSET Session] /\ now >= now
  BY DEF IInv, TypeOK
<1>1. CASE LoginRecorded(r) \/ RedisFails(r)
  <2>1. Finish(r) /\ UNCHANGED <<now, keys, ghosts>>
    BY <1>1 DEF LoginRecorded, RedisFails
  <2> QED BY <1>0, <2>1, QuietJobs DEF ShrinkEffect, keys, ghosts
<1>2. CASE TouchSession(r)
  <2>0. job[r].sid \in Session /\ created[job[r].sid] \in Nat
    BY <1>2 DEF TouchSession, IInv, TypeOK
  <2> DEFINE n == Least(TTL, created[job[r].sid] + AbsTTL - now)
  <2>1. UNCHANGED <<now, keys, ghosts>>
    BY <1>2 DEF TouchSession
  <2>2. \/ Finish(r)
        \/ created[job[r].sid] + AbsTTL > now /\ Goto(r, On("extend", job[r].sid, n))
    BY <1>0, <1>2, <2>0, TTLAssumption DEF TouchSession, Goto, Finish, Least
  <2>3. created[job[r].sid] + AbsTTL > now => n \in Nat /\ n <= TTL
    BY <1>0, <2>0, TTLAssumption DEF Least
  <2> HIDE DEF n
  <2>4. JobsQuiet
    BY <1>0, <2>0, <2>2, <2>3, QuietJobs DEF PC
  <2> QED BY <1>0, <2>1, <2>4 DEF ShrinkEffect, keys, ghosts
<1>3. CASE RollbackLogin(r) \/ LogoutDelete(r)
  <2>0. job[r].sid \in Session /\ Owner[job[r].sid] \in User
    BY <1>3, OwnerAssumption DEF IInv, TypeOK, RollbackLogin, LogoutDelete
  <2>1. DeleteSession(job[r].sid) /\ Finish(r) /\ UNCHANGED <<now, ghosts>>
    BY <1>3 DEF RollbackLogin, LogoutDelete
  <2>2. \A s \in Session : \/ exp'[s] = 0
                           \/ /\ exp'[s] = exp[s]
                              /\ s \in index'[Owner[s]] <=> s \in index[Owner[s]]
    BY <1>0, <2>0, <2>1, OwnerAssumption DEF DeleteSession
  <2> QED BY <1>0, <2>1, <2>2, QuietJobs DEF ShrinkEffect, DeleteSession, ghosts
<1>4. ASSUME NEW s \in Session, Authenticate(r, s) \/ LogoutGet(r, s) PROVE ShrinkEffect
  <2>1. UNCHANGED <<now, keys, ghosts>>
    BY <1>4 DEF Authenticate, LogoutGet
  <2>2. \E label \in PC \ {"delete_all"} : Goto(r, On(label, s, 0))
    BY <1>4 DEF Authenticate, LogoutGet, PC
  <2>3. JobsQuiet
    BY <1>0, <2>2, QuietJobs, TTLAssumption
  <2> QED BY <1>0, <2>1, <2>3 DEF ShrinkEffect, keys, ghosts
<1> QED BY <1>1, <1>2, <1>3, <1>4

\* Login: the index is renewed for TTL with the entries it had, and the new
\* session is raced when a delete-all of its user has read the index already.
LEMMA LoginCoverInv ==
  ASSUME IInv, IInv', CoverInv, NEW r \in Req, NEW s \in Session, Login(r, s)
  PROVE  CoverInv'
<1> DEFINE u == Owner[s]
<1>0. /\ now \in Nat /\ exp \in [Session -> Nat] /\ index \in [User -> SUBSET Session]
      /\ indexExp \in [User -> Nat] /\ job \in [Req -> Job] /\ u \in User /\ TTL \in Nat
  BY OwnerAssumption, TTLAssumption DEF IInv, TypeOK
<1>1. /\ exp' = [exp EXCEPT ![s] = now + TTL]
      /\ index' = [index EXCEPT ![u] = Members(u) \cup {s}]
      /\ indexExp' = [indexExp EXCEPT ![u] = now + TTL]
      /\ job' = [job EXCEPT ![r] = On("recording", s, 0)]
      /\ now' = now /\ shrunk' = shrunk /\ raced \subseteq raced'
      /\ s \in raced' \/ \A q \in Req : ~(job[q].pc = "delete_all" /\ u \in job[q].users)
  BY DEF Login, Goto
<1>2. \A x \in Session : Live(x)' => Live(x) \/ x = s
  BY <1>0, <1>1 DEF Live
<1>3. IndexKept'
  <2> SUFFICES ASSUME NEW x \in Session, Live(x)', x \notin raced', Owner[x] \notin shrunk'
               PROVE  x \in index'[Owner[x]] /\ exp'[x] <= indexExp'[Owner[x]]
    BY DEF IndexKept, Live
  <2>1. CASE x = s
    BY <1>0, <1>1, <2>1
  <2>2. CASE x # s
    <3>1. /\ Live(x) /\ exp'[x] = exp[x] /\ exp[x] <= now + TTL
          /\ x \in index[Owner[x]] /\ exp[x] <= indexExp[Owner[x]] /\ Owner[x] \in User
      BY <1>0, <1>1, <1>2, <2>2, OwnerAssumption DEF CoverInv, IndexKept, WithinTTL
    <3>2. x \in Members(Owner[x])
      BY <1>0, <3>1 DEF Members, Live
    <3> QED BY <1>0, <1>1, <3>1, <3>2
  <2> QED BY <2>1, <2>2
<1>4. SeenOrRaced'
  <2> SUFFICES ASSUME NEW q \in Req, NEW x \in Session,
                      job'[q].pc = "delete_all", Owner[x] \in job'[q].users, Live(x)'
               PROVE  x \in raced' \/ Owner[x] \in shrunk' \/ x \in job'[q].todo
    BY DEF SeenOrRaced
  <2>1. job'[q] = job[q]
    BY <1>0, <1>1 DEF On
  <2> QED BY <1>1, <1>2, <2>1 DEF CoverInv, SeenOrRaced
<1>5. WithinTTL'
  BY <1>0, <1>1 DEF CoverInv, WithinTTL, On
<1> QED BY <1>3, <1>4, <1>5 DEF CoverInv

\* touch_session's pipeline: session and index get the same new end, and
\* the index loses life only for a user in shrunk.
LEMMA ExtendCoverInv ==
  ASSUME IInv, IInv', CoverInv, NEW r \in Req, Extend(r)
  PROVE  CoverInv'
<1> DEFINE s == job[r].sid
           u == Owner[s]
           n == job[r].ttl
           Expire(e) == IF e > now THEN now + n ELSE e
<1>0. /\ now \in Nat /\ exp \in [Session -> Nat] /\ index \in [User -> SUBSET Session]
      /\ indexExp \in [User -> Nat] /\ job \in [Req -> Job]
      /\ s \in Session /\ u \in User /\ n \in Nat /\ TTL \in Nat /\ n <= TTL
  BY OwnerAssumption, TTLAssumption DEF IInv, TypeOK, Extend, Job, CoverInv, WithinTTL
<1>1. /\ exp' = [exp EXCEPT ![s] = Expire(exp[s])]
      /\ indexExp' = [indexExp EXCEPT ![u] = Expire(indexExp[u])]
      /\ now' = now /\ index' = index /\ raced' = raced /\ shrunk \subseteq shrunk'
      /\ Members(u) # {} /\ indexExp[u] > now + n => u \in shrunk'
  BY DEF Extend
<1>2. JobsQuiet
  BY <1>0, QuietJobs DEF Extend
<1> HIDE DEF s, u, n
<1>3. \A x \in Session : Live(x)' => Live(x)
  BY <1>0, <1>1 DEF Live
<1>4. IndexKept'
  <2> SUFFICES ASSUME NEW x \in Session, Live(x)', x \notin raced', Owner[x] \notin shrunk'
               PROVE  x \in index'[Owner[x]] /\ exp'[x] <= indexExp'[Owner[x]]
    BY DEF IndexKept, Live
  <2>1. /\ Live(x) /\ x \in index[Owner[x]] /\ exp[x] <= indexExp[Owner[x]]
        /\ exp[x] > now /\ Owner[x] \in User
    BY <1>1, <1>3, OwnerAssumption DEF CoverInv, IndexKept, Live
  <2>2. x \in Members(Owner[x]) /\ indexExp[Owner[x]] > now
    BY <1>0, <2>1 DEF Members
  <2>3. CASE x = s
    <3>1. Owner[x] = u
      BY <2>3 DEF u
    <3>2. exp'[x] = now + n /\ indexExp'[u] = now + n
      BY <1>0, <1>1, <2>1, <2>2, <2>3, <3>1
    <3> QED BY <1>0, <1>1, <2>1, <3>1, <3>2
  <2>4. CASE x # s /\ Owner[x] = u
    <3>1. indexExp[u] <= now + n
      BY <1>0, <1>1, <2>2, <2>4
    <3> QED BY <1>0, <1>1, <2>1, <2>2, <2>4, <3>1
  <2>5. CASE x # s /\ Owner[x] # u
    BY <1>0, <1>1, <2>1, <2>5
  <2> QED BY <2>3, <2>4, <2>5
<1>5. SeenOrRaced'
  <2> SUFFICES ASSUME NEW q \in Req, NEW x \in Session,
                      job'[q].pc = "delete_all", Owner[x] \in job'[q].users, Live(x)'
               PROVE  x \in raced' \/ Owner[x] \in shrunk' \/ x \in job'[q].todo
    BY DEF SeenOrRaced
  <2>1. job'[q] = job[q]
    BY <1>2 DEF JobsQuiet
  <2> QED BY <1>1, <1>3, <2>1 DEF CoverInv, SeenOrRaced
<1>6. WithinTTL'
  <2>1. \A x \in Session : exp'[x] <= now' + TTL
    BY <1>0, <1>1 DEF CoverInv, WithinTTL
  <2> QED BY <1>2, <2>1 DEF CoverInv, WithinTTL, JobsQuiet
<1> QED BY <1>4, <1>5, <1>6 DEF CoverInv

\* SMEMBERS: the index names the live sessions, so the request sees them.
LEMMA MembersCoverInv ==
  ASSUME IInv, IInv', CoverInv, NEW r \in Req, NEW u \in User, DeleteAllMembers(r, u)
  PROVE  CoverInv'
<1>0. /\ now \in Nat /\ exp \in [Session -> Nat] /\ indexExp \in [User -> Nat]
      /\ job \in [Req -> Job] /\ TTL \in Nat
  BY TTLAssumption DEF IInv, TypeOK
<1>1. job' = [job EXCEPT ![r] = OnUser(u, Members(u))] /\ UNCHANGED <<now, keys, ghosts>>
  BY DEF DeleteAllMembers, Goto
<1>2. \A x \in Session : Live(x)' <=> Live(x)
  BY <1>1 DEF Live, keys
<1>3. IndexKept'
  BY <1>1, <1>2 DEF CoverInv, IndexKept, keys, ghosts
<1>4. SeenOrRaced'
  <2> SUFFICES ASSUME NEW q \in Req, NEW x \in Session,
                      job'[q].pc = "delete_all", Owner[x] \in job'[q].users, Live(x),
                      x \notin raced, Owner[x] \notin shrunk
               PROVE  x \in job'[q].todo
    BY <1>1, <1>2 DEF SeenOrRaced, ghosts
  <2>1. CASE job'[q] = job[q]
    BY <2>1 DEF CoverInv, SeenOrRaced
  <2>2. CASE job'[q] = OnUser(u, Members(u))
    <3>1. Owner[x] = u /\ job'[q].todo = Members(u)
      BY <2>2 DEF OnUser
    <3>2. x \in index[u] /\ exp[x] <= indexExp[u] /\ exp[x] > now
      BY <3>1 DEF CoverInv, IndexKept, Live
    <3> QED BY <1>0, <3>1, <3>2 DEF Members
  <2> QED BY <1>0, <1>1, <2>1, <2>2
<1>5. WithinTTL'
  BY <1>0, <1>1 DEF CoverInv, WithinTTL, OnUser, keys
<1> QED BY <1>3, <1>4, <1>5 DEF CoverInv

\* The pipeline of a delete-all drops the index of a user of whom only raced
\* sessions are left.
LEMMA ExecCoverInv ==
  ASSUME IInv, IInv', CoverInv, NEW r \in Req, DeleteAllExec(r)
  PROVE  CoverInv'
<1>0. /\ now \in Nat /\ exp \in [Session -> Nat] /\ index \in [User -> SUBSET Session]
      /\ job \in [Req -> Job] /\ TTL \in Nat
  BY TTLAssumption DEF IInv, TypeOK
<1>1. /\ exp' = [s \in Session |-> IF s \in job[r].todo THEN 0 ELSE exp[s]]
      /\ index' = [u \in User |-> IF u \in job[r].users THEN {} ELSE index[u]]
      /\ job[r].pc = "delete_all" /\ Finish(r)
      /\ UNCHANGED <<now, indexExp, raced, shrunk>>
  BY DEF DeleteAllExec
<1>2. JobsQuiet
  BY <1>0, <1>1, QuietJobs
<1>3. \A x \in Session : Live(x)' => Live(x) /\ x \notin job[r].todo /\ exp'[x] = exp[x]
  BY <1>0, <1>1 DEF Live
<1>4. IndexKept'
  <2> SUFFICES ASSUME NEW x \in Session, Live(x)', x \notin raced, Owner[x] \notin shrunk
               PROVE  x \in index'[Owner[x]] /\ exp'[x] <= indexExp'[Owner[x]]
    BY <1>1 DEF IndexKept, Live
  <2>1. Owner[x] \notin job[r].users
    BY <1>1, <1>3 DEF CoverInv, SeenOrRaced
  <2> QED BY <1>1, <1>3, <2>1, OwnerAssumption DEF CoverInv, IndexKept
<1>5. SeenOrRaced'
  <2> SUFFICES ASSUME NEW q \in Req, NEW x \in Session,
                      job'[q].pc = "delete_all", Owner[x] \in job'[q].users, Live(x)'
               PROVE  x \in raced' \/ Owner[x] \in shrunk' \/ x \in job'[q].todo
    BY DEF SeenOrRaced
  <2>1. job'[q] = job[q]
    BY <1>2 DEF JobsQuiet
  <2> QED BY <1>1, <1>3, <2>1 DEF CoverInv, SeenOrRaced
<1>6. WithinTTL'
  <2>1. \A x \in Session : exp'[x] <= now' + TTL
    BY <1>0, <1>1 DEF CoverInv, WithinTTL
  <2> QED BY <1>2, <2>1 DEF CoverInv, WithinTTL, JobsQuiet
<1> QED BY <1>4, <1>5, <1>6 DEF CoverInv

\* Every step keeps the coverage.
LEMMA NextCoverInv ==
  ASSUME IInv, IInv', CoverInv, [Next]_vars
  PROVE  CoverInv'
<1>1. CASE Tick
  <2>1. ShrinkEffect
    BY <1>1 DEF ShrinkEffect, JobsQuiet, Tick, keys, ghosts, IInv, TypeOK
  <2> QED BY <2>1, ShrinkCoverInv
<1>2. CASE UNCHANGED vars
  <2>1. ShrinkEffect
    BY <1>2 DEF ShrinkEffect, JobsQuiet, vars, IInv, TypeOK
  <2> QED BY <2>1, ShrinkCoverInv
<1> QED BY <1>1, <1>2, ShrinkSteps, ShrinkCoverInv, LoginCoverInv, ExtendCoverInv,
           MembersCoverInv, ExecCoverInv DEF Next

\* user_sessions:{uid}, which delete_all_sessions goes by, misses no live
\* session but the ones named in IndexCovers.
THEOREM IndexSafety == Spec => []IndexCovers
<1>1. IInv /\ CoverInv => IndexCovers
  <2> SUFFICES ASSUME IInv, CoverInv, NEW s \in Session, Live(s), s \notin raced,
                      Owner[s] \notin shrunk
               PROVE  s \in Members(Owner[s])
    BY DEF IndexCovers
  <2>1. /\ s \in index[Owner[s]] /\ exp[s] <= indexExp[Owner[s]] /\ exp[s] > now
        /\ exp[s] \in Nat /\ now \in Nat /\ indexExp[Owner[s]] \in Nat
    BY OwnerAssumption DEF CoverInv, IndexKept, Live, IInv, TypeOK
  <2> QED BY <2>1 DEF Members
<1>2. Init => CoverInv
  BY InitCoverInv
<1>3. IInv /\ IInv' /\ CoverInv /\ [Next]_vars => CoverInv'
  BY NextCoverInv
<1> QED BY Invariance, <1>1, <1>2, <1>3, PTL DEF Spec
=============================================================================
