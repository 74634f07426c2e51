------------------------- MODULE PasswordResetProofs -------------------------
(***************************************************************************)
(* PasswordReset is safe for every number of users, tokens and requests    *)
(* and every TTL: at most one usable token per user, and neither a         *)
(* superseded nor a used token ever works again.                           *)
(***************************************************************************)
EXTENDS PasswordReset, TLAPS

USE NoTokenAssumption, OwnerAssumption, TTLAssumption

\* The records a request is set to are jobs.
LEMMA JobShapes ==
  /\ Idle \in Job
  /\ \A t \in Token, old \in Token \cup {NoToken} : Saving(t, old) \in Job
  /\ \A l \in PC, t \in Token \cup {NoToken}, us \in SUBSET User : At(l, t, us) \in Job
BY DEF Idle, Saving, At, Job, PC, Holding, Revoking

\* The fields of those records.
LEMMA JobFields ==
  /\ Idle.pc = "idle" /\ Idle.tok = NoToken
  /\ \A t, old : Saving(t, old).pc = "save" /\ Saving(t, old).tok = t
  /\ \A l, t, us : At(l, t, us).pc = l /\ At(l, t, us).tok = t
BY DEF Idle, Saving, At

\* The empty store satisfies the inductive invariant.
LEMMA InitIInv == Init => IInv
BY JobShapes, JobFields
DEF CredInit, CredTypeOK, NoSweep, Init, IInv, TypeOK, Paired, CurrentNamed, TombstoneBounded, SupersededBlocked,
    SupersededStaysDead, InHand, UsedOnce, Held, Holding, Live

\* The store's variables keep their types, whatever is done to the store.
LEMMA StoreTypeOK ==
  ASSUME CredTypeOK, StoreStep
  PROVE  CredTypeOK'
<1> USE DEF CredTypeOK, NoSweep
<1>1. ASSUME NEW c \in Cred, BeginLogin(c) \/ CredentialEnds(c) PROVE CredTypeOK'
  BY <1>1 DEF BeginLogin, CredentialEnds
<1>2. ASSUME NEW c \in Cred, NEW tooLate \in BOOLEAN, StoreCredential(c, tooLate)
      PROVE  CredTypeOK'
  BY <1>2 DEF StoreCredential
<1>3. ASSUME NEW c \in Cred, NEW n \in Cred, RotateCredential(c, n) PROVE CredTypeOK'
  BY <1>3 DEF RotateCredential
<1>4. ASSUME NEW u \in User, IndexExpires(u) PROVE CredTypeOK'
  BY <1>4 DEF IndexExpires
<1>5. ASSUME NEW r \in Req, NEW us \in SUBSET User, NEW m \in {"session", "jwt"},
             ReadMembers(r, us, m)
      PROVE  CredTypeOK'
  BY <1>5 DEF ReadMembers
<1>6. ASSUME NEW r \in Req, DeleteMembers(r) \/ AbandonSweep(r) PROVE CredTypeOK'
  BY <1>6 DEF DeleteMembers, AbandonSweep
<1>7. CASE UNCHANGED credVars
  BY <1>7 DEF credVars
<1> QED BY <1>1, <1>2, <1>3, <1>4, <1>5, <1>6, <1>7 DEF StoreStep

\* The types of the credentials and the passwords.
LoginTypeOK ==
  /\ pw \in [User -> Nat]
  /\ made \in [Cred -> Nat]
  /\ CredTypeOK

\* A new password keeps pw a function into the naturals.
LEMMA NewPasswordType ==
  ASSUME TypeOK, NEW r \in Req, NewPassword(r)
  PROVE  pw' \in [User -> Nat]
BY DEF TypeOK, NewPassword

\* What a request does to the store and to the passwords.
LEMMA RequestStore ==
  ASSUME TypeOK, NEW r \in Req, RequestStep(r)
  PROVE  StoreStep /\ made' = made /\ pw' \in [User -> Nat]
<1>1. CASE SessionMembers(r) \/ RefreshMembers(r)
  <2>1. job[r].users \in SUBSET User
    BY DEF TypeOK, Job
  <2> QED BY <1>1, <2>1 DEF SessionMembers, RefreshMembers, StoreStep, TypeOK
<1>2. CASE DeleteAllSessions(r) \/ RevokeAllRefreshTokens(r) \/ StepFails(r) \/ RequestDies(r)
  BY <1>2 DEF DeleteAllSessions, RevokeAllRefreshTokens, StepFails, RequestDies, StoreStep, TypeOK
<1>3. CASE CommitPassword(r) \/ CommitReplyLost(r)
  BY <1>3, NewPasswordType DEF CommitPassword, CommitReplyLost, StoreStep
<1>4. CASE UNCHANGED loginVars
  BY <1>4 DEF loginVars, StoreStep, TypeOK
<1> QED
  BY <1>1, <1>2, <1>3, <1>4
  DEF RequestStep, ForgotGet, Consume, ChangePassword, Save, SaveRefused, Restore

\* Every step of a request keeps the credentials' types.
LEMMA LoginTypes ==
  ASSUME TypeOK, NEW r \in Req, RequestStep(r)
  PROVE  LoginTypeOK'
BY RequestStore, StoreTypeOK DEF LoginTypeOK, TypeOK

\* The part of the invariant that speaks of tokens and requests.
Tokens ==
  /\ now \in Nat
  /\ exp \in [Token -> Nat]
  /\ cur \in [User -> Token \cup {NoToken}] /\ curExp \in [User -> Nat]
  /\ con \in [User -> Token \cup {NoToken}] /\ conExp \in [User -> Nat]
  /\ job \in [Req -> Job]
  /\ saved \subseteq Token /\ superseded \subseteq saved /\ used \subseteq saved
  /\ Paired /\ CurrentNamed /\ TombstoneBounded
  /\ SupersededBlocked /\ SupersededStaysDead
  /\ InHand /\ UsedOnce

\* The inductive invariant, in two independent parts.
LEMMA Split == IInv <=> Tokens /\ LoginTypeOK
BY DEF IInv, Tokens, LoginTypeOK, TypeOK

\* A step that leaves the keys alone and lets a request go, or keep its token
\* on the way through the steps of a reset.
LEMMA QuietStep ==
  ASSUME Tokens, NEW r \in Req, NEW j \in Job, Goto(r, j),
         UNCHANGED <<now, tokenVars, used>>,
         \/ j.pc = "idle" /\ j.tok = NoToken
         \/ /\ j.tok = job[r].tok /\ j.pc \in Holding /\ job[r].pc \in Holding
            /\ j.pc = "restore" => j.tok # NoToken
  PROVE  Tokens'
<1> USE DEF Tokens, tokenVars
<1>1. job' = [job EXCEPT ![r] = j]  BY DEF Goto
<1>2. Paired' /\ CurrentNamed' /\ TombstoneBounded' /\ SupersededBlocked'
      /\ SupersededStaysDead' /\ UsedOnce'
  BY DEF Paired, CurrentNamed, TombstoneBounded, SupersededBlocked, SupersededStaysDead,
         UsedOnce, Live
<1>3. InHand'
  BY <1>1 DEF InHand, Held, Live, Holding, Revoking
<1> QED BY <1>1, <1>2, <1>3

\* request_password_reset takes a token nobody has seen.
LEMMA ForgotStep ==
  ASSUME Tokens, NEW r \in Req, NEW t \in Token, ForgotGet(r, t)
  PROVE  Tokens'
<1> USE DEF Tokens, tokenVars
<1> DEFINE j == Saving(t, Current(Owner[t]))
<1>1. job' = [job EXCEPT ![r] = j] /\ UNCHANGED <<now, tokenVars, used>> /\ Fresh(t)
  BY DEF ForgotGet, Goto
<1>2. j \in Job /\ j.pc = "save" /\ j.tok = t
  BY JobShapes, JobFields DEF Current
<1> HIDE DEF j
<1>3. Paired' /\ CurrentNamed' /\ TombstoneBounded' /\ SupersededBlocked'
      /\ SupersededStaysDead' /\ UsedOnce'
  BY <1>1 DEF Paired, CurrentNamed, TombstoneBounded, SupersededBlocked, SupersededStaysDead,
         UsedOnce, Live
<1>4. InHand'
  BY <1>1, <1>2 DEF InHand, Held, Live, Holding, Revoking, Fresh
<1> QED BY <1>1, <1>2, <1>3, <1>4

\* change_password holds no token.
LEMMA ChangeStep ==
  ASSUME Tokens, NEW r \in Req, NEW u \in User, ChangePassword(r, u)
  PROVE  Tokens'
<1> USE DEF Tokens, tokenVars
<1> DEFINE j == At("sessions", NoToken, {u})
<1>1. job' = [job EXCEPT ![r] = j] /\ UNCHANGED <<now, tokenVars, used>>
  BY DEF ChangePassword, Goto
<1>2. j \in Job /\ j.pc = "sessions" /\ j.tok = NoToken
  BY JobShapes, JobFields DEF PC, Holding, Revoking
<1> HIDE DEF j
<1>3. Paired' /\ CurrentNamed' /\ TombstoneBounded' /\ SupersededBlocked'
      /\ SupersededStaysDead' /\ UsedOnce'
  BY <1>1 DEF Paired, CurrentNamed, TombstoneBounded, SupersededBlocked, SupersededStaysDead,
         UsedOnce, Live
<1>4. InHand'
  BY <1>1, <1>2 DEF InHand, Held, Live, Holding
<1> QED BY <1>1, <1>2, <1>3, <1>4

\* The save script: the token it replaces is the only other usable one, and
\* the tombstone expires no later than the token it writes.
LEMMA SaveStep ==
  ASSUME Tokens, NEW r \in Req, Save(r)
  PROVE  Tokens'
<1> USE DEF Tokens, tokenVars
<1> DEFINE t == job[r].tok
           u == Owner[t]
<1>1. t \in Token \ saved /\ u \in User
  BY DEF Save, InHand
<1>2. /\ Current(u) = job[r].old
      /\ exp' = [x \in Token |-> IF x = t THEN now + TTL
                                 ELSE IF x = job[r].old THEN 0 ELSE exp[x]]
      /\ cur' = [cur EXCEPT ![u] = t]
      /\ curExp' = [curExp EXCEPT ![u] = now + TTL]
      /\ saved' = saved \cup {t}
      /\ superseded' = superseded \cup {x \in saved : Owner[x] = u}
      /\ job' = [job EXCEPT ![r] = Idle]
      /\ UNCHANGED <<now, con, conExp, used>>
  BY DEF Save, Finish, Goto
<1>3. \A x \in Token : (Live(x))' => x = t \/ (Live(x) /\ Owner[x] # u)
  <2> SUFFICES ASSUME NEW x \in Token, exp'[x] > now, x # t PROVE Live(x) /\ Owner[x] # u
    BY <1>2 DEF Live
  <2>1. x # job[r].old /\ exp'[x] = exp[x]  BY <1>2
  <2>2. Live(x)  BY <2>1 DEF Live
  <2>3. Owner[x] = u => Current(u) = x  BY <2>2 DEF Paired, Current, Live
  <2> QED BY <1>2, <2>1, <2>2, <2>3
<1>4. exp' \in [Token -> Nat] /\ cur' \in [User -> Token \cup {NoToken}] /\ curExp' \in [User -> Nat]
  BY <1>1, <1>2
<1>5. Paired'
  BY <1>1, <1>2, <1>3, <1>4 DEF Paired, Live
<1>6. CurrentNamed' /\ TombstoneBounded'
  BY <1>1, <1>2 DEF CurrentNamed, TombstoneBounded
<1>7. SupersededBlocked'
  BY <1>1, <1>2 DEF SupersededBlocked, TombstoneBounded
<1>8. SupersededStaysDead' /\ UsedOnce'
  BY <1>1, <1>2, <1>3 DEF SupersededStaysDead, UsedOnce, Live
<1>9. InHand'
  <2>1. \A x \in saved : exp[x] <= now => exp'[x] <= now
    BY <1>1, <1>2
  <2>2. Idle.pc = "idle" /\ Idle.tok = NoToken  BY JobFields
  <2>3. \A q \in Req : q # r => job'[q] = job[q] /\ job[q].tok # t
    BY <1>1, <1>2 DEF InHand
  <2>4. \A q \in Req : q # r =>
          /\ job[q].pc = "save" => job[q].tok \in Token \ saved'
          /\ job[q].pc = "restore" => job[q].tok # NoToken
          /\ Held(q) => job[q].tok \in saved' \ used' /\ exp'[job[q].tok] <= now
    BY <1>1, <1>2, <2>1, <2>3 DEF InHand, Held, Live
  <2>5. job'[r] = Idle  BY <1>2
  <2> QED
    BY <1>2, <2>2, <2>3, <2>4, <2>5, <1>4 DEF InHand, Held, Holding, Live
<1> QED BY <1>1, <1>2, <1>4, <1>5, <1>6, <1>7, <1>8, <1>9, JobShapes

\* The consume script: the token was current, so it was not superseded.
LEMMA ConsumeStep ==
  ASSUME Tokens, NEW r \in Req, NEW t \in Token, Consume(r, t)
  PROVE  Tokens'
<1> USE DEF Tokens, tokenVars
<1> DEFINE u == Owner[t]
           j == At("sessions", t, {u})
<1>1. /\ Live(t) /\ u \in User
      /\ exp' = [exp EXCEPT ![t] = 0]
      /\ curExp' = [curExp EXCEPT ![u] = 0]
      /\ con' = [con EXCEPT ![u] = t]
      /\ conExp' = [conExp EXCEPT ![u] = now + TTL]
      /\ job' = [job EXCEPT ![r] = j]
      /\ UNCHANGED <<now, cur, saved, superseded, used>>
  BY DEF Consume, Goto
<1>2. j \in Job /\ j.pc = "sessions" /\ j.tok = t
  BY <1>1, JobShapes, JobFields DEF PC, Holding, Revoking
<1>3. t \in saved \ (superseded \cup used) /\ t # NoToken /\ cur[u] = t
  BY <1>1 DEF Paired, SupersededStaysDead, UsedOnce, Live
<1>4. \A x \in Token : Live(x) /\ Owner[x] = u => x = t
  BY <1>3 DEF Paired
<1> HIDE DEF j
<1>5. Paired'
  BY <1>1, <1>4 DEF Paired, Live
<1>6. CurrentNamed' /\ TombstoneBounded'
  BY <1>1 DEF CurrentNamed, TombstoneBounded
<1>7. SupersededBlocked'
  <2> SUFFICES ASSUME NEW x \in superseded, con'[Owner[x]] = x
               PROVE  cur'[Owner[x]] # x /\ conExp'[Owner[x]] <= curExp'[Owner[x]]
    BY <1>1 DEF SupersededBlocked
  <2>1. x \in Token /\ Owner[x] \in User  OBVIOUS
  <2>2. Owner[x] # u  BY <1>1, <1>3, <2>1
  <2> QED BY <1>1, <2>1, <2>2 DEF SupersededBlocked
<1>8. SupersededStaysDead' /\ UsedOnce'
  BY <1>1 DEF SupersededStaysDead, UsedOnce, Live
<1>9. InHand'
  <2>1. \A q \in Req : job[q].tok # t \/ job[q].pc = "idle"
    <3>1. \A q \in Req : job[q].pc \in PC  BY DEF Job
    <3> QED BY <1>1, <1>3, <3>1 DEF InHand, Held, Holding, PC
  <2>2. \A q \in Req : job[q].pc = "idle" => job[q].tok = NoToken
    BY DEF InHand
  <2> QED
    BY <1>1, <1>2, <1>3, <2>1, <2>2 DEF InHand, Held, Live, Holding
<1> QED BY <1>1, <1>2, <1>5, <1>6, <1>7, <1>8, <1>9

\* The password is committed: the request gives up its token, now used.
LEMMA CommitStep ==
  ASSUME Tokens, NEW r \in Req, CommitPassword(r)
  PROVE  Tokens'
<1> USE DEF Tokens, tokenVars
<1>1. /\ job' = [job EXCEPT ![r] = Idle] /\ UNCHANGED <<now, tokenVars>>
      /\ used' = used \cup ({job[r].tok} \ {NoToken})
      /\ job[r].pc = "commit"
  BY DEF CommitPassword, Finish, Goto
<1>2. job[r].tok # NoToken => job[r].tok \in saved /\ ~Live(job[r].tok)
  BY <1>1 DEF InHand, Held, Holding
<1>3. Paired' /\ CurrentNamed' /\ TombstoneBounded' /\ SupersededBlocked' /\ SupersededStaysDead'
  BY <1>1 DEF Paired, CurrentNamed, TombstoneBounded, SupersededBlocked, SupersededStaysDead, Live
<1>4. UsedOnce'
  BY <1>1, <1>2 DEF UsedOnce, Live
<1>5. InHand'
  BY <1>1, JobFields DEF InHand, Held, Live, Holding
<1> QED BY <1>1, <1>2, <1>3, <1>4, <1>5, JobShapes

\* The restore script: a superseded token finds the newer one current as long
\* as its tombstone lives, and a usable token would be current as well.
LEMMA RestoreStep ==
  ASSUME Tokens, NEW r \in Req, Restore(r)
  PROVE  Tokens'
<1> USE DEF Tokens, tokenVars
<1> DEFINE t == job[r].tok
           u == Owner[t]
<1>1. t \in saved \ used /\ u \in User /\ job[r].pc = "restore"
  BY DEF Restore, InHand, Held, Holding
<1>2. job' = [job EXCEPT ![r] = Idle] /\ UNCHANGED <<now, con, conExp, saved, superseded, used>>
  BY DEF Restore, Finish, Goto
<1>3. CASE Consumed(u) = t /\ Current(u) = NoToken /\ ~Live(t)
  <2>1. /\ exp' = [exp EXCEPT ![t] = now + TTL]
        /\ cur' = [cur EXCEPT ![u] = t]
        /\ curExp' = [curExp EXCEPT ![u] = now + TTL]
    BY <1>3 DEF Restore
  <2>2. con[u] = t /\ conExp[u] > now  BY <1>1, <1>3 DEF Consumed
  <2>3. curExp[u] <= now
    BY <1>1, <1>3 DEF Current, CurrentNamed
  <2>4. t \notin superseded  BY <1>1, <2>2, <2>3 DEF SupersededBlocked
  <2>5. \A x \in Token : Live(x) => Owner[x] # u
    BY <1>1, <2>3 DEF Paired, Live
  <2>6. Paired'
    BY <1>1, <1>2, <2>1, <2>5 DEF Paired, Live
  <2>7. CurrentNamed' /\ TombstoneBounded'
    BY <1>1, <1>2, <2>1 DEF CurrentNamed, TombstoneBounded
  <2>8. SupersededBlocked'
    <3> SUFFICES ASSUME NEW x \in superseded, con[Owner[x]] = x
                 PROVE  cur'[Owner[x]] # x /\ conExp[Owner[x]] <= curExp'[Owner[x]]
      BY <1>2 DEF SupersededBlocked
    <3>1. x \in Token /\ Owner[x] \in User  OBVIOUS
    <3>2. Owner[x] # u  BY <2>2, <2>4, <3>1
    <3> QED BY <1>1, <2>1, <3>1, <3>2 DEF SupersededBlocked
  <2>9. SupersededStaysDead' /\ UsedOnce'
    BY <1>1, <1>2, <2>1, <2>4 DEF SupersededStaysDead, UsedOnce, Live
  <2>10. InHand'
    <3>1. \A q \in Req : q # r => job'[q] = job[q] /\ job[q].tok # t
      BY <1>1, <1>2 DEF InHand
    <3>2. \A x \in Token : x # t => exp'[x] = exp[x]  BY <2>1
    <3> QED
      BY <1>1, <1>2, <2>1, <3>1, <3>2, JobFields DEF InHand, Held, Live, Holding
  <2> QED BY <1>1, <1>2, <2>1, <2>6, <2>7, <2>8, <2>9, <2>10, JobShapes
<1>4. CASE ~(Consumed(u) = t /\ Current(u) = NoToken /\ ~Live(t))
  <2>1. UNCHANGED <<now, tokenVars, used>>  BY <1>2, <1>4 DEF Restore
  <2>2. Idle \in Job /\ Idle.pc = "idle" /\ Idle.tok = NoToken  BY JobShapes, JobFields
  <2> QED BY <1>2, <2>1, <2>2, QuietStep DEF Goto
<1> QED BY <1>3, <1>4

\* As time passes keys only expire.
LEMMA TickStep ==
  ASSUME Tokens, Tick
  PROVE  Tokens'
<1> USE DEF Tokens, tokenVars
<1>1. now' = now + 1 /\ UNCHANGED <<tokenVars, job, used>>  BY DEF Tick
<1>2. \A x \in Token : exp[x] > now + 1 => exp[x] > now  OBVIOUS
<1>3. Paired' /\ CurrentNamed' /\ TombstoneBounded' /\ SupersededBlocked'
  BY <1>1, <1>2 DEF Paired, CurrentNamed, TombstoneBounded, SupersededBlocked, Live
<1>4. SupersededStaysDead' /\ UsedOnce'
  BY <1>1, <1>2 DEF SupersededStaysDead, UsedOnce, Live
<1>5. \A x \in Token : ~Live(x) => ~(exp[x] > now + 1)  BY <1>2 DEF Live
<1>6. InHand'
  BY <1>1, <1>5 DEF InHand, Held, Live
<1> QED BY <1>1, <1>3, <1>4, <1>6

\* A step of a request that leaves the tokens alone.
LEMMA PassingStep ==
  ASSUME Tokens, NEW r \in Req,
         \/ SaveRefused(r) \/ SessionMembers(r) \/ DeleteAllSessions(r)
         \/ RefreshMembers(r) \/ RevokeAllRefreshTokens(r)
         \/ StepFails(r) \/ CommitReplyLost(r) \/ RequestDies(r)
  PROVE  Tokens'
<1>1. Idle \in Job /\ Idle.pc = "idle" /\ Idle.tok = NoToken  BY JobShapes, JobFields
<1>2. ASSUME NEW l \in Holding
      PROVE  /\ At(l, job[r].tok, job[r].users) \in Job
             /\ At(l, job[r].tok, job[r].users).pc = l
             /\ At(l, job[r].tok, job[r].users).tok = job[r].tok
  <2>1. job[r].tok \in Token \cup {NoToken} /\ job[r].users \in SUBSET User  BY DEF Tokens, Job
  <2>2. l \in PC  BY DEF PC
  <2>3. At(l, job[r].tok, job[r].users) \in Job  BY <2>1, <2>2, JobShapes
  <2> QED BY <2>3, JobFields
<1>3. CASE Finish(r) /\ UNCHANGED <<now, tokenVars, used>>
  BY <1>1, <1>3, QuietStep DEF Finish
<1>4. ASSUME NEW l \in Holding, Advance(r, l), UNCHANGED <<now, tokenVars, used>>,
             job[r].pc \in Holding, l = "restore" => job[r].tok # NoToken
      PROVE  Tokens'
  BY <1>2, <1>4, QuietStep DEF Advance
<1>5. CASE SessionMembers(r) \/ DeleteAllSessions(r)
  BY <1>4, <1>5 DEF SessionMembers, DeleteAllSessions, Holding, Revoking
<1>6. CASE RefreshMembers(r) \/ RevokeAllRefreshTokens(r)
  BY <1>4, <1>6 DEF RefreshMembers, RevokeAllRefreshTokens, Holding, Revoking
<1>7. CASE StepFails(r)
  BY <1>3, <1>4, <1>7 DEF StepFails, GiveBack, Holding, Revoking
<1>8. CASE CommitReplyLost(r)
  BY <1>3, <1>4, <1>8 DEF CommitReplyLost, GiveBack, Holding
<1> QED BY <1>3, <1>5, <1>6, <1>7, <1>8 DEF SaveRefused, RequestDies

\* What happens to the credentials outside the requests.
LoginStep ==
  \/ \E c \in Cred : LoginChecks(c) \/ LoginStores(c)
  \/ \E c, n \in Cred : Refresh(c, n)
  \/ StoreMoves

\* It leaves tokens, requests and passwords alone.
LEMMA LoginStore ==
  ASSUME LoginTypeOK, LoginStep
  PROVE  StoreStep /\ LoginTypeOK' /\ UNCHANGED <<now, tokenVars, job, pw, used>>
<1>1. ASSUME NEW c \in Cred, LoginChecks(c)
      PROVE  StoreStep /\ made' \in [Cred -> Nat] /\ UNCHANGED <<now, tokenVars, job, pw, used>>
  <2>1. pw[UserOf[c]] \in Nat
    BY UserOfAssumption DEF LoginTypeOK
  <2> QED BY <1>1, <2>1 DEF LoginChecks, StoreStep, LoginTypeOK
<1>2. ASSUME NEW c \in Cred, LoginStores(c)
      PROVE  StoreStep /\ made' \in [Cred -> Nat] /\ UNCHANGED <<now, tokenVars, job, pw, used>>
  <2> DEFINE l == \/ made[c] # pw[UserOf[c]]
                  \/ \E r \in Req : Swung(r) /\ UserOf[c] \in job[r].users
  <2>1. l \in BOOLEAN /\ StoreCredential(c, l)
    BY <1>2 DEF LoginStores
  <2> HIDE DEF l
  <2>2. StoreStep
    BY <2>1 DEF StoreStep
  <2> QED BY <1>2, <2>2 DEF LoginStores, LoginTypeOK
<1>3. ASSUME NEW c \in Cred, NEW n \in Cred, Refresh(c, n)
      PROVE  StoreStep /\ made' \in [Cred -> Nat] /\ UNCHANGED <<now, tokenVars, job, pw, used>>
  BY <1>3 DEF Refresh, StoreStep, LoginTypeOK
<1>4. ASSUME StoreMoves
      PROVE  StoreStep /\ made' \in [Cred -> Nat] /\ UNCHANGED <<now, tokenVars, job, pw, used>>
  <2>1. ASSUME NEW u \in User, IndexExpires(u) PROVE StoreStep
    BY <2>1 DEF StoreStep
  <2>2. ASSUME NEW c \in Cred, CredentialEnds(c) PROVE StoreStep
    BY <2>2 DEF StoreStep
  <2>3. StoreStep  BY <1>4, <2>1, <2>2 DEF StoreMoves
  <2> QED BY <1>4, <2>3 DEF StoreMoves, LoginTypeOK
<1>5. StoreStep /\ made' \in [Cred -> Nat] /\ UNCHANGED <<now, tokenVars, job, pw, used>>
  BY <1>1, <1>2, <1>3, <1>4 DEF LoginStep, LoginTypeOK
<1> QED BY <1>5, StoreTypeOK DEF LoginTypeOK

\* A step outside the requests: the clock, the credentials, or stuttering.
LEMMA OtherStep ==
  ASSUME IInv, Tick \/ LoginStep \/ UNCHANGED vars
  PROVE  IInv'
<1>1. Tokens /\ LoginTypeOK  BY Split
<1>2. ASSUME UNCHANGED <<now, tokenVars, job, used>> PROVE Tokens'
  BY <1>1, <1>2 DEF Tokens, tokenVars, Paired, CurrentNamed, TombstoneBounded, SupersededBlocked,
      SupersededStaysDead, InHand, UsedOnce, Held, Live
<1>3. CASE Tick
  <2>1. LoginTypeOK'
    BY <1>1, <1>3, StoreTypeOK DEF Tick, LoginTypeOK, loginVars, StoreStep
  <2> QED BY <1>1, <1>3, <2>1, TickStep, Split, PTL
<1>4. CASE LoginStep
  <2>1. LoginTypeOK' /\ UNCHANGED <<now, tokenVars, job, used>>
    BY <1>1, <1>4, LoginStore
  <2>2. Tokens'
    BY <1>2, <2>1
  <2> QED BY <2>1, <2>2, Split, PTL
<1>6. CASE UNCHANGED vars
  <2>1. LoginTypeOK'
    BY <1>1, <1>6, StoreTypeOK DEF vars, LoginTypeOK, StoreStep
  <2>2. Tokens'  BY <1>2, <1>6 DEF vars, tokenVars
  <2> QED BY <2>1, <2>2, Split, PTL
<1> QED BY <1>3, <1>4, <1>6

\* Every step preserves the inductive invariant.
LEMMA NextIInv == IInv /\ [Next]_vars => IInv'
<1> SUFFICES ASSUME IInv, [Next]_vars PROVE IInv'
  OBVIOUS
<1>1. ASSUME NEW r \in Req, RequestStep(r) PROVE IInv'
  <2>1. Tokens /\ TypeOK  BY Split DEF IInv
  <2>2. LoginTypeOK'  BY <1>1, <2>1, LoginTypes
  <2>3. Tokens'
    BY <1>1, <2>1, ForgotStep, ConsumeStep, ChangeStep, SaveStep, PassingStep, CommitStep,
       RestoreStep
    DEF RequestStep
  <2> QED BY <2>2, <2>3, Split, PTL
<1> QED BY <1>1, OtherStep DEF Next, LoginStep

\* The inductive invariant holds in every reachable state.
THEOREM Invariance == Spec => []IInv
BY InitIInv, NextIInv, PTL DEF Spec

\* Every variable keeps its type, whatever requests run together.
THEOREM TypeCorrect == Spec => []TypeOK
<1>1. IInv => TypeOK  BY DEF IInv
<1> QED BY <1>1, Invariance, PTL

\* At most one token of a user can reset the password: two live ones would
\* both be the value of pwreset_current.
THEOREM SingleToken == Spec => []OneTokenPerUser
<1>1. IInv => OneTokenPerUser  BY DEF IInv, Paired, OneTokenPerUser
<1> QED BY <1>1, Invariance, PTL

\* A token followed by a newer one never works again, whatever the restore
\* script meets.
THEOREM SupersededSafety == Spec => []SupersededStaysDead
<1>1. IInv => SupersededStaysDead  BY DEF IInv
<1> QED BY <1>1, Invariance, PTL

\* A token whose reset was answered with success never works again.
THEOREM OneUse == Spec => []UsedOnce
<1>1. IInv => UsedOnce  BY DEF IInv
<1> QED BY <1>1, Invariance, PTL
-----------------------------------------------------------------------------
(***************************************************************************)
(* Credentials: none outlives the password it was obtained with, but those *)
(* that escaped.                                                           *)
(***************************************************************************)
\* Every step of the store keeps the sweeps complete.
LEMMA StoreSweepInv ==
  ASSUME SweepInv, StoreStep
  PROVE  SweepInv'
<1>0. CredTypeOK'
  BY StoreTypeOK DEF SweepInv
<1> USE <1>0 DEF SweepInv
<1>1. ASSUME NEW c \in Cred, BeginLogin(c) \/ CredentialEnds(c) PROVE SweepInv'
  BY <1>1 DEF BeginLogin, CredentialEnds
<1>2. ASSUME NEW c \in Cred, NEW tooLate \in BOOLEAN, StoreCredential(c, tooLate)
      PROVE  SweepInv'
  BY <1>2 DEF StoreCredential, Swept
<1>3. ASSUME NEW c \in Cred, NEW n \in Cred, RotateCredential(c, n) PROVE SweepInv'
  BY <1>3 DEF RotateCredential, Swept
<1>4. ASSUME NEW u \in User, IndexExpires(u) PROVE SweepInv'
  BY <1>4 DEF IndexExpires, Of, CredTypeOK
<1>5. ASSUME NEW r \in Req, NEW us \in SUBSET User, NEW m \in {"session", "jwt"},
             ReadMembers(r, us, m)
      PROVE  SweepInv'
  <2>1. UNCHANGED <<mode, stored, indexed, escaped>> /\ stored \subseteq Cred
    BY <1>5 DEF ReadMembers, CredTypeOK
  <2>2. ASSUME NEW q \in Req, NEW c \in stored, UserOf[c] \in sweep'[q].users
        PROVE  c \in sweep'[q].creds \cup escaped
    <3>1. CASE q # r
      BY <1>5, <2>2, <3>1 DEF ReadMembers, CredTypeOK
    <3>2. CASE q = r
      BY <1>5, <2>1, <2>2, <3>2 DEF ReadMembers, CredTypeOK, NoSweep, Of
    <3> QED BY <3>1, <3>2
  <2> QED BY <2>1, <2>2
<1>6. ASSUME NEW r \in Req, DeleteMembers(r) PROVE SweepInv'
  <2>1. stored \subseteq Cred /\ stored' \subseteq stored
    BY <1>6 DEF DeleteMembers, CredTypeOK
  <2>2. ASSUME NEW c \in stored' PROVE c \in indexed' \cup escaped'
    BY <1>6, <2>1, <2>2 DEF DeleteMembers, Of
  <2>3. ASSUME NEW q \in Req, NEW c \in stored', UserOf[c] \in sweep'[q].users
        PROVE  c \in sweep'[q].creds \cup escaped'
    BY <1>6, <2>1, <2>3 DEF DeleteMembers, CredTypeOK, NoSweep
  <2> QED BY <2>2, <2>3
<1>7. ASSUME NEW r \in Req, AbandonSweep(r) PROVE SweepInv'
  BY <1>7 DEF AbandonSweep, CredTypeOK, NoSweep
<1>8. CASE UNCHANGED credVars
  BY <1>8 DEF credVars
<1> QED BY <1>1, <1>2, <1>3, <1>4, <1>5, <1>6, <1>7, <1>8 DEF StoreStep

\* Request r is between SMEMBERS and the pipeline of the mode in use.
Sweeping(r) ==
  \/ mode = "session" /\ job[r].pc = "delete_sessions"
  \/ mode = "jwt" /\ job[r].pc = "delete_refresh"

\* From the pipeline to the commit nothing is stored for the user but what
\* escaped.
SwungClean ==
  \A r \in Req, c \in stored : Swung(r) /\ UserOf[c] \in job[r].users => c \in escaped

OldInv ==
  /\ SweepInv
  /\ \A r \in Req : Sweeping(r) => job[r].users \subseteq sweep[r].users
  /\ SwungClean
  /\ OldPasswordEnds

\* Nothing is stored at first.
LEMMA InitOldInv == Init => OldInv
<1> SUFFICES ASSUME Init PROVE OldInv
  OBVIOUS
<1>1. SweepInv
  BY DEF Init, CredInit, SweepInv, CredTypeOK, NoSweep
<1>2. \A r \in Req : job[r].pc = "idle"
  BY JobFields DEF Init
<1> QED
  BY <1>1, <1>2 DEF Init, CredInit, OldInv, Sweeping, SwungClean, OldPasswordEnds

\* A step of a request that at most deletes: what remains was there before.
LEMMA SweepOldInv ==
  ASSUME OldInv, NEW r \in Req, NEW j \in Job, Goto(r, j), job \in [Req -> Job], SweepInv',
         \A q \in Req : q # r => sweep'[q] = sweep[q],
         mode' = mode, made' = made, pw' = pw,
         stored' \subseteq stored, escaped' = escaped \cap stored',
         Sweeping(r)' => j.users \subseteq sweep'[r].users,
         Swung(r)' => \A c \in stored' : UserOf[c] \in j.users => c \in escaped
  PROVE  OldInv'
<1>1. job'[r] = j /\ \A q \in Req : q # r => job'[q] = job[q]
  BY DEF Goto
<1>2. \A q \in Req : q # r => (Sweeping(q)' <=> Sweeping(q)) /\ (Swung(q)' <=> Swung(q))
  BY <1>1 DEF Sweeping, Swung
<1>3. \A q \in Req : Sweeping(q)' => job'[q].users \subseteq sweep'[q].users
  BY <1>1, <1>2 DEF OldInv
<1>4. SwungClean'
  BY <1>1, <1>2 DEF OldInv, SwungClean
<1>5. OldPasswordEnds'
  BY DEF OldInv, OldPasswordEnds
<1> QED BY <1>3, <1>4, <1>5 DEF OldInv

\* A request that starts, ends or turns to its restore neither sweeps nor has
\* swept.
LEMMA QuietShapes ==
  ASSUME job \in [Req -> Job], NEW r \in Req, NEW j, Goto(r, j),
         j.pc \in {"idle", "save", "sessions", "restore"}
  PROVE  ~Sweeping(r)' /\ ~Swung(r)'
<1>1. job'[r] = j
  BY DEF Goto
<1> QED BY <1>1 DEF Sweeping, Swung

\* The steps of a request outside its sweeps and its commit.
LEMMA QuietRequests ==
  ASSUME IInv, OldInv, NEW r \in Req,
         \/ \E t \in Token : ForgotGet(r, t) \/ Consume(r, t)
         \/ \E u \in User : ChangePassword(r, u)
         \/ Save(r) \/ SaveRefused(r) \/ StepFails(r) \/ Restore(r) \/ RequestDies(r)
  PROVE  OldInv'
<1>0. TypeOK /\ job \in [Req -> Job]
  BY DEF IInv, TypeOK
<1>1. PICK j \in Job : Goto(r, j) /\ j.pc \in {"idle", "save", "sessions", "restore"}
  <2>0. Idle \in Job /\ Idle.pc = "idle"
    BY JobShapes, JobFields
  <2>1. ASSUME NEW t \in Token, ForgotGet(r, t)
        PROVE  \E j \in Job : Goto(r, j) /\ j.pc \in {"idle", "save", "sessions", "restore"}
    <3>1. Current(Owner[t]) \in Token \cup {NoToken}
      BY <1>0 DEF Current, TypeOK
    <3> QED BY <2>1, <3>1, JobShapes, JobFields DEF ForgotGet
  <2>2. ASSUME NEW t \in Token \cup {NoToken}, NEW us \in SUBSET User, NEW l \in {"sessions", "restore"},
               Goto(r, At(l, t, us))
        PROVE  \E j \in Job : Goto(r, j) /\ j.pc \in {"idle", "save", "sessions", "restore"}
    BY <2>2, JobShapes, JobFields DEF PC, Holding, Revoking
  <2>3. ASSUME NEW t \in Token, Consume(r, t)
        PROVE  \E j \in Job : Goto(r, j) /\ j.pc \in {"idle", "save", "sessions", "restore"}
    BY <2>2, <2>3 DEF Consume
  <2>4. ASSUME NEW u \in User, ChangePassword(r, u)
        PROVE  \E j \in Job : Goto(r, j) /\ j.pc \in {"idle", "save", "sessions", "restore"}
    BY <2>2, <2>4 DEF ChangePassword
  <2>5. CASE Finish(r)
    BY <2>0, <2>5 DEF Finish
  <2>6. CASE StepFails(r)
    <3>1. job[r].tok \in Token \cup {NoToken} /\ job[r].users \in SUBSET User
      BY <1>0 DEF Job
    <3> QED BY <2>2, <2>5, <2>6, <3>1 DEF StepFails, GiveBack, Advance
  <2> QED BY <2>1, <2>3, <2>4, <2>5, <2>6 DEF Save, SaveRefused, Restore, RequestDies
<1>2. SweepInv'
  BY <1>0, RequestStore, StoreSweepInv DEF RequestStep, OldInv
<1>3. UNCHANGED credVars \/ AbandonSweep(r) \/ DeleteMembers(r)
  BY DEF ForgotGet, Consume, ChangePassword, Save, SaveRefused, StepFails, Restore,
         RequestDies, loginVars
<1>4. pw' = pw /\ made' = made
  BY DEF ForgotGet, Consume, ChangePassword, Save, SaveRefused, StepFails, Restore,
         RequestDies, loginVars
<1>5. /\ mode' = mode /\ stored' \subseteq stored /\ escaped' = escaped \cap stored'
      /\ \A q \in Req : q # r => sweep'[q] = sweep[q]
  BY <1>3 DEF credVars, AbandonSweep, DeleteMembers, OldInv, SweepInv, CredTypeOK
<1> QED BY <1>0, <1>1, <1>2, <1>4, <1>5, QuietShapes, SweepOldInv

\* The two calls of each revocation.
LEMMA RevocationOldInv ==
  ASSUME IInv, OldInv, NEW r \in Req,
         \/ SessionMembers(r) \/ DeleteAllSessions(r)
         \/ RefreshMembers(r) \/ RevokeAllRefreshTokens(r)
  PROVE  OldInv'
<1>0. TypeOK /\ job \in [Req -> Job] /\ sweep \in [Req -> [users : SUBSET User, creds : SUBSET Cred]]
  BY DEF IInv, TypeOK, CredTypeOK
<1> DEFINE us == job[r].users
<1>1. PICK j \in Job : Goto(r, j) /\ j.users = us
                       /\ (SessionMembers(r) => j.pc = "delete_sessions")
                       /\ (DeleteAllSessions(r) => j.pc = "refresh")
                       /\ (RefreshMembers(r) => j.pc = "delete_refresh")
                       /\ (RevokeAllRefreshTokens(r) => j.pc = "commit")
  <2>1. job[r].tok \in Token \cup {NoToken} /\ us \in SUBSET User
    BY <1>0 DEF Job
  <2>2. \A l \in Holding : /\ At(l, job[r].tok, us) \in Job
                           /\ At(l, job[r].tok, us).pc = l /\ At(l, job[r].tok, us).users = us
    BY <2>1, JobShapes DEF PC, At
  <2>3. Holding = {"sessions", "delete_sessions", "refresh", "delete_refresh", "commit", "restore"}
    BY DEF Holding, Revoking
  <2>4. CASE SessionMembers(r)
    BY <2>2, <2>3, <2>4
    DEF SessionMembers, DeleteAllSessions, RefreshMembers, RevokeAllRefreshTokens, Advance
  <2>5. CASE DeleteAllSessions(r)
    BY <2>2, <2>3, <2>5
    DEF SessionMembers, DeleteAllSessions, RefreshMembers, RevokeAllRefreshTokens, Advance
  <2>6. CASE RefreshMembers(r)
    BY <2>2, <2>3, <2>6
    DEF SessionMembers, DeleteAllSessions, RefreshMembers, RevokeAllRefreshTokens, Advance
  <2>7. CASE RevokeAllRefreshTokens(r)
    BY <2>2, <2>3, <2>7
    DEF SessionMembers, DeleteAllSessions, RefreshMembers, RevokeAllRefreshTokens, Advance
  <2> QED BY <2>4, <2>5, <2>6, <2>7
<1>2. SweepInv'
  BY <1>0, RequestStore, StoreSweepInv DEF RequestStep, OldInv
<1>3. /\ mode' = mode /\ stored' \subseteq stored /\ escaped' = escaped \cap stored'
      /\ \A q \in Req : q # r => sweep'[q] = sweep[q]
      /\ pw' = pw /\ made' = made
  BY DEF SessionMembers, DeleteAllSessions, RefreshMembers, RevokeAllRefreshTokens,
         ReadMembers, DeleteMembers, OldInv, SweepInv, CredTypeOK
<1>4. job'[r] = j
  BY <1>0, <1>1 DEF Goto
<1>5. Sweeping(r)' => j.users \subseteq sweep'[r].users
  BY <1>0, <1>1, <1>3, <1>4
  DEF SessionMembers, DeleteAllSessions, RefreshMembers, RevokeAllRefreshTokens,
      ReadMembers, Sweeping
\* The pipeline that matters leaves nothing of its users but escaped.
<1>6. ASSUME Sweeping(r), DeleteMembers(r), NEW c \in stored', UserOf[c] \in us
      PROVE  c \in escaped
  BY <1>6 DEF DeleteMembers, OldInv, SweepInv
<1>7. Swung(r)' => \A c \in stored' : UserOf[c] \in j.users => c \in escaped
  <2>1. SUFFICES ASSUME Swung(r)', NEW c \in stored', UserOf[c] \in us PROVE c \in escaped
    BY <1>1
  <2>2. CASE Swung(r)
    BY <1>3, <2>1, <2>2 DEF OldInv, SwungClean
  <2>3. CASE ~Swung(r)
    <3>1. Sweeping(r) /\ DeleteMembers(r)
      BY <1>1, <1>3, <1>4, <2>1, <2>3
      DEF SessionMembers, DeleteAllSessions, RefreshMembers, RevokeAllRefreshTokens,
          Swung, Sweeping
    <3> QED BY <1>6, <2>1, <3>1
  <2> QED BY <2>2, <2>3
<1> QED BY <1>0, <1>1, <1>2, <1>3, <1>5, <1>7, SweepOldInv

\* The commit changes the password of nobody but the users that were swept.
LEMMA CommitOldInv ==
  ASSUME IInv, OldInv, NEW r \in Req, CommitPassword(r) \/ CommitReplyLost(r)
  PROVE  OldInv'
<1>0. TypeOK /\ job \in [Req -> Job] /\ stored \subseteq Cred /\ mode \in {"session", "jwt"}
  BY DEF IInv, TypeOK, CredTypeOK
<1>1. /\ job[r].pc = "commit" /\ NewPassword(r) /\ UNCHANGED <<made, credVars>>
  BY DEF CommitPassword, CommitReplyLost
<1>2. PICK j : Goto(r, j) /\ j.pc \in {"idle", "restore"}
  BY JobFields DEF CommitPassword, CommitReplyLost, GiveBack, Advance, Finish
<1>3. job'[r] = j /\ \A q \in Req : q # r => job'[q] = job[q]
  BY <1>0, <1>2 DEF Goto
<1>4. SweepInv'
  BY <1>1, StoreSweepInv DEF StoreStep, OldInv
<1>5. \A q \in Req : Sweeping(q)' => job'[q].users \subseteq sweep'[q].users
  BY <1>1, <1>2, <1>3 DEF OldInv, Sweeping, credVars
<1>6. SwungClean'
  BY <1>1, <1>2, <1>3 DEF OldInv, SwungClean, Swung, credVars
<1>7. OldPasswordEnds'
  <2> SUFFICES ASSUME NEW c \in stored \ escaped PROVE made[c] = pw'[UserOf[c]]
    BY <1>1 DEF OldPasswordEnds, credVars
  <2>1. UserOf[c] \notin job[r].users
    BY <1>0, <1>1 DEF OldInv, SwungClean, Swung
  <2>2. UserOf[c] \in User
    BY <1>0, UserOfAssumption
  <2> QED BY <1>1, <2>1, <2>2 DEF OldInv, OldPasswordEnds, NewPassword
<1> QED BY <1>4, <1>5, <1>6, <1>7 DEF OldInv

\* A login that stores too late escapes, a new token goes with the old one.
LEMMA LoginOldInv ==
  ASSUME IInv, OldInv, LoginStep
  PROVE  OldInv'
<1>0. LoginTypeOK /\ made \in [Cred -> Nat] /\ escaped \subseteq stored /\ stored \subseteq Cred
  BY Split DEF LoginTypeOK, CredTypeOK
<1>1. StoreStep /\ job' = job /\ pw' = pw
  BY <1>0, LoginStore
<1>2. SweepInv'
  BY <1>1, StoreSweepInv DEF OldInv
<1>3. mode' = mode /\ sweep' = sweep
  BY DEF LoginStep, LoginChecks, LoginStores, Refresh, StoreMoves, BeginLogin, StoreCredential,
         RotateCredential, IndexExpires, CredentialEnds
<1>4. ASSUME NEW c \in stored', c \notin escaped'
      PROVE  /\ made'[c] = pw[UserOf[c]]
             /\ \A r \in Req : ~(Swung(r) /\ UserOf[c] \in job[r].users)
  <2> USE DEF OldInv, SwungClean, OldPasswordEnds
  <2>1. ASSUME NEW d \in Cred, LoginChecks(d)
        PROVE  /\ made'[c] = pw[UserOf[c]]
               /\ \A r \in Req : ~(Swung(r) /\ UserOf[c] \in job[r].users)
    <3>1. c \in stored \ escaped /\ c # d /\ made'[c] = made[c]
      BY <1>0, <1>4, <2>1 DEF LoginChecks, BeginLogin, Unknown
    <3> QED BY <3>1
  <2>2. ASSUME NEW d \in Cred, LoginStores(d)
        PROVE  /\ made'[c] = pw[UserOf[c]]
               /\ \A r \in Req : ~(Swung(r) /\ UserOf[c] \in job[r].users)
    <3>1. made' = made
      BY <2>2 DEF LoginStores
    <3>2. CASE c = d
      BY <1>4, <2>2, <3>1, <3>2 DEF LoginStores, StoreCredential
    <3>3. CASE c # d
      <4>1. c \in stored \ escaped
        BY <1>4, <2>2, <3>3 DEF LoginStores, StoreCredential
      <4> QED BY <3>1, <4>1
    <3> QED BY <3>2, <3>3
  <2>3. ASSUME NEW d \in Cred, NEW n \in Cred, Refresh(d, n)
        PROVE  /\ made'[c] = pw[UserOf[c]]
               /\ \A r \in Req : ~(Swung(r) /\ UserOf[c] \in job[r].users)
    <3>1. /\ made' = [made EXCEPT ![n] = made[d]] /\ d \in stored /\ UserOf[n] = UserOf[d]
          /\ stored' = (stored \ {d}) \cup {n} /\ n \notin stored
          /\ escaped \ {d} \subseteq escaped'
          /\ d \in escaped => n \in escaped'
      BY <2>3 DEF Refresh, RotateCredential, Unknown
    <3>2. CASE c = n
      <4>1. d \in stored \ escaped /\ made'[c] = made[d]
        BY <1>0, <1>4, <3>1, <3>2
      <4> QED BY <3>1, <3>2, <4>1
    <3>3. CASE c # n
      <4>1. c \in stored \ escaped /\ made'[c] = made[c]
        BY <1>0, <1>4, <3>1, <3>3
      <4> QED BY <4>1
    <3> QED BY <3>2, <3>3
  <2>4. CASE StoreMoves
    <3>1. c \in stored \ escaped /\ made' = made
      BY <1>4, <2>4 DEF StoreMoves, IndexExpires, CredentialEnds
    <3> QED BY <3>1
  <2> QED BY <2>1, <2>2, <2>3, <2>4 DEF LoginStep
<1>5. SwungClean' /\ OldPasswordEnds'
  BY <1>1, <1>3, <1>4 DEF SwungClean, Swung, OldPasswordEnds
<1>6. \A r \in Req : Sweeping(r)' => job'[r].users \subseteq sweep'[r].users
  BY <1>1, <1>3 DEF OldInv, Sweeping
<1> QED BY <1>2, <1>5, <1>6 DEF OldInv

\* Every step keeps it.
LEMMA NextOldInv == IInv /\ OldInv /\ [Next]_vars => OldInv'
<1> SUFFICES ASSUME IInv, OldInv, [Next]_vars PROVE OldInv'
  OBVIOUS
<1>1. ASSUME NEW r \in Req, RequestStep(r) PROVE OldInv'
  BY <1>1, QuietRequests, RevocationOldInv, CommitOldInv DEF RequestStep
<1>2. CASE LoginStep
  BY <1>2, LoginOldInv
<1>3. CASE Tick \/ UNCHANGED vars
  <2>1. UNCHANGED <<job, pw, made, credVars>>
    BY <1>3 DEF Tick, vars, loginVars
  <2>2. SweepInv'
    BY <2>1, StoreSweepInv DEF StoreStep, OldInv
  <2> QED
    BY <2>1, <2>2 DEF OldInv, Sweeping, SwungClean, Swung, OldPasswordEnds, credVars
<1> QED BY <1>1, <1>2, <1>3 DEF Next, LoginStep

\* No credential outlives the password it was obtained with, in either
\* AUTH_MODE and over any number of rotations, but those that escaped: stored
\* after the revocation or during it, rotated during it, or out of the index.
THEOREM OldPasswordSafety == Spec => []OldPasswordEnds
<1>1. OldInv => OldPasswordEnds
  BY DEF OldInv
<1> QED BY <1>1, InitOldInv, NextOldInv, Invariance, PTL DEF Spec
-----------------------------------------------------------------------------
(***************************************************************************)
(* The restore script gives a token back.                                  *)
(***************************************************************************)

\* The tombstone names the token a request has consumed, and nothing is
\* current, until a newer token is saved.
HeldIsLast ==
  \A r \in Req : Held(r) /\ job[r].tok \notin superseded =>
    con[Owner[job[r].tok]] = job[r].tok /\ curExp[Owner[job[r].tok]] <= now

\* What a step leaves of the keys of a token that is held and not superseded.
TombKept(r) ==
  LET t == job[r].tok IN
  Held(r) /\ t \notin superseded /\ t \notin superseded' =>
    /\ con'[Owner[t]] = con[Owner[t]]
    /\ curExp'[Owner[t]] = curExp[Owner[t]] \/ curExp'[Owner[t]] <= now'

\* A step after which a request holds what it held before, with its keys.
LEMMA HeldKept ==
  ASSUME Tokens, Tokens', HeldIsLast, superseded \subseteq superseded', now' >= now,
         \A q \in Req : Held(q)' => Held(q) /\ job'[q].tok = job[q].tok /\ TombKept(q)
  PROVE  HeldIsLast'
<1> SUFFICES ASSUME NEW q \in Req, Held(q)', job'[q].tok \notin superseded'
             PROVE  /\ con'[Owner[job'[q].tok]] = job'[q].tok
                    /\ curExp'[Owner[job'[q].tok]] <= now'
  BY DEF HeldIsLast
<1> DEFINE t == job[q].tok
<1>1. Held(q) /\ job'[q].tok = t /\ TombKept(q) /\ t \notin superseded /\ t \notin superseded'
  OBVIOUS
<1>2. t \in Token /\ Owner[t] \in User
  BY <1>1 DEF Tokens, InHand
<1>3. con[Owner[t]] = t /\ curExp[Owner[t]] <= now
  BY <1>1 DEF HeldIsLast
<1>4. con'[Owner[t]] = t /\ (curExp'[Owner[t]] = curExp[Owner[t]] \/ curExp'[Owner[t]] <= now')
  BY <1>1, <1>3 DEF TombKept
<1>5. now \in Nat /\ now' \in Nat /\ curExp[Owner[t]] \in Nat
  BY <1>2 DEF Tokens
<1> QED BY <1>1, <1>3, <1>4, <1>5

\* At the start no request holds a token.
LEMMA InitHeld == Init => HeldIsLast
<1> SUFFICES ASSUME Init PROVE HeldIsLast
  OBVIOUS
<1>1. \A r \in Req : job[r].tok = NoToken
  BY JobFields DEF Init
<1> QED BY <1>1 DEF HeldIsLast, Held

\* A request that goes on keeps its token or lets it go.
LEMMA HeldAfter ==
  ASSUME Tokens, NEW r \in Req, NEW j, Goto(r, j),
         \/ j.pc \notin Holding \/ j.tok = NoToken
         \/ j.tok = job[r].tok /\ job[r].pc \in Holding
  PROVE  \A q \in Req : Held(q)' => Held(q) /\ job'[q].tok = job[q].tok
<1>1. job' = [job EXCEPT ![r] = j] /\ job \in [Req -> Job]
  BY DEF Goto, Tokens
<1>2. job'[r] = j /\ \A q \in Req : q # r => job'[q] = job[q]
  BY <1>1
<1> QED BY <1>2 DEF Held

\* The steps that leave the keys alone.
LEMMA QuietHeld ==
  ASSUME Tokens, Tokens', HeldIsLast, NEW r \in Req,
         \/ \E t \in Token : ForgotGet(r, t)
         \/ \E u \in User : ChangePassword(r, u)
         \/ SaveRefused(r) \/ SessionMembers(r) \/ DeleteAllSessions(r)
         \/ RefreshMembers(r) \/ RevokeAllRefreshTokens(r)
         \/ StepFails(r) \/ CommitPassword(r) \/ CommitReplyLost(r) \/ RequestDies(r)
  PROVE  HeldIsLast'
<1>1. UNCHANGED <<now, tokenVars>>
  BY DEF ForgotGet, ChangePassword, SaveRefused, SessionMembers, DeleteAllSessions,
         RefreshMembers, RevokeAllRefreshTokens, StepFails, CommitPassword, CommitReplyLost, RequestDies
<1>2. PICK j : Goto(r, j) /\ \/ j.pc \notin Holding \/ j.tok = NoToken
                             \/ j.tok = job[r].tok /\ job[r].pc \in Holding
  <2>1. ASSUME NEW t \in Token, ForgotGet(r, t)
        PROVE  \E j : Goto(r, j) /\ j.pc \notin Holding
    BY <2>1, JobFields DEF ForgotGet, Holding, Revoking
  <2>2. ASSUME NEW u \in User, ChangePassword(r, u)
        PROVE  \E j : Goto(r, j) /\ j.tok = NoToken
    BY <2>2, JobFields DEF ChangePassword
  <2>3. CASE Finish(r)
    BY <2>3, JobFields DEF Finish
  <2>4. CASE job[r].pc \in Holding /\ \E l \in Holding : Advance(r, l)
    BY <2>4, JobFields DEF Advance
  <2>5. CASE \/ SessionMembers(r) \/ DeleteAllSessions(r)
             \/ RefreshMembers(r) \/ RevokeAllRefreshTokens(r)
    BY <2>4, <2>5
    DEF SessionMembers, DeleteAllSessions, RefreshMembers, RevokeAllRefreshTokens, Holding, Revoking
  <2>6. CASE StepFails(r) \/ CommitReplyLost(r)
    BY <2>3, <2>4, <2>6 DEF StepFails, CommitReplyLost, GiveBack, Holding, Revoking
  <2>7. CASE SaveRefused(r) \/ CommitPassword(r) \/ RequestDies(r)
    BY <2>3, <2>7 DEF SaveRefused, CommitPassword, RequestDies
  <2> QED BY <2>1, <2>2, <2>5, <2>6, <2>7
<1>3. \A q \in Req : Held(q)' => Held(q) /\ job'[q].tok = job[q].tok
  BY <1>2, HeldAfter
<1>4. \A q \in Req : TombKept(q)
  BY <1>1 DEF TombKept, tokenVars
<1>5. superseded' = superseded /\ now' = now /\ now \in Nat
  BY <1>1 DEF tokenVars, Tokens
<1> QED BY <1>3, <1>4, <1>5, HeldKept

\* The save script supersedes every token of its user that could be held.
LEMMA SaveHeld ==
  ASSUME Tokens, Tokens', HeldIsLast, NEW r \in Req, Save(r)
  PROVE  HeldIsLast'
<1> DEFINE u == Owner[job[r].tok]
<1>0. job[r].tok \in Token /\ u \in User /\ now \in Nat /\ curExp \in [User -> Nat]
  BY DEF Save, Tokens, InHand
<1>1. /\ curExp' = [curExp EXCEPT ![u] = now + TTL]
      /\ superseded' = superseded \cup {x \in saved : Owner[x] = u}
      /\ UNCHANGED <<now, con>> /\ Goto(r, Idle)
  BY DEF Save, Finish
<1>2. \A q \in Req : Held(q)' => Held(q) /\ job'[q].tok = job[q].tok
  BY <1>1, HeldAfter, JobFields
<1>3. ASSUME NEW q \in Req PROVE TombKept(q)
  <2> SUFFICES ASSUME Held(q), job[q].tok \notin superseded'
               PROVE  curExp'[Owner[job[q].tok]] = curExp[Owner[job[q].tok]]
    BY <1>1 DEF TombKept
  <2>1. job[q].tok \in saved /\ job[q].tok \in Token
    BY DEF Tokens, InHand
  <2>2. Owner[job[q].tok] # u /\ Owner[job[q].tok] \in User
    BY <1>1, <2>1
  <2> QED BY <1>0, <1>1, <2>2
<1>4. superseded \subseteq superseded' /\ now' >= now
  BY <1>0, <1>1
<1> QED BY <1>2, <1>3, <1>4, HeldKept

\* The consume script finds a current token, so no other token of the user is
\* held that has not been superseded.
LEMMA ConsumeHeld ==
  ASSUME Tokens, Tokens', HeldIsLast, NEW r \in Req, NEW t \in Token, Consume(r, t)
  PROVE  HeldIsLast'
<1> DEFINE u == Owner[t]
<1>0. /\ u \in User /\ now \in Nat /\ curExp \in [User -> Nat] /\ job \in [Req -> Job]
      /\ con \in [User -> Token \cup {NoToken}] /\ NoToken \notin Token
  BY DEF Tokens
<1>1. /\ Live(t) /\ curExp' = [curExp EXCEPT ![u] = 0] /\ con' = [con EXCEPT ![u] = t]
      /\ job' = [job EXCEPT ![r] = At("sessions", t, {u})]
      /\ UNCHANGED <<now, superseded>>
  BY DEF Consume, Goto
<1>2. curExp[u] > now
  BY <1>0, <1>1 DEF Tokens, Paired, Live
<1> SUFFICES ASSUME NEW q \in Req, Held(q)', job'[q].tok \notin superseded
             PROVE  /\ con'[Owner[job'[q].tok]] = job'[q].tok
                    /\ curExp'[Owner[job'[q].tok]] <= now
  BY <1>1 DEF HeldIsLast
<1>3. CASE q = r
  <2>1. job'[q].tok = t
    BY <1>0, <1>1, <1>3, JobFields
  <2> QED BY <1>0, <1>1, <2>1
<1>4. CASE q # r
  <2>1. job'[q] = job[q] /\ Held(q)
    BY <1>0, <1>1, <1>4 DEF Held
  <2>2. job[q].tok \in Token /\ Owner[job[q].tok] \in User
    BY <2>1 DEF Tokens, InHand
  <2>3. con[Owner[job[q].tok]] = job[q].tok /\ curExp[Owner[job[q].tok]] <= now
    BY <2>1 DEF HeldIsLast
  <2>4. Owner[job[q].tok] # u
    BY <1>0, <1>2, <2>3
  <2> QED BY <1>0, <1>1, <2>1, <2>2, <2>3, <2>4
<1> QED BY <1>3, <1>4

\* The restore script puts back only the token the tombstone names, which is
\* no other request's.
LEMMA RestoreHeld ==
  ASSUME Tokens, Tokens', HeldIsLast, NEW r \in Req, Restore(r)
  PROVE  HeldIsLast'
<1> DEFINE t == job[r].tok
           u == Owner[t]
<1>0. /\ t \in Token /\ u \in User /\ now \in Nat /\ curExp \in [User -> Nat] /\ Held(r)
  BY DEF Restore, Tokens, InHand, Held, Holding
<1>1. Goto(r, Idle) /\ UNCHANGED <<now, con, superseded>>
  BY DEF Restore, Finish
<1>2. \A q \in Req : Held(q)' => Held(q) /\ job'[q].tok = job[q].tok
  BY <1>1, HeldAfter, JobFields
<1>3. ASSUME NEW q \in Req, Held(q)' PROVE TombKept(q)
  <2> SUFFICES ASSUME job[q].tok \notin superseded
               PROVE  curExp'[Owner[job[q].tok]] = curExp[Owner[job[q].tok]]
    BY <1>1 DEF TombKept
  <2>1. q # r
    BY <1>1, <1>3, JobFields DEF Held, Goto, Tokens
  <2>2. Held(q) /\ job[q].tok \in Token /\ Owner[job[q].tok] \in User
    BY <1>2, <1>3 DEF Tokens, InHand
  <2>3. job[q].tok # t /\ con[Owner[job[q].tok]] = job[q].tok
    BY <2>1, <2>2, <1>0 DEF Tokens, InHand, HeldIsLast
  <2>4. CASE curExp' = curExp
    BY <2>4
  <2>5. CASE Consumed(u) = t /\ curExp' = [curExp EXCEPT ![u] = now + TTL]
    <3>1. con[u] = t
      BY <1>0, <2>5 DEF Consumed
    <3>2. Owner[job[q].tok] # u
      BY <2>3, <3>1
    <3> QED BY <1>0, <2>2, <2>5, <3>2
  <2> QED BY <2>4, <2>5 DEF Restore
<1>4. superseded' = superseded /\ now' >= now
  BY <1>0, <1>1
<1> QED BY <1>2, <1>3, <1>4, HeldKept

\* Every step keeps HeldIsLast.
LEMMA NextHeld == IInv /\ IInv' /\ HeldIsLast /\ [Next]_vars => HeldIsLast'
<1> SUFFICES ASSUME Tokens, Tokens', LoginTypeOK, HeldIsLast, [Next]_vars PROVE HeldIsLast'
  BY Split, PTL
<1>1. ASSUME NEW r \in Req, RequestStep(r) PROVE HeldIsLast'
  BY <1>1, QuietHeld, SaveHeld, ConsumeHeld, RestoreHeld DEF RequestStep
<1>2. ASSUME UNCHANGED <<tokenVars, job>>, now' >= now PROVE HeldIsLast'
  <2>1. \A q \in Req : Held(q)' => Held(q) /\ job'[q].tok = job[q].tok /\ TombKept(q)
    BY <1>2 DEF Held, TombKept, tokenVars
  <2> QED BY <1>2, <2>1, HeldKept DEF tokenVars
<1>3. CASE Tick
  BY <1>2, <1>3 DEF Tick, Tokens
<1>4. CASE LoginStep
  <2>1. UNCHANGED <<now, tokenVars, job>> /\ now >= now
    BY <1>4, LoginStore DEF Tokens
  <2> QED BY <1>2, <2>1
<1>5. CASE UNCHANGED vars
  <2>1. UNCHANGED <<now, tokenVars, job>> /\ now >= now
    BY <1>5 DEF vars, tokenVars, Tokens
  <2> QED BY <1>2, <2>1
<1> QED BY <1>1, <1>3, <1>4, <1>5 DEF Next, LoginStep

\* A reset that comes to its restore gives its token back, unless a newer one
\* was saved or the tombstone has expired: the script refuses for no other
\* reason.
THEOREM RestoreSafety == Spec => RestoreGivesBack
<1>1. ASSUME IInv, HeldIsLast, NEW r \in Req, NEW t \in Token, Restore(r), job[r].tok = t,
             t \notin superseded, ~(conExp[Owner[t]] <= now)
      PROVE  exp'[t] > now
  <2>0. /\ Tokens /\ now \in Nat /\ exp \in [Token -> Nat] /\ Owner[t] \in User
        /\ conExp[Owner[t]] \in Nat /\ curExp[Owner[t]] \in Nat
    BY <1>1, Split DEF Tokens
  <2>1. Held(r) /\ ~Live(t)
    BY <1>1, <2>0 DEF Restore, Tokens, InHand, Held, Holding
  <2>2. con[Owner[t]] = t /\ curExp[Owner[t]] <= now
    BY <1>1, <2>1 DEF HeldIsLast
  <2>3. Consumed(Owner[t]) = t /\ Current(Owner[t]) = NoToken
    BY <1>1, <2>0, <2>2 DEF Consumed, Current
  <2>4. exp' = [exp EXCEPT ![t] = now + TTL]
    BY <1>1, <2>1, <2>3 DEF Restore
  <2> QED BY <2>0, <2>4
<1>2. IInv /\ HeldIsLast =>
        [\A r \in Req, t \in Token : Restore(r) /\ job[r].tok = t =>
           exp'[t] > now \/ t \in superseded \/ conExp[Owner[t]] <= now]_vars
  BY <1>1
<1> QED BY <1>2, InitHeld, NextHeld, Invariance, PTL DEF Spec, RestoreGivesBack
=============================================================================
