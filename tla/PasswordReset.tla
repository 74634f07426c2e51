---------------------------- MODULE PasswordReset ----------------------------
(***************************************************************************)
(* Resetting and changing a password: request_password_reset and           *)
(* reset_password of api/app/service/email_verification_service.py,        *)
(* change_password of user_service.py, and the three Lua scripts of        *)
(* repository/redis_store_auth.py they rest on.                            *)
(*                                                                         *)
(* pwreset:{hash} is represented by its expiry time, pwreset_current:{uid} *)
(* and pwreset_consumed:{uid} by a value and an expiry time; a script is   *)
(* one step.  The credentials that delete_all_sessions and                 *)
(* revoke_all_refresh_tokens remove are the module Credentials; each of    *)
(* the two is a call that reads and a later one that deletes.  A password  *)
(* is its number in the user's series of passwords.                        *)
(***************************************************************************)
EXTENDS Naturals, Credentials

CONSTANTS Token, NoToken,
          Owner,     \* the user a token is generated for
          TTL,       \* PASSWORD_RESET_TTL_SECONDS, in ticks
          MaxTime,   \* bound: the clock stops here
          MaxPw      \* bound: passwords a user goes through

ASSUME NoTokenAssumption == NoToken \notin Token
ASSUME OwnerAssumption == Owner \in [Token -> User]
ASSUME TTLAssumption == TTL \in Nat \ {0}   \* validate_ttl
ASSUME BoundAssumption == MaxTime \in Nat /\ MaxPw \in Nat

VARIABLES
  now,
  exp,              \* expiry of pwreset:{hash}
  cur, curExp,      \* pwreset_current:{uid}
  con, conExp,      \* pwreset_consumed:{uid}
  job,              \* the requests in flight
  pw,               \* users.password_hash
  made,             \* the password a credential's login has verified
  saved,            \* tokens that were saved, and mailed
  superseded,       \* tokens followed by a newer one of the same user
  used              \* tokens whose reset was answered with success

vars == <<now, exp, cur, curExp, con, conExp, job, pw, made,
          saved, superseded, used, credVars>>
tokenVars == <<exp, cur, curExp, con, conExp, saved, superseded>>
loginVars == <<pw, made, credVars>>
-----------------------------------------------------------------------------
\* The steps of a reset that has consumed its token.
Revoking == {"sessions", "delete_sessions", "refresh", "delete_refresh"}
Holding == Revoking \cup {"commit", "restore"}
PC == {"idle", "save"} \cup Holding

\* Local variables: the token (NoToken for change_password), old_hash of
\* save_password_reset_token, {user_id}.
Job == [pc : PC, tok : Token \cup {NoToken}, old : Token \cup {NoToken}, users : SUBSET User]
Idle == [pc |-> "idle", tok |-> NoToken, old |-> NoToken, users |-> {}]
Saving(t, old) == [pc |-> "save", tok |-> t, old |-> old, users |-> {Owner[t]}]
At(label, t, us) == [pc |-> label, tok |-> t, old |-> NoToken, users |-> us]

TypeOK ==
  /\ now \in Nat
  /\ exp \in [Token -> Nat]
  /\ cur \in [User -> Token \cup {NoToken}] /\ curExp \in [User -> Nat]
  /\ con \in [User -> Token \cup {NoToken}] /\ conExp \in [User -> Nat]
  /\ job \in [Req -> Job]
  /\ pw \in [User -> Nat]
  /\ made \in [Cred -> Nat]
  /\ CredTypeOK
  /\ saved \subseteq Token /\ superseded \subseteq Token /\ used \subseteq Token
-----------------------------------------------------------------------------
Live(t)    == exp[t] > now
Current(u) == IF curExp[u] > now THEN cur[u] ELSE NoToken
Consumed(u) == IF conExp[u] > now THEN con[u] ELSE NoToken
Fresh(t)   == t \notin saved /\ \A r \in Req : job[r].tok # t

Goto(r, j) == job' = [job EXCEPT ![r] = j]
Advance(r, label) == Goto(r, At(label, job[r].tok, job[r].users))
Finish(r)  == Goto(r, Idle)

Init ==
  /\ now = 0
  /\ exp = [t \in Token |-> 0]
  /\ cur = [u \in User |-> NoToken] /\ curExp = [u \in User |-> 0]
  /\ con = [u \in User |-> NoToken] /\ conExp = [u \in User |-> 0]
  /\ job = [r \in Req |-> Idle]
  /\ pw = [u \in User |-> 0]
  /\ made = [c \in Cred |-> 0]
  /\ CredInit
  /\ saved = {} /\ superseded = {} /\ used = {}
-----------------------------------------------------------------------------
\* request_password_reset: GET of pwreset_current, ...
ForgotGet(r, t) ==
  /\ job[r].pc = "idle"
  /\ Fresh(t)
  /\ Goto(r, Saving(t, Current(Owner[t])))
  /\ UNCHANGED <<now, tokenVars, loginVars, used>>

\* ... then the save script, which goes ahead only if it is still the same.
Save(r) ==
  LET t == job[r].tok
      u == Owner[t]
  IN
  /\ job[r].pc = "save"
  /\ Current(u) = job[r].old
  /\ exp' = [x \in Token |-> IF x = t THEN now + TTL
                             ELSE IF x = job[r].old THEN 0 ELSE exp[x]]
  /\ cur' = [cur EXCEPT ![u] = t]
  /\ curExp' = [curExp EXCEPT ![u] = now + TTL]
  /\ saved' = saved \cup {t}
  /\ superseded' = superseded \cup {x \in saved : Owner[x] = u}
  /\ Finish(r)
  /\ UNCHANGED <<now, con, conExp, loginVars, used>>

\* Another request has saved, or consumed, meanwhile: no mail is sent.
SaveRefused(r) ==
  /\ job[r].pc = "save"
  /\ Current(Owner[job[r].tok]) # job[r].old
  /\ Finish(r)
  /\ UNCHANGED <<now, tokenVars, loginVars, used>>

\* Mutant: the tombstone lives longer than a token saved after it.
ConsumeLongTombstone(r, t) ==
  LET u == Owner[t] IN
  /\ job[r].pc = "idle"
  /\ Live(t) /\ Current(u) = t
  /\ exp' = [exp EXCEPT ![t] = 0]
  /\ curExp' = [curExp EXCEPT ![u] = 0]
  /\ con' = [con EXCEPT ![u] = t]
  /\ conExp' = [conExp EXCEPT ![u] = now + TTL + TTL]
  /\ Goto(r, At("sessions", t, {u}))
  /\ UNCHANGED <<now, cur, saved, superseded, loginVars, used>>

\* Mutant: pwreset_current is not deleted with the token.
ConsumeKeepsCurrent(r, t) ==
  LET u == Owner[t] IN
  /\ job[r].pc = "idle"
  /\ Live(t) /\ Current(u) = t
  /\ exp' = [exp EXCEPT ![t] = 0]
  /\ con' = [con EXCEPT ![u] = t]
  /\ conExp' = [conExp EXCEPT ![u] = now + TTL]
  /\ Goto(r, At("sessions", t, {u}))
  /\ UNCHANGED <<now, cur, curExp, saved, superseded, loginVars, used>>

\* reset_password: the consume script.
Consume(r, t) ==
  LET u == Owner[t] IN
  /\ job[r].pc = "idle"
  /\ Live(t) /\ Current(u) = t
  /\ exp' = [exp EXCEPT ![t] = 0]
  /\ curExp' = [curExp EXCEPT ![u] = 0]
  /\ con' = [con EXCEPT ![u] = t]
  /\ conExp' = [conExp EXCEPT ![u] = now + TTL]
  /\ Goto(r, At("sessions", t, {u}))
  /\ UNCHANGED <<now, cur, saved, superseded, loginVars, used>>

\* change_password of a user who knows the current one: no token.
ChangePassword(r, u) ==
  /\ job[r].pc = "idle"
  /\ Goto(r, At("sessions", NoToken, {u}))
  /\ UNCHANGED <<now, tokenVars, loginVars, used>>

\* Mutant: only the refresh tokens are revoked.
LeavesSessions(r) ==
  /\ job[r].pc = "delete_sessions"
  /\ AbandonSweep(r)
  /\ Advance(r, "refresh")
  /\ UNCHANGED <<now, tokenVars, pw, made, used>>

\* delete_all_sessions: SMEMBERS, ...
SessionMembers(r) ==
  /\ job[r].pc = "sessions"
  /\ ReadMembers(r, job[r].users, "session")
  /\ Advance(r, "delete_sessions")
  /\ UNCHANGED <<now, tokenVars, pw, made, used>>

\* ... and the pipeline.
DeleteAllSessions(r) ==
  /\ job[r].pc = "delete_sessions"
  /\ DeleteMembers(r)
  /\ Advance(r, "refresh")
  /\ UNCHANGED <<now, tokenVars, pw, made, used>>

\* revoke_all_refresh_tokens: SMEMBERS, ...
RefreshMembers(r) ==
  /\ job[r].pc = "refresh"
  /\ ReadMembers(r, job[r].users, "jwt")
  /\ Advance(r, "delete_refresh")
  /\ UNCHANGED <<now, tokenVars, pw, made, used>>

\* ... and the pipeline.
RevokeAllRefreshTokens(r) ==
  /\ job[r].pc = "delete_refresh"
  /\ DeleteMembers(r)
  /\ Advance(r, "commit")
  /\ UNCHANGED <<now, tokenVars, pw, made, used>>

\* A failure on the way: a reset goes on to restore its token, a change ends.
GiveBack(r) == IF job[r].tok # NoToken THEN Advance(r, "restore") ELSE Finish(r)

\* A revocation raises, its pipeline perhaps with effect, or the UPDATE or its
\* COMMIT does: db.rollback().
StepFails(r) ==
  /\ job[r].pc \in Revoking \cup {"commit"}
  /\ \/ AbandonSweep(r)
     \/ job[r].pc \in {"delete_sessions", "delete_refresh"} /\ DeleteMembers(r)
  /\ GiveBack(r)
  /\ UNCHANGED <<now, tokenVars, pw, made, used>>

NewPassword(r) ==
  /\ \A u \in job[r].users : pw[u] < MaxPw
  /\ pw' = [u \in User |-> IF u \in job[r].users THEN pw[u] + 1 ELSE pw[u]]

\* update_password and db.commit().
CommitPassword(r) ==
  /\ job[r].pc = "commit"
  /\ NewPassword(r)
  /\ used' = used \cup ({job[r].tok} \ {NoToken})
  /\ Finish(r)
  /\ UNCHANGED <<now, tokenVars, made, credVars>>

\* The connection is lost after COMMIT took effect: a DBAPIError as well.
CommitReplyLost(r) ==
  /\ job[r].pc = "commit"
  /\ NewPassword(r)
  /\ GiveBack(r)
  /\ UNCHANGED <<now, tokenVars, made, credVars, used>>

\* The restore script.
Restore(r) ==
  LET t == job[r].tok
      u == Owner[t]
  IN
  /\ job[r].pc = "restore"
  /\ IF Consumed(u) = t /\ Current(u) = NoToken /\ ~Live(t)
     THEN /\ exp' = [exp EXCEPT ![t] = now + TTL]
          /\ cur' = [cur EXCEPT ![u] = t]
          /\ curExp' = [curExp EXCEPT ![u] = now + TTL]
     ELSE UNCHANGED <<exp, cur, curExp>>
  /\ Finish(r)
  /\ UNCHANGED <<now, con, conExp, saved, superseded, loginVars, used>>

\* Redis fails at the save or the restore (whose exception is swallowed), the
\* process dies, or update_password raises a ServiceUnavailableError, which
\* no handler of reset_password takes: the token is not given back then.
RequestDies(r) ==
  /\ job[r].pc # "idle"
  /\ AbandonSweep(r)
  /\ Finish(r)
  /\ UNCHANGED <<now, tokenVars, pw, made, used>>

\* auth_service.login verifies the password ...
LoginChecks(c) ==
  /\ BeginLogin(c)
  /\ made' = [made EXCEPT ![c] = pw[UserOf[c]]]
  /\ UNCHANGED <<now, tokenVars, job, pw, used>>

\* A request has deleted what there was and may still commit a password.
Swung(r) ==
  \/ mode = "session" /\ job[r].pc \in {"refresh", "delete_refresh", "commit"}
  \/ mode = "jwt" /\ job[r].pc = "commit"

\* ... and stores the credential, too late if the password it has verified is
\* no longer the user's, or is about to be replaced after the revocation.
LoginStores(c) ==
  /\ StoreCredential(c, \/ made[c] # pw[UserOf[c]]
                        \/ \E r \in Req : Swung(r) /\ UserOf[c] \in job[r].users)
  /\ UNCHANGED <<now, tokenVars, job, pw, made, used>>

\* A refresh: the new token goes back to the password of the old one's login.
Refresh(c, n) ==
  /\ RotateCredential(c, n)
  /\ made' = [made EXCEPT ![n] = made[c]]
  /\ UNCHANGED <<now, tokenVars, job, pw, used>>

\* A logout, an expiry.
StoreMoves ==
  /\ (\E u \in User : IndexExpires(u)) \/ (\E c \in Cred : CredentialEnds(c))
  /\ UNCHANGED <<now, tokenVars, job, pw, made, used>>

Tick ==
  /\ now < MaxTime
  /\ now' = now + 1
  /\ UNCHANGED <<tokenVars, job, loginVars, used>>

RequestStep(r) ==
  \/ \E t \in Token : ForgotGet(r, t) \/ Consume(r, t)
  \/ \E u \in User : ChangePassword(r, u)
  \/ Save(r) \/ SaveRefused(r)
  \/ SessionMembers(r) \/ DeleteAllSessions(r) \/ RefreshMembers(r) \/ RevokeAllRefreshTokens(r)
  \/ StepFails(r) \/ CommitPassword(r) \/ CommitReplyLost(r) \/ Restore(r) \/ RequestDies(r)
Next ==
  \/ \E r \in Req : RequestStep(r)
  \/ \E c \in Cred : LoginChecks(c) \/ LoginStores(c)
  \/ \E c, n \in Cred : Refresh(c, n)
  \/ StoreMoves
  \/ Tick

Spec == Init /\ [][Next]_vars
-----------------------------------------------------------------------------
\* However many requests for a reset run together, and whatever is restored,
\* at most one token of a user can reset the password.
OneTokenPerUser ==
  \A t, x \in Token : Live(t) /\ Live(x) /\ Owner[t] = Owner[x] => t = x

\* A token that was followed by a newer one never works again: a failed reset
\* does not restore it, not even after the newer token has expired, because
\* the tombstone it needs expires no later.
SupersededStaysDead == \A t \in superseded : ~Live(t)

\* A token whose reset was answered with success never works again.
UsedOnce == \A t \in used : ~Live(t)

\* A reset that comes to its restore gives its token back, unless a newer one
\* was saved or the tombstone has expired: nothing else makes the restore
\* script refuse.  A failure that skips the restore is RequestDies.
RestoreGivesBack ==
  [][\A r \in Req, t \in Token : Restore(r) /\ job[r].tok = t =>
       exp'[t] > now \/ t \in superseded \/ conExp[Owner[t]] <= now]_vars

\* A credential obtained with an earlier password is gone after the change.
\* Escaped are, and stay over rotations: what was stored between the
\* revocation and the commit or by a login that had verified the old password
\* before it, what was stored or rotated in between SMEMBERS and pipeline, and
\* sessions whose index had expired before them.
OldPasswordEnds == \A c \in stored \ escaped : made[c] = pw[UserOf[c]]
-----------------------------------------------------------------------------
\* Inductive strengthening.  A usable token is the one its user's
\* pwreset_current names, and the two keys expire together.
Paired ==
  \A t \in Token : Live(t) =>
    t \in saved /\ cur[Owner[t]] = t /\ curExp[Owner[t]] = exp[t]

CurrentNamed == \A u \in User : curExp[u] > 0 => cur[u] \in saved

TombstoneBounded == \A u \in User : conExp[u] <= now + TTL

\* As long as the tombstone of a superseded token lives, the newer token is
\* still current and blocks the restore.
SupersededBlocked ==
  \A t \in superseded :
    con[Owner[t]] = t => cur[Owner[t]] # t /\ conExp[Owner[t]] <= curExp[Owner[t]]

\* A token is in the hands of one request at most; one that holds it after
\* the consume script is the only way back to life for it.
Held(r) == job[r].pc \in Holding /\ job[r].tok # NoToken
InHand ==
  \A r \in Req :
    /\ job[r].pc = "idle" => job[r].tok = NoToken
    /\ job[r].pc = "save" => job[r].tok \in Token \ saved
    /\ job[r].pc = "restore" => job[r].tok # NoToken
    /\ Held(r) => job[r].tok \in saved \ used /\ ~Live(job[r].tok)
    /\ \A q \in Req : job[r].tok # NoToken /\ job[q].tok = job[r].tok => q = r

IInv ==
  /\ TypeOK
  /\ superseded \subseteq saved /\ used \subseteq saved
  /\ Paired
  /\ CurrentNamed
  /\ TombstoneBounded
  /\ SupersededBlocked
  /\ SupersededStaysDead
  /\ InHand
  /\ UsedOnce
=============================================================================
