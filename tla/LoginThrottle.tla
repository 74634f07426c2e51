---------------------------- MODULE LoginThrottle ----------------------------
(***************************************************************************)
(* Logging in with a password: login of api/app/service/auth_service.py    *)
(* with the failure counter of repository/redis_store_security.py.         *)
(*                                                                         *)
(* The counter login_fail:{hash} of one identifier and client address is   *)
(* modelled; requests with other keys do not meet it.  A slot runs one     *)
(* login after another.  The outcome of the lookup, of verify_password and *)
(* of the is_active and email_verified_at tests is open; the               *)
(* credential strategy.login stores is one item (its keys are the subject  *)
(* of Sessions and RefreshTokens).                                         *)
(***************************************************************************)
EXTENDS Naturals, FiniteSets

CONSTANTS Slot, NoSlot, Lost,
          Max        \* LOGIN_MAX_ATTEMPTS

ASSUME SlotAssumption == IsFiniteSet(Slot) /\ NoSlot \notin Slot /\ Lost \notin Slot /\ Lost # NoSlot
ASSUME MaxAssumption == Max \in Nat \ {0}

VARIABLES
  count,      \* value of login_fail, 0 when there is no key
  ttl,        \* whether the key has one
  pc,         \* the next call of each request
  cred,       \* slots whose login has its credential stored
  row,        \* slots whose login has its login_history row committed
  answer,     \* what the slot's login was answered
  creator,    \* who made the key and still owes its EXPIRE, or Lost
  kept        \* slots where the store or the removal of the credential went unanswered

loginVars == <<count, ttl, pc, cred, row, answer, creator, kept>>
keyVars == <<count, ttl, creator>>

LoginPC == {"idle", "lookup", "incr", "expire", "row401", "reset", "check", "row403",
       "store", "rowOk", "rollback"}
Answer == {"none", "ok", "401", "403", "429", "503"}

LoginTypeOK ==
  /\ count \in Nat /\ ttl \in {"none", "set"}
  /\ pc \in [Slot -> LoginPC]
  /\ cred \subseteq Slot /\ row \subseteq Slot /\ kept \subseteq Slot
  /\ answer \in [Slot -> Answer]
  /\ creator \in Slot \cup {NoSlot, Lost}

LoginInit ==
  /\ count = 0 /\ ttl = "none" /\ creator = NoSlot
  /\ pc = [r \in Slot |-> "idle"]
  /\ cred = {} /\ row = {} /\ kept = {}
  /\ answer = [r \in Slot |-> "none"]
-----------------------------------------------------------------------------
Proceed(r, label) == pc' = [pc EXCEPT ![r] = label] /\ answer' = answer
Reply(r, code) == pc' = [pc EXCEPT ![r] = "idle"] /\ answer' = [answer EXCEPT ![r] = code]

\* The key is gone: DEL, or its TTL has passed.
NoKey == count' = 0 /\ ttl' = "none" /\ creator' = NoSlot

\* Its creator will not send the EXPIRE any more.
Disown(r) == creator' = IF creator = r THEN Lost ELSE creator
-----------------------------------------------------------------------------
\* Mutant: the limit is compared with > instead of >=.
StartsAtLimit(r) ==
  /\ pc[r] = "idle"
  /\ count <= Max
  /\ Proceed(r, "lookup")
  /\ cred' = cred \ {r}
  /\ row' = row \ {r}
  /\ kept' = kept \ {r}
  /\ UNCHANGED keyVars

\* ensure_login_not_rate_limited passes; the slot's last login is over.
StartLogin(r) ==
  /\ pc[r] = "idle"
  /\ count < Max
  /\ Proceed(r, "lookup")
  /\ cred' = cred \ {r}
  /\ row' = row \ {r}
  /\ kept' = kept \ {r}
  /\ UNCHANGED keyVars

\* It refuses, or Redis cannot be asked (503).
Refuse(r) ==
  /\ pc[r] = "idle"
  /\ \/ count >= Max /\ Reply(r, "429")
     \/ Reply(r, "503")
  /\ cred' = cred \ {r}
  /\ row' = row \ {r}
  /\ kept' = kept \ {r}
  /\ UNCHANGED keyVars

\* get_by_login_identifier and verify_password: no such user or a wrong
\* password, the right one, or no database.
Lookup(r) ==
  /\ pc[r] = "lookup"
  /\ Proceed(r, "incr") \/ Proceed(r, "reset") \/ Reply(r, "503")
  /\ UNCHANGED <<keyVars, cred, row, kept>>

\* Mutant: the TTL is set when the limit is reached.
IncrTimesLimit(r) ==
  /\ pc[r] = "incr"
  /\ count' = count + 1
  /\ IF count + 1 = Max
     THEN Proceed(r, "expire") /\ creator' = r
     ELSE Proceed(r, "row401") /\ UNCHANGED creator
  /\ UNCHANGED <<ttl, cred, row, kept>>

\* incr_login_failure: INCR, and only the first one is followed by EXPIRE.
Incr(r) ==
  /\ pc[r] = "incr"
  /\ count' = count + 1
  /\ IF count = 0
     THEN Proceed(r, "expire") /\ creator' = r
     ELSE Proceed(r, "row401") /\ UNCHANGED creator
  /\ UNCHANGED <<ttl, cred, row, kept>>

\* The INCR fails, or takes effect and its reply is lost.
IncrFails(r) ==
  /\ pc[r] = "incr"
  /\ \/ UNCHANGED keyVars
     \/ /\ count' = count + 1
        /\ creator' = IF count = 0 THEN Lost ELSE creator
        /\ UNCHANGED ttl
  /\ Reply(r, "503")
  /\ UNCHANGED <<cred, row, kept>>

\* Mutant: EXPIRE ... only while the count is still the one INCR returned.
ExpireIfFirst(r) ==
  /\ pc[r] = "expire"
  /\ ttl' = IF count = 1 THEN "set" ELSE ttl
  /\ creator' = IF creator = r THEN NoSlot ELSE creator
  /\ Proceed(r, "row401")
  /\ UNCHANGED <<count, cred, row, kept>>

\* EXPIRE, on whatever key there is by now.
Expire(r) ==
  /\ pc[r] = "expire"
  /\ ttl' = IF count > 0 THEN "set" ELSE ttl
  /\ creator' = IF creator = r THEN NoSlot ELSE creator
  /\ Proceed(r, "row401")
  /\ UNCHANGED <<count, cred, row, kept>>

\* The EXPIRE fails, or takes effect and its reply is lost.
ExpireFails(r) ==
  /\ pc[r] = "expire"
  /\ ttl' \in {ttl, IF count > 0 THEN "set" ELSE ttl}
  /\ Disown(r)
  /\ Reply(r, "503")
  /\ UNCHANGED <<count, cred, row, kept>>

\* Mutant: the answer does not wait for the history.
RecordFailureLater(r) ==
  /\ \/ pc[r] = "row401" /\ Reply(r, "401")
     \/ pc[r] = "row403" /\ Reply(r, "403")
  /\ UNCHANGED <<keyVars, cred, row, kept>>

\* _record_login_attempt of a failed login.
RecordFailure(r) ==
  /\ \/ pc[r] = "row401" /\ Reply(r, "401")
     \/ pc[r] = "row403" /\ Reply(r, "403")
  /\ row' = row \cup {r}
  /\ UNCHANGED <<keyVars, cred, kept>>

\* Its INSERT or COMMIT fails, or the reply to the COMMIT is lost.
RecordFailureFails(r) ==
  /\ pc[r] \in {"row401", "row403"}
  /\ row' \in {row, row \cup {r}}
  /\ Reply(r, "503")
  /\ UNCHANGED <<keyVars, cred, kept>>

\* record_login_success: DEL, or a failure before or after it took effect.
Reset(r) ==
  /\ pc[r] = "reset"
  /\ \/ NoKey /\ (Proceed(r, "check") \/ Reply(r, "503"))
     \/ UNCHANGED keyVars /\ Reply(r, "503")
  /\ UNCHANGED <<cred, row, kept>>

\* is_active and email_verified_at, after the password.
Check(r) ==
  /\ pc[r] = "check"
  /\ Proceed(r, "store") \/ Proceed(r, "row403")
  /\ UNCHANGED <<keyVars, cred, row, kept>>

\* strategy.login.
Store(r) ==
  /\ pc[r] = "store"
  /\ cred' = cred \cup {r}
  /\ Proceed(r, "rowOk")
  /\ UNCHANGED <<keyVars, row, kept>>

\* strategy.login raises; the keys may have been written.
StoreLoginFails(r) ==
  /\ pc[r] = "store"
  /\ \/ UNCHANGED <<cred, kept>>
     \/ cred' = cred \cup {r} /\ kept' = kept \cup {r}
  /\ Reply(r, "503")
  /\ UNCHANGED <<keyVars, row>>

\* _record_login_attempt of a successful login.
RecordSuccess(r) ==
  /\ pc[r] = "rowOk"
  /\ row' = row \cup {r}
  /\ Reply(r, "ok")
  /\ UNCHANGED <<keyVars, cred, kept>>

\* It fails, or its reply is lost: the credential has to be taken back.
RecordSuccessFails(r) ==
  /\ pc[r] = "rowOk"
  /\ row' \in {row, row \cup {r}}
  /\ Proceed(r, "rollback")
  /\ UNCHANGED <<keyVars, cred, kept>>

\* strategy.rollback_login.
Rollback(r) ==
  /\ pc[r] = "rollback"
  /\ cred' = cred \ {r}
  /\ Reply(r, "503")
  /\ UNCHANGED <<keyVars, row, kept>>

RollbackFails(r) ==
  /\ pc[r] = "rollback"
  /\ kept' = kept \cup {r}
  /\ Reply(r, "503")
  /\ UNCHANGED <<keyVars, cred, row>>

\* The process dies: no answer, and nothing is cleaned up.
Dies(r) ==
  /\ pc[r] # "idle"
  /\ Reply(r, "none")
  /\ Disown(r)
  /\ kept' = kept \cup (cred \cap {r})
  /\ UNCHANGED <<count, ttl, cred, row>>

\* Redis drops the key when its TTL has passed.
KeyExpires == ttl = "set" /\ NoKey /\ UNCHANGED <<pc, cred, row, answer, kept>>

\* What a request does once its first check let it in.
Step(r) ==
  \/ Lookup(r) \/ Incr(r) \/ IncrFails(r) \/ Expire(r) \/ ExpireFails(r)
  \/ RecordFailure(r) \/ RecordFailureFails(r) \/ Reset(r) \/ Check(r)
  \/ Store(r) \/ StoreLoginFails(r) \/ RecordSuccess(r) \/ RecordSuccessFails(r)
  \/ Rollback(r) \/ RollbackFails(r) \/ Dies(r)
LoginNext == KeyExpires \/ \E r \in Slot : StartLogin(r) \/ Refuse(r) \/ Step(r)

LoginSpec == LoginInit /\ [][LoginNext]_loginVars

\* Every awaited call returns or raises, and Redis expires its keys.
LoginFairSpec == LoginSpec /\ WF_loginVars(KeyExpires) /\ \A r \in Slot : WF_loginVars(Step(r))
-----------------------------------------------------------------------------
\* The check and the INCR are two calls, and a login may do much in between:
\* still, with n logins at a time the counter passes the limit by n - 1 at
\* most, whatever resets, expiries and lost replies fall in between.
OvershootBounded == count <= (Max - 1) + Cardinality(Slot)

\* A counter without a TTL is about to get one, unless the call that should
\* set it was lost: later failures and successes of others never leave a
\* counter that does not end.
TimedOrOwed ==
  count > 0 /\ ttl = "none" => creator = Lost \/ (creator \in Slot /\ pc[creator] = "expire")

\* What a login was answered agrees with what it left: 200, 401 and 403 come
\* with their login_history row, and a credential stays behind only with 200
\* or where a failed call left it unknown.
AnswerAgrees ==
  \A r \in Slot : pc[r] = "idle" =>
    /\ answer[r] \in {"ok", "401", "403"} => r \in row
    /\ answer[r] = "ok" => r \in cred
    /\ r \in cred => answer[r] = "ok" \/ r \in kept

\* A lock ends by itself, unless the EXPIRE of its counter was lost.
LockEnds == (count >= Max) ~> (count < Max \/ creator = Lost)
-----------------------------------------------------------------------------
\* Inductive strengthening: the logins that have passed the check and not yet
\* counted their failure have room above the counter, ...
Pending == {r \in Slot : pc[r] \in {"lookup", "incr"}}
RoomForPending == count + Cardinality(Pending) <= (Max - 1) + Cardinality(Slot)

\* ... and each step of a login knows what it has stored and recorded.
Progress ==
  \A r \in Slot :
    /\ pc[r] \in {"rowOk", "rollback"} => r \in cred
    /\ pc[r] \in {"lookup", "incr", "expire", "row401", "reset", "check", "row403", "store"} => r \notin cred

LoginIInv == LoginTypeOK /\ RoomForPending /\ TimedOrOwed /\ Progress /\ AnswerAgrees
=============================================================================
