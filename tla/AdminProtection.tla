--------------------------- MODULE AdminProtection ---------------------------
(***************************************************************************)
(* The administrator's operations on accounts: change_role, change_status  *)
(* and force_logout of api/app/service/admin_user_service.py over          *)
(* sp_admin_update_user_role and sp_admin_update_user_status.              *)
(*                                                                         *)
(* Every request runs in a PostgreSQL transaction of its own under READ    *)
(* COMMITTED: a statement sees what was committed before the statement,    *)
(* a transaction's own UPDATE is invisible to the others until COMMIT.     *)
(* "role", "active" and "registered" are the committed contents of users;  *)
(* a request between UpdateRow and Commit carries its write privately.     *)
(* The two procedures differ only in the column they write, so one set of  *)
(* actions serves both and op[r].kind tells them apart.  Redis, which      *)
(* change_status and force_logout clear, is the module Credentials: User   *)
(* are accounts, registered or not yet, Req admin requests in flight.      *)
(***************************************************************************)
EXTENDS Credentials

CONSTANT NoReq    \* the advisory lock 'admin_protection' is free

ASSUME NoReqAssumption == NoReq \notin Req

VARIABLES
  registered, \* ids present in the users table
  role,       \* users.role
  active,     \* users.is_active
  lock,       \* holder of pg_advisory_xact_lock('admin_protection')
  pc,         \* where each request stands
  op,         \* what each request asks for
  old,        \* the target row a procedure has read (p_old_role, v_current_is_active)
  pending,    \* deactivations revoking, while theirs is the target's last change of status
  cut         \* users whose deactivation revoked everything, not reactivated since

vars == <<registered, role, active, lock, pc, op, old, pending, cut, credVars>>
userVars  == <<registered, role, active>>
redisVars == <<pending, cut, credVars>>
-----------------------------------------------------------------------------
Role  == {"admin", "member"}
Row   == [role : Role, active : BOOLEAN]

\* A request: kind "role" sets users.role, "status" users.is_active and
\* "force" is force_logout; only the field of its kind is read.
Op ==
  [kind : {"role"}, actor : User, target : User, role : Role, active : {TRUE}]
  \cup
  [kind : {"status"}, actor : User, target : User, role : {"member"}, active : BOOLEAN]
  \cup
  [kind : {"force"}, actor : User, target : User, role : {"member"}, active : {TRUE}]
NoOp  == [kind |-> "none"]
NoRow == [role |-> "member", active |-> TRUE]

InProcedure == {"waiting", "locked", "selected", "updated"}
Critical    == {"locked", "selected", "updated"}
Revoking    == {"revoke_sessions", "delete_sessions", "revoke_refresh", "delete_refresh"}
PC == {"idle", "called"} \cup InProcedure \cup Revoking

TypeOK ==
  /\ registered \subseteq User
  /\ role \in [User -> Role]
  /\ active \in [User -> BOOLEAN]
  /\ lock \in Req \cup {NoReq}
  /\ pc \in [Req -> PC]
  /\ op \in [Req -> Op \cup {NoOp}]
  /\ old \in [Req -> Row]
  /\ pending \subseteq Req
  /\ cut \subseteq User
  /\ CredTypeOK
-----------------------------------------------------------------------------
IsActiveAdmin(u) == u \in registered /\ role[u] = "admin" /\ active[u]

\* Mutant: the count does not leave out the target.
CountsTarget(u) == {v \in User \cup {u} : IsActiveAdmin(v)}

\* SELECT count(*) ... WHERE role = 'admin' AND is_active AND id <> target,
\* of which the procedures only test whether it is zero.
OtherActiveAdmins(u) == {v \in User \ {u} : IsActiveAdmin(v)}

\* The IF in front of the count: the target is an active admin and the new
\* value takes that away.
TakesAdminAway(r) ==
  /\ old[r].role = "admin"
  /\ old[r].active
  /\ \/ op[r].kind = "role"   /\ op[r].role # "admin"
     \/ op[r].kind = "status" /\ ~op[r].active

Goto(r, label) == pc' = [pc EXCEPT ![r] = label]

\* The transaction is over: its advisory lock goes with it.
Unlock(r) == lock' = IF lock = r THEN NoReq ELSE lock

\* The request is answered and its local variables are gone.
Answer(r) ==
  /\ pc'  = [pc  EXCEPT ![r] = "idle"]
  /\ op'  = [op  EXCEPT ![r] = NoOp]
  /\ old' = [old EXCEPT ![r] = NoRow]

Init ==
  /\ registered \in SUBSET User
  /\ role \in [User -> Role]
  /\ active \in [User -> BOOLEAN]
  /\ \A u \in User \ registered : role[u] = "member" /\ active[u]
  /\ \E u \in User : IsActiveAdmin(u)
  /\ lock = NoReq
  /\ pc = [r \in Req |-> "idle"]
  /\ op = [r \in Req |-> NoOp]
  /\ old = [r \in Req |-> NoRow]
  /\ pending = {}
  /\ cut = {}
  /\ CredInit
-----------------------------------------------------------------------------
\* sp_register_user: a new row with the column defaults 'member' and true.
Register(u) ==
  /\ u \notin registered
  /\ registered' = registered \cup {u}
  /\ role' = [role EXCEPT ![u] = "member"]
  /\ active' = [active EXCEPT ![u] = TRUE]
  /\ UNCHANGED <<lock, pc, op, old, redisVars>>

\* The request reaches its handler: get_current_user has found the actor
\* active and require_admin has found it an admin, both before the procedure
\* is called; neither is looked at again.
Call(r, o) ==
  /\ pc[r] = "idle"
  /\ IsActiveAdmin(o.actor)
  /\ op' = [op EXCEPT ![r] = o]
  /\ Goto(r, "called")
  /\ UNCHANGED <<userVars, lock, old, redisVars>>

\* P0007: nobody changes its own role or status.
RejectSelf(r) ==
  /\ pc[r] = "called"
  /\ op[r].kind # "force"
  /\ op[r].actor = op[r].target
  /\ Answer(r)
  /\ UNCHANGED <<userVars, lock, redisVars>>

EnterProcedure(r) ==
  /\ pc[r] = "called"
  /\ op[r].kind # "force"
  /\ op[r].actor # op[r].target
  /\ Goto(r, "waiting")
  /\ UNCHANGED <<userVars, lock, op, old, redisVars>>

\* Mutant: the two procedures hash different lock names, nobody waits.
EntersUnlocked(r) ==
  /\ pc[r] = "waiting"
  /\ lock' = r
  /\ Goto(r, "locked")
  /\ UNCHANGED <<userVars, op, old, redisVars>>

\* PERFORM pg_advisory_xact_lock(hashtext('admin_protection')): held until
\* the transaction ends.
AcquireLock(r) ==
  /\ pc[r] = "waiting"
  /\ lock = NoReq
  /\ lock' = r
  /\ Goto(r, "locked")
  /\ UNCHANGED <<userVars, op, old, redisVars>>

\* SELECT ... FOR UPDATE finds no row: P0010, the transaction rolls back.
RejectMissing(r) ==
  /\ pc[r] = "locked"
  /\ op[r].target \notin registered
  /\ Unlock(r)
  /\ Answer(r)
  /\ UNCHANGED <<userVars, redisVars>>

SelectTarget(r) ==
  /\ pc[r] = "locked"
  /\ op[r].target \in registered
  /\ old' = [old EXCEPT ![r] = [role   |-> role[op[r].target],
                                active |-> active[op[r].target]]]
  /\ Goto(r, "selected")
  /\ UNCHANGED <<userVars, lock, op, redisVars>>

\* Mutant: the rejection is swallowed and the transaction left open.
RejectsInOpenTransaction(r) ==
  /\ pc[r] = "selected"
  /\ TakesAdminAway(r)
  /\ OtherActiveAdmins(op[r].target) = {}
  /\ Answer(r)
  /\ UNCHANGED <<userVars, lock, redisVars>>

\* P0008: the count is zero, the transaction rolls back.
RejectLastAdmin(r) ==
  /\ pc[r] = "selected"
  /\ TakesAdminAway(r)
  /\ OtherActiveAdmins(op[r].target) = {}
  /\ Unlock(r)
  /\ Answer(r)
  /\ UNCHANGED <<userVars, redisVars>>

UpdateRow(r) ==
  /\ pc[r] = "selected"
  /\ TakesAdminAway(r) => OtherActiveAdmins(op[r].target) # {}
  /\ Goto(r, "updated")
  /\ UNCHANGED <<userVars, lock, op, old, redisVars>>

\* What COMMIT makes visible of the procedure's UPDATE.
WriteRow(r) ==
  LET t == op[r].target IN
  /\ role' = IF op[r].kind = "role" THEN [role EXCEPT ![t] = op[r].role] ELSE role
  /\ active' = IF op[r].kind = "status" THEN [active EXCEPT ![t] = op[r].active] ELSE active
  /\ cut' = IF op[r].kind = "status" /\ op[r].active THEN cut \ {t} ELSE cut

\* The deactivations a change of the target's status by r does not overtake.
NotOvertaken(r) == {q \in pending : op[q].target # op[r].target}

\* db.commit() in change_role.
CommitRole(r) ==
  /\ pc[r] = "updated"
  /\ op[r].kind = "role"
  /\ WriteRow(r)
  /\ Unlock(r)
  /\ Answer(r)
  /\ UNCHANGED <<registered, pending, credVars>>

\* db.commit() in change_status: the row first, Redis afterwards and only
\* for a deactivation.
CommitStatus(r) ==
  /\ pc[r] = "updated"
  /\ op[r].kind = "status"
  /\ WriteRow(r)
  /\ Unlock(r)
  /\ \/ /\ op[r].active
        /\ Answer(r)
        /\ pending' = NotOvertaken(r)
     \/ /\ ~op[r].active
        /\ Goto(r, "revoke_sessions")
        /\ pending' = NotOvertaken(r) \cup {r}
        /\ UNCHANGED <<op, old>>
  /\ UNCHANGED <<registered, credVars>>

\* COMMIT takes effect and its reply is lost: a DBAPIError, so a deactivation
\* revokes nothing.
CommitUnanswered(r) ==
  /\ pc[r] = "updated"
  /\ WriteRow(r)
  /\ Unlock(r)
  /\ Answer(r)
  /\ pending' = IF op[r].kind = "status" THEN NotOvertaken(r) ELSE pending
  /\ UNCHANGED <<registered, credVars>>

\* A DBAPIError (lost connection, failed statement or COMMIT): db.rollback().
Rollback(r) ==
  /\ pc[r] \in InProcedure
  /\ Unlock(r)
  /\ Answer(r)
  /\ UNCHANGED <<userVars, redisVars>>

\* force_logout: _fetch_user_or_error, then the same two Redis operations.
ForceLogout(r) ==
  /\ pc[r] = "called"
  /\ op[r].kind = "force"
  /\ \/ op[r].target \in registered /\ Goto(r, "revoke_sessions") /\ UNCHANGED <<op, old>>
     \/ op[r].target \notin registered /\ Answer(r)
  /\ UNCHANGED <<userVars, lock, redisVars>>

\* Mutant: the sessions of the admin who asks are deleted.
ReadsActorsSessions(r) ==
  /\ pc[r] = "revoke_sessions"
  /\ ReadMembers(r, {op[r].actor}, "session")
  /\ Goto(r, "delete_sessions")
  /\ UNCHANGED <<userVars, lock, op, old, pending, cut>>

\* delete_all_sessions(target): SMEMBERS, ...
SessionMembers(r) ==
  /\ pc[r] = "revoke_sessions"
  /\ ReadMembers(r, {op[r].target}, "session")
  /\ Goto(r, "delete_sessions")
  /\ UNCHANGED <<userVars, lock, op, old, pending, cut>>

\* ... and the pipeline.
DeleteAllSessions(r) ==
  /\ pc[r] = "delete_sessions"
  /\ DeleteMembers(r)
  /\ Goto(r, "revoke_refresh")
  /\ UNCHANGED <<userVars, lock, op, old, pending, cut>>

\* revoke_all_refresh_tokens(target): SMEMBERS, ...
RefreshMembers(r) ==
  /\ pc[r] = "revoke_refresh"
  /\ ReadMembers(r, {op[r].target}, "jwt")
  /\ Goto(r, "delete_refresh")
  /\ UNCHANGED <<userVars, lock, op, old, pending, cut>>

\* ... and the pipeline; change_status and force_logout then answer.
RevokeAllRefreshTokens(r) ==
  /\ pc[r] = "delete_refresh"
  /\ DeleteMembers(r)
  /\ cut' = IF r \in pending THEN cut \cup {op[r].target} ELSE cut
  /\ pending' = pending \ {r}
  /\ Answer(r)
  /\ UNCHANGED <<userVars, lock>>

\* RedisError: 503, and the committed deactivation stays.  A pipeline may
\* have taken effect although its reply was lost.
RedisFails(r) ==
  /\ pc[r] \in Revoking
  /\ \/ AbandonSweep(r)
     \/ pc[r] \in {"delete_sessions", "delete_refresh"} /\ DeleteMembers(r)
  /\ pending' = pending \ {r}
  /\ Answer(r)
  /\ UNCHANGED <<userVars, lock, cut>>

\* auth_service.login reads the user and checks is_active ...
LoginChecks(c) ==
  /\ UserOf[c] \in registered /\ active[UserOf[c]]
  /\ BeginLogin(c)
  /\ UNCHANGED <<userVars, lock, pc, op, old, pending, cut>>

\* ... and strategy.login writes the session or the refresh token later: too
\* late if the deactivation was committed in between.
LoginStores(c) ==
  /\ StoreCredential(c, ~active[UserOf[c]])
  /\ UNCHANGED <<userVars, lock, pc, op, old, pending, cut>>

\* A refresh (JwtAuthStrategy.refresh does not look at is_active), a logout,
\* an expiry.
StoreMoves ==
  /\ \/ \E c, n \in Cred : RotateCredential(c, n)
     \/ \E u \in User : IndexExpires(u)
     \/ \E c \in Cred : CredentialEnds(c)
  /\ UNCHANGED <<userVars, lock, pc, op, old, pending, cut>>

Step(r) ==
  \/ RejectSelf(r) \/ EnterProcedure(r) \/ AcquireLock(r)
  \/ RejectMissing(r) \/ SelectTarget(r) \/ RejectLastAdmin(r)
  \/ UpdateRow(r) \/ CommitRole(r) \/ CommitStatus(r) \/ ForceLogout(r)
  \/ SessionMembers(r) \/ DeleteAllSessions(r)
  \/ RefreshMembers(r) \/ RevokeAllRefreshTokens(r)

Next ==
  \/ \E r \in Req : Step(r) \/ CommitUnanswered(r) \/ Rollback(r) \/ RedisFails(r)
  \/ \E r \in Req, o \in Op : Call(r, o)
  \/ \E u \in User : Register(u)
  \/ \E c \in Cred : LoginChecks(c) \/ LoginStores(c)
  \/ StoreMoves

Spec == Init /\ [][Next]_vars

\* A request's own steps are not suspended for ever, and PostgreSQL grants a
\* contended advisory lock in the order it was asked for, which strong
\* fairness of AcquireLock states.
FairSpec ==
  /\ Spec
  /\ \A r \in Req : WF_vars(Step(r)) /\ SF_vars(AcquireLock(r))
-----------------------------------------------------------------------------
\* There is always somebody left who can administer the system: two admins
\* who demote or deactivate each other at the same moment, through either
\* procedure, do not both succeed ("last active admin cannot be ...", P0008).
ActiveAdminRemains == \E u \in User : IsActiveAdmin(u)

\* The old value a procedure hands back for the audit log (p_old_role,
\* p_old_is_active) is still the committed value when its UPDATE commits: no
\* other request of either kind has slipped in between.
OldRowIsCurrent ==
  \A r \in Req : pc[r] \in {"selected", "updated"} =>
    /\ op[r].target \in registered
    /\ old[r] = [role |-> role[op[r].target], active |-> active[op[r].target]]

\* Every call of a procedure comes to an end: no early return, rejection or
\* rollback leaves the advisory lock behind for the requests that wait.
CallsReturn == \A r \in Req : (pc[r] \in InProcedure) ~> (pc[r] \notin InProcedure)

\* A deactivation that came to its end (200) leaves its user no stored
\* credential until it is reversed.  Escaped are, and stay over rotations: a
\* login stored after the commit whose check came before it, a credential
\* stored or rotated in between SMEMBERS and pipeline, and sessions whose
\* index had expired before them.  One that fails after its COMMIT (503) keeps
\* its row and promises nothing of the credentials; security_business_rules.md
\* (2.3) has Redis revoked first and no row changed then.
DeactivatedHoldNothing == \A c \in stored : UserOf[c] \in cut => c \in escaped
-----------------------------------------------------------------------------
\* The inductive invariant: at most the lock's holder is between reading the
\* target row and committing, and what it decided on still holds.
LockDiscipline == \A r \in Req : pc[r] \in Critical => lock = r

DecisionHolds ==
  \A r \in Req :
    /\ pc[r] # "idle" => op[r] \in Op
    /\ pc[r] \in InProcedure => op[r].kind # "force"
    /\ pc[r] = "updated" /\ TakesAdminAway(r) => OtherActiveAdmins(op[r].target) # {}

IInv ==
  /\ TypeOK
  /\ LockDiscipline
  /\ OldRowIsCurrent
  /\ DecisionHolds
  /\ ActiveAdminRemains
=============================================================================
