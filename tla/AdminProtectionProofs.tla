------------------------ MODULE AdminProtectionProofs ------------------------
(***************************************************************************)
(* That an active admin remains, for every set of accounts and of          *)
(* concurrent requests.  ActiveAdminRemains is not inductive by itself: a  *)
(* transaction that has passed its count commits later, so the invariant   *)
(* has to say that the count is still right then.  It is, because only the *)
(* holder of the advisory lock is between its count and its COMMIT.        *)
(***************************************************************************)
EXTENDS AdminProtection, TLAPS

\* Every way a request can move on, as one action per request.
RequestStep(r) ==
  Step(r) \/ CommitUnanswered(r) \/ Rollback(r) \/ RedisFails(r) \/ (\E o \in Op : Call(r, o))

\* The initial states satisfy the inductive invariant.
LEMMA InitIInv == Init => IInv
<1> SUFFICES ASSUME Init PROVE IInv
  OBVIOUS
<1>1. CredTypeOK
  BY DEF Init, CredInit, CredTypeOK, NoSweep
<1> QED
  BY <1>1 DEF Init, IInv, TypeOK, LockDiscipline, OldRowIsCurrent, DecisionHolds,
         ActiveAdminRemains, PC, InProcedure, Critical, NoRow, Row, Role

\* The store's variables keep their types, whatever is done to the store.
LEMMA StoreTypeOK ==
  ASSUME CredTypeOK, StoreStep
  PROVE  CredTypeOK'
<1> USE DEF CredTypeOK, NoSweep
<1>1. ASSUME NEW c \in Cred, BeginLogin(c) \/ CredentialEnds(c) PROVE CredTypeOK'
  BY <1>1 DEF BeginLogin, CredentialEnds
<1>2. ASSUME NEW c \in Cred, NEW tooLate \in BOOLEAN, StoreCredential(c, tooLate)
      PROVE  CredTypeOK'
  BY <1>2 DEF StoreCredential
<1>3. ASSUME NEW c \in Cred, NEW n \in Cred, RotateCredential(c, n) PROVE CredTypeOK'
  BY <1>3 DEF RotateCredential
<1>4. ASSUME NEW u \in User, IndexExpires(u) PROVE CredTypeOK'
  BY <1>4 DEF IndexExpires
<1>5. ASSUME NEW r \in Req, NEW us \in SUBSET User, NEW m \in {"session", "jwt"},
             ReadMembers(r, us, m)
      PROVE  CredTypeOK'
  BY <1>5 DEF ReadMembers
<1>6. ASSUME NEW r \in Req, DeleteMembers(r) \/ AbandonSweep(r) PROVE CredTypeOK'
  BY <1>6 DEF DeleteMembers, AbandonSweep
<1>7. CASE UNCHANGED credVars
  BY <1>7 DEF credVars
<1> QED BY <1>1, <1>2, <1>3, <1>4, <1>5, <1>6, <1>7 DEF StoreStep

\* All a request does to the store are the sweeps.
LEMMA RequestStore ==
  ASSUME IInv, NEW r \in Req, RequestStep(r)
  PROVE  StoreStep
<1>1. CASE SessionMembers(r) \/ RefreshMembers(r)
  <2>1. op[r] \in Op
    BY <1>1 DEF SessionMembers, RefreshMembers, IInv, DecisionHolds
  <2>2. {op[r].target} \in SUBSET User
    BY <2>1 DEF Op
  <2> QED BY <1>1, <2>2 DEF SessionMembers, RefreshMembers, StoreStep
<1>2. CASE DeleteAllSessions(r) \/ RevokeAllRefreshTokens(r) \/ RedisFails(r)
  BY <1>2 DEF DeleteAllSessions, RevokeAllRefreshTokens, RedisFails, StoreStep
<1>3. CASE ~(\/ SessionMembers(r) \/ RefreshMembers(r) \/ DeleteAllSessions(r)
            \/ RevokeAllRefreshTokens(r) \/ RedisFails(r))
  BY <1>3
  DEF RequestStep, Step, RejectSelf, EnterProcedure, AcquireLock, RejectMissing,
      SelectTarget, RejectLastAdmin, UpdateRow, CommitRole, CommitStatus,
      CommitUnanswered, ForceLogout, Rollback, Call, redisVars, StoreStep
<1> QED BY <1>1, <1>2, <1>3

\* Each request's step keeps every variable in its type.
LEMMA RequestTypeOK ==
  ASSUME IInv, NEW r \in Req, RequestStep(r)
  PROVE  TypeOK'
<1> USE DEF IInv, TypeOK, PC, InProcedure, Revoking, Critical, userVars, redisVars
<1>s. CredTypeOK'
  BY RequestStore, StoreTypeOK
<1>a. pc[r] # "idle" => op[r] \in Op
  BY DEF DecisionHolds
<1>b. op[r] \in Op => op[r].target \in User /\ op[r].role \in Role /\ op[r].active \in BOOLEAN
  BY DEF Op, Role
<1>w. ASSUME WriteRow(r), op[r] \in Op
      PROVE  role' \in [User -> Role] /\ active' \in [User -> BOOLEAN] /\ cut' \subseteq User
  BY <1>w, <1>b DEF WriteRow
<1>c. NoRow \in Row
  BY DEF NoRow, Row, Role
<1>d. ASSUME Answer(r)
      PROVE  pc' \in [Req -> PC] /\ op' \in [Req -> Op \cup {NoOp}] /\ old' \in [Req -> Row]
  BY <1>c, <1>d DEF Answer
<1>e. ASSUME Unlock(r) PROVE lock' \in Req \cup {NoReq}
  BY <1>e DEF Unlock
<1>1. CASE RejectSelf(r)       BY <1>1, <1>d, <1>s DEF RejectSelf
<1>2. CASE EnterProcedure(r)   BY <1>2, <1>s DEF EnterProcedure, Goto
<1>3. CASE AcquireLock(r)      BY <1>3, <1>s DEF AcquireLock, Goto
<1>4. CASE RejectMissing(r)    BY <1>4, <1>d, <1>e, <1>s DEF RejectMissing
<1>5. CASE SelectTarget(r)
  <2>1. [role |-> role[op[r].target], active |-> active[op[r].target]] \in Row
    BY <1>5, <1>a, <1>b DEF SelectTarget, Row
  <2> QED BY <1>5, <2>1, <1>s DEF SelectTarget, Goto
<1>6. CASE RejectLastAdmin(r)  BY <1>6, <1>d, <1>e, <1>s DEF RejectLastAdmin
<1>7. CASE UpdateRow(r)        BY <1>7, <1>s DEF UpdateRow, Goto
<1>8. CASE CommitRole(r)       BY <1>8, <1>a, <1>w, <1>d, <1>e, <1>s DEF CommitRole
<1>9. CASE CommitStatus(r)
  <2>1. role' \in [User -> Role] /\ active' \in [User -> BOOLEAN] /\ cut' \subseteq User
    BY <1>9, <1>a, <1>w DEF CommitStatus
  <2>2. pending' \subseteq Req
    BY <1>9 DEF CommitStatus, NotOvertaken
  <2>3. pc' \in [Req -> PC] /\ op' \in [Req -> Op \cup {NoOp}] /\ old' \in [Req -> Row]
    BY <1>9, <1>d DEF CommitStatus, Goto
  <2> QED BY <1>9, <1>e, <1>s, <2>1, <2>2, <2>3 DEF CommitStatus
<1>16. CASE CommitUnanswered(r)
  <2>1. role' \in [User -> Role] /\ active' \in [User -> BOOLEAN] /\ cut' \subseteq User
    BY <1>16, <1>a, <1>w DEF CommitUnanswered
  <2>2. pending' \subseteq Req
    BY <1>16 DEF CommitUnanswered, NotOvertaken
  <2> QED BY <1>16, <1>d, <1>e, <1>s, <2>1, <2>2 DEF CommitUnanswered
<1>10. CASE ForceLogout(r)     BY <1>10, <1>d, <1>s DEF ForceLogout, Goto
<1>11. CASE SessionMembers(r) \/ DeleteAllSessions(r) \/ RefreshMembers(r)
  BY <1>11, <1>s DEF SessionMembers, DeleteAllSessions, RefreshMembers, Goto
<1>12. CASE RevokeAllRefreshTokens(r)
  BY <1>12, <1>a, <1>b, <1>d, <1>s DEF RevokeAllRefreshTokens
<1>13. CASE Rollback(r)        BY <1>13, <1>d, <1>e, <1>s DEF Rollback
<1>14. CASE RedisFails(r)      BY <1>14, <1>a, <1>b, <1>d, <1>s DEF RedisFails
<1>15. CASE \E o \in Op : Call(r, o)  BY <1>15, <1>s DEF Call, Goto
<1> QED
  BY <1>1, <1>2, <1>3, <1>4, <1>5, <1>6, <1>7, <1>8, <1>9, <1>10, <1>11,
     <1>12, <1>13, <1>14, <1>15, <1>16 DEF RequestStep, Step

\* Only the holder of the advisory lock is in the critical part.
LEMMA RequestLock ==
  ASSUME IInv, NEW r \in Req, RequestStep(r)
  PROVE  LockDiscipline'
<1> USE DEF IInv, TypeOK, LockDiscipline, PC, InProcedure, Critical
<1>1. SUFFICES ASSUME NEW q \in Req, pc'[q] \in Critical
               PROVE  lock' = q
  OBVIOUS
<1>2. CASE q = r
  BY <1>1, <1>2, NoReqAssumption
  DEF RequestStep, Step, RejectSelf, EnterProcedure, AcquireLock, RejectMissing,
      SelectTarget, RejectLastAdmin, UpdateRow, CommitRole, CommitStatus, CommitUnanswered,
      ForceLogout, SessionMembers, DeleteAllSessions, RefreshMembers,
      RevokeAllRefreshTokens, Rollback,
      RedisFails, Call, Goto, Answer
<1>3. CASE q # r
  <2>1. pc'[q] = pc[q]
    BY <1>3
    DEF RequestStep, Step, RejectSelf, EnterProcedure, AcquireLock, RejectMissing,
        SelectTarget, RejectLastAdmin, UpdateRow, CommitRole, CommitStatus, CommitUnanswered,
        ForceLogout, SessionMembers, DeleteAllSessions, RefreshMembers,
      RevokeAllRefreshTokens, Rollback,
        RedisFails, Call, Goto, Answer
  <2>2. lock = q
    BY <1>1, <2>1
  <2>3. lock' = lock
    BY <1>3, <2>2, NoReqAssumption
    DEF RequestStep, Step, RejectSelf, EnterProcedure, AcquireLock, RejectMissing,
        SelectTarget, RejectLastAdmin, UpdateRow, CommitRole, CommitStatus, CommitUnanswered,
        ForceLogout, SessionMembers, DeleteAllSessions, RefreshMembers,
      RevokeAllRefreshTokens, Rollback,
        RedisFails, Call, Unlock
  <2> QED BY <2>2, <2>3
<1> QED BY <1>2, <1>3

\* A request that is not the lock's holder leaves the users table alone.
LEMMA OnlyHolderWrites ==
  ASSUME IInv, NEW r \in Req, RequestStep(r), lock # r
  PROVE  UNCHANGED userVars
<1>1. pc[r] \notin Critical
  BY DEF IInv, LockDiscipline
<1>2. pc[r] # "updated"
  BY <1>1 DEF Critical
<1> QED
  BY <1>2
  DEF RequestStep, Step, RejectSelf, EnterProcedure, AcquireLock, RejectMissing,
      SelectTarget, RejectLastAdmin, UpdateRow, CommitRole, CommitStatus, CommitUnanswered,
      ForceLogout, SessionMembers, DeleteAllSessions, RefreshMembers,
      RevokeAllRefreshTokens, Rollback,
      RedisFails, Call, userVars

\* A step of r does not touch the locals of another request.
LEMMA OthersKeepLocals ==
  ASSUME IInv, NEW r \in Req, RequestStep(r), NEW q \in Req, q # r
  PROVE  pc'[q] = pc[q] /\ op'[q] = op[q] /\ old'[q] = old[q]
  BY DEF IInv, TypeOK, RequestStep, Step, RejectSelf, EnterProcedure, AcquireLock,
         RejectMissing, SelectTarget, RejectLastAdmin, UpdateRow, CommitRole,
         CommitStatus, CommitUnanswered, ForceLogout, SessionMembers, DeleteAllSessions,
         RefreshMembers, RevokeAllRefreshTokens,
         Rollback, RedisFails, Call, Goto, Answer

\* The row a procedure has read stays the committed one until it commits.
LEMMA RequestOldRow ==
  ASSUME IInv, NEW r \in Req, RequestStep(r)
  PROVE  OldRowIsCurrent'
<1>1. SUFFICES ASSUME NEW q \in Req, pc'[q] \in {"selected", "updated"}
               PROVE  /\ op'[q].target \in registered'
                      /\ old'[q] = [role |-> role'[op'[q].target],
                                    active |-> active'[op'[q].target]]
  BY DEF OldRowIsCurrent
<1>2. CASE q = r
  <2>1. CASE SelectTarget(r)
    BY <1>2, <2>1 DEF SelectTarget, Goto, IInv, TypeOK, userVars
  <2>2. CASE UpdateRow(r)
    BY <1>2, <2>2 DEF UpdateRow, Goto, IInv, TypeOK, OldRowIsCurrent, userVars
  <2>3. CASE ~SelectTarget(r) /\ ~UpdateRow(r)
    <3>1. pc'[r] \notin {"selected", "updated"}
      BY <2>3
      DEF IInv, TypeOK, RequestStep, Step, RejectSelf, EnterProcedure, AcquireLock,
          RejectMissing, RejectLastAdmin, CommitRole, CommitStatus, CommitUnanswered, ForceLogout,
          SessionMembers, DeleteAllSessions, RefreshMembers,
      RevokeAllRefreshTokens, Rollback, RedisFails, Call,
          Goto, Answer
    <3> QED BY <1>1, <1>2, <3>1
  <2> QED BY <2>1, <2>2, <2>3
<1>3. CASE q # r
  <2>1. pc'[q] = pc[q] /\ op'[q] = op[q] /\ old'[q] = old[q]
    BY <1>3, OthersKeepLocals
  <2>2. lock = q
    BY <1>1, <2>1 DEF IInv, LockDiscipline, Critical
  <2>3. UNCHANGED userVars
    BY <1>3, <2>2, OnlyHolderWrites
  <2> QED BY <1>1, <2>1, <2>3 DEF IInv, OldRowIsCurrent, userVars
<1> QED BY <1>2, <1>3

\* What a procedure decided on when it counted still holds until it commits.
LEMMA RequestDecision ==
  ASSUME IInv, NEW r \in Req, RequestStep(r)
  PROVE  DecisionHolds'
<1>1. SUFFICES ASSUME NEW q \in Req
               PROVE  /\ pc'[q] # "idle" => op'[q] \in Op
                      /\ pc'[q] \in InProcedure => op'[q].kind # "force"
                      /\ pc'[q] = "updated" /\ TakesAdminAway(q)' =>
                           OtherActiveAdmins(op[q].target)' # {}
  BY DEF DecisionHolds
<1>2. CASE q = r
  <2>1. /\ pc'[r] # "idle" => op'[r] \in Op
        /\ pc'[r] \in InProcedure => op'[r].kind # "force"
    BY DEF IInv, TypeOK, DecisionHolds, InProcedure, RequestStep, Step, RejectSelf,
           EnterProcedure, AcquireLock, RejectMissing, SelectTarget,
           RejectLastAdmin, UpdateRow, CommitRole, CommitStatus, CommitUnanswered, ForceLogout,
           SessionMembers, DeleteAllSessions, RefreshMembers,
      RevokeAllRefreshTokens, Rollback, RedisFails, Call,
           Goto, Answer
  <2>2. ASSUME pc'[r] = "updated", TakesAdminAway(r)'
        PROVE  OtherActiveAdmins(op[r].target)' # {}
    <3>1. UpdateRow(r)
      BY <2>2
      DEF IInv, TypeOK, RequestStep, Step, RejectSelf, EnterProcedure, AcquireLock,
          RejectMissing, SelectTarget, RejectLastAdmin, CommitRole, CommitStatus, CommitUnanswered,
          ForceLogout, SessionMembers, DeleteAllSessions, RefreshMembers,
      RevokeAllRefreshTokens, Rollback,
          RedisFails, Call, Goto, Answer
    <3>2. TakesAdminAway(r)
      BY <2>2, <3>1 DEF UpdateRow, TakesAdminAway
    <3>3. OtherActiveAdmins(op[r].target) # {}
      BY <3>1, <3>2 DEF UpdateRow
    <3> QED
      BY <3>1, <3>3 DEF UpdateRow, OtherActiveAdmins, IsActiveAdmin, userVars
  <2> QED BY <1>2, <2>1, <2>2
<1>3. CASE q # r
  <2>1. pc'[q] = pc[q] /\ op'[q] = op[q] /\ old'[q] = old[q]
    BY <1>3, OthersKeepLocals
  <2>2. /\ pc'[q] # "idle" => op'[q] \in Op
        /\ pc'[q] \in InProcedure => op'[q].kind # "force"
    BY <2>1 DEF IInv, DecisionHolds
  <2>3. ASSUME pc'[q] = "updated", TakesAdminAway(q)'
        PROVE  OtherActiveAdmins(op[q].target)' # {}
    <3>1. lock = q
      BY <2>1, <2>3 DEF IInv, LockDiscipline, Critical
    <3>2. UNCHANGED userVars
      BY <1>3, <3>1, OnlyHolderWrites
    <3>3. OtherActiveAdmins(op[q].target) # {}
      BY <2>1, <2>3 DEF IInv, DecisionHolds, TakesAdminAway
    <3> QED
      BY <2>1, <3>2, <3>3 DEF OtherActiveAdmins, IsActiveAdmin, userVars
  <2> QED BY <2>2, <2>3
<1> QED BY <1>2, <1>3

\* No step of a request removes the last active admin.
LEMMA RequestKeepsAdmin ==
  ASSUME IInv, NEW r \in Req, RequestStep(r)
  PROVE  ActiveAdminRemains'
<1>1. PICK a \in User : IsActiveAdmin(a)
  BY DEF IInv, ActiveAdminRemains
<1>2. CASE UNCHANGED userVars
  BY <1>1, <1>2 DEF ActiveAdminRemains, IsActiveAdmin, userVars
<1>3. CASE CommitRole(r) \/ CommitStatus(r) \/ CommitUnanswered(r)
  <2> DEFINE t == op[r].target
  <2>1. pc[r] = "updated" /\ op[r] \in Op /\ op[r].kind # "force" /\ t \in User /\ t \in registered
    BY <1>3 DEF CommitRole, CommitStatus, CommitUnanswered, IInv, DecisionHolds,
                InProcedure, Op, OldRowIsCurrent
  <2>w. WriteRow(r) /\ registered' = registered
    BY <1>3 DEF CommitRole, CommitStatus, CommitUnanswered
  <2>2. old[r].role = role[t] /\ (old[r].active <=> active[t])
    <3>1. old[r] = [role |-> role[t], active |-> active[t]]
      BY <2>1 DEF IInv, OldRowIsCurrent
    <3>2. active[t] \in BOOLEAN
      BY <2>1 DEF IInv, TypeOK
    <3> QED BY <3>1, <3>2
  <2>3. \A u \in User \ {t} : IsActiveAdmin(u) => IsActiveAdmin(u)'
    BY <2>w, <2>1 DEF WriteRow, IsActiveAdmin, IInv, TypeOK
  <2>4. CASE TakesAdminAway(r)
    <3>1. OtherActiveAdmins(t) # {}
      BY <2>1, <2>4 DEF IInv, DecisionHolds
    <3>2. PICK b \in User \ {t} : IsActiveAdmin(b)
      BY <3>1 DEF OtherActiveAdmins
    <3> QED BY <2>3, <3>2 DEF ActiveAdminRemains
  <2>5. CASE ~TakesAdminAway(r)
    <3>1. CASE a # t
      BY <1>1, <2>3, <3>1 DEF ActiveAdminRemains
    <3>2. CASE a = t
      <4>1. role[t] = "admin" /\ active[t]
        BY <1>1, <3>2 DEF IsActiveAdmin
      <4>2. old[r].role = "admin" /\ old[r].active
        BY <2>2, <4>1
      <4>3. CASE op[r].kind = "role"
        <5>1. op[r].role = "admin"
          BY <2>5, <4>2, <4>3 DEF TakesAdminAway
        <5> QED
          BY <2>1, <2>w, <4>1, <4>3, <5>1
          DEF WriteRow, IsActiveAdmin, ActiveAdminRemains, IInv, TypeOK
      <4>4. CASE op[r].kind = "status"
        <5>1. op[r].active
          BY <2>5, <4>2, <4>4 DEF TakesAdminAway
        <5> QED
          BY <2>1, <2>w, <4>1, <4>4, <5>1
          DEF WriteRow, IsActiveAdmin, ActiveAdminRemains, IInv, TypeOK
      <4> QED BY <2>1, <4>3, <4>4 DEF Op
    <3> QED BY <3>1, <3>2
  <2> QED BY <2>4, <2>5
<1>4. UNCHANGED userVars \/ CommitRole(r) \/ CommitStatus(r) \/ CommitUnanswered(r)
  BY DEF RequestStep, Step, RejectSelf, EnterProcedure, AcquireLock, RejectMissing,
         SelectTarget, RejectLastAdmin, UpdateRow, ForceLogout, SessionMembers,
         DeleteAllSessions, RefreshMembers, RevokeAllRefreshTokens, Rollback,
         RedisFails, Call
<1> QED BY <1>2, <1>3, <1>4

\* Registration adds a member and leaves every existing row as it is.
LEMMA RegisterIInv ==
  ASSUME IInv, NEW u \in User, Register(u)
  PROVE  IInv'
<1> USE DEF IInv, Register, redisVars
<1>1. TypeOK'          BY DEF TypeOK, Role, CredTypeOK, credVars
<1>2. LockDiscipline'  BY DEF LockDiscipline
<1>3. \A v \in registered : v \in registered' /\ role'[v] = role[v] /\ active'[v] = active[v]
  BY DEF TypeOK
<1>4. OldRowIsCurrent'
  <2>1. SUFFICES ASSUME NEW q \in Req, pc[q] \in {"selected", "updated"}
                 PROVE  /\ op[q].target \in registered'
                        /\ old[q] = [role |-> role'[op[q].target],
                                     active |-> active'[op[q].target]]
    BY DEF OldRowIsCurrent
  <2>2. /\ op[q].target \in registered
        /\ old[q] = [role |-> role[op[q].target], active |-> active[op[q].target]]
    BY <2>1 DEF OldRowIsCurrent
  <2>3. role'[op[q].target] = role[op[q].target] /\ active'[op[q].target] = active[op[q].target]
    BY <1>3, <2>2
  <2> QED BY <1>3, <2>2, <2>3
<1>5. \A v \in User : IsActiveAdmin(v) => IsActiveAdmin(v)'
  BY <1>3 DEF IsActiveAdmin
<1>6. DecisionHolds'
  BY <1>5 DEF DecisionHolds, TakesAdminAway, OtherActiveAdmins
<1>7. ActiveAdminRemains'
  BY <1>5 DEF ActiveAdminRemains
<1> QED BY <1>1, <1>2, <1>4, <1>6, <1>7

\* Logins, refreshes and stuttering steps touch nothing the invariant speaks
\* of but types.
LEMMA QuietIInv ==
  ASSUME IInv, UNCHANGED <<userVars, lock, pc, op, old, pending, cut>>, StoreStep
  PROVE  IInv'
<1>1. CredTypeOK'
  BY StoreTypeOK DEF IInv, TypeOK
<1> QED
  BY <1>1 DEF IInv, TypeOK, LockDiscipline, OldRowIsCurrent, DecisionHolds,
         ActiveAdminRemains, IsActiveAdmin, OtherActiveAdmins, TakesAdminAway, userVars

\* What a login or one of the store's own moves does.
QuietStep == (\E c \in Cred : LoginChecks(c) \/ LoginStores(c)) \/ StoreMoves

LEMMA QuietStore ==
  ASSUME QuietStep
  PROVE  StoreStep /\ UNCHANGED <<userVars, lock, pc, op, old, pending, cut>>
<1>1. ASSUME NEW c \in Cred, LoginStores(c) PROVE StoreStep
  <2>1. (~active[UserOf[c]]) \in BOOLEAN
    OBVIOUS
  <2> QED BY <1>1, <2>1 DEF LoginStores, StoreStep
<1>2. ASSUME NEW c \in Cred, LoginChecks(c) PROVE StoreStep
  BY <1>2 DEF LoginChecks, StoreStep
<1>3. CASE StoreMoves
  BY <1>3 DEF StoreMoves, StoreStep
<1> QED BY <1>1, <1>2, <1>3 DEF QuietStep, LoginChecks, LoginStores, StoreMoves

\* Every step of the system preserves the inductive invariant.
LEMMA NextIInv == IInv /\ [Next]_vars => IInv'
<1> SUFFICES ASSUME IInv, [Next]_vars PROVE IInv'
  OBVIOUS
<1>1. ASSUME NEW r \in Req, RequestStep(r) PROVE IInv'
  BY <1>1, RequestTypeOK, RequestLock, RequestOldRow, RequestDecision,
     RequestKeepsAdmin DEF IInv
<1>2. ASSUME NEW u \in User, Register(u) PROVE IInv'
  BY <1>2, RegisterIInv
<1>3. CASE QuietStep
  BY <1>3, QuietStore, QuietIInv
<1>4. CASE UNCHANGED vars
  BY <1>4, QuietIInv DEF vars, userVars, StoreStep
<1> QED
  BY <1>1, <1>2, <1>3, <1>4 DEF Next, RequestStep, QuietStep

\* The inductive invariant holds in every reachable state.
THEOREM Invariance == Spec => []IInv
  BY InitIInv, NextIInv, PTL DEF Spec

\* Every variable keeps its type, whatever the accounts and the requests.
THEOREM TypeCorrect == Spec => []TypeOK
  BY Invariance, PTL DEF IInv

\* Concurrent demotions and deactivations, in any number and any order, leave
\* at least one active admin (P0008 of both procedures, under one lock).
THEOREM AdminSafety == Spec => []ActiveAdminRemains
  BY Invariance, PTL DEF IInv

\* The value handed to the audit log is the one the UPDATE replaces.
THEOREM AuditSafety == Spec => []OldRowIsCurrent
  BY Invariance, PTL DEF IInv
-----------------------------------------------------------------------------
(***************************************************************************)
(* Credentials of deactivated accounts.  SweepInv says that a sweep that   *)
(* has read has in hand whatever is stored of its user and has not escaped *)
(* it; so after the pipeline of the mode in use only escaped credentials   *)
(* are left, and as nobody inactive gets another that is not escaped, it   *)
(* stays so until the request answers and afterwards.                      *)
(***************************************************************************)
\* Request r has done the pipeline that matters, and goes on to the other.
Swung(r) == mode = "session" /\ pc[r] \in {"revoke_refresh", "delete_refresh"}

\* Request r is between SMEMBERS and the pipeline that matters.
Sweeping(r) ==
  \/ mode = "session" /\ pc[r] = "delete_sessions"
  \/ mode = "jwt" /\ pc[r] = "delete_refresh"

CredInv ==
  /\ SweepInv
  /\ \A u \in User \ registered : active[u]
  /\ \A u \in cut : ~active[u]
  /\ \A r \in pending : pc[r] \in Revoking /\ op[r].kind = "status" /\ ~active[op[r].target]
  /\ \A r \in Req : Sweeping(r) => op[r].target \in sweep[r].users
  /\ \A r \in pending, c \in stored :
       Swung(r) /\ UserOf[c] = op[r].target => c \in escaped
  /\ DeactivatedHoldNothing

\* There are no credentials at first, and no inactive account without a row.
LEMMA InitCredInv == Init => CredInv
<1> SUFFICES ASSUME Init PROVE CredInv
  OBVIOUS
<1>1. SweepInv
  BY DEF Init, CredInit, SweepInv, CredTypeOK, NoSweep
<1> QED
  BY <1>1 DEF Init, CredInit, CredInv, Sweeping, DeactivatedHoldNothing

\* What is stored after a step of the store was there before, or replaces
\* what was; if not, it escaped or its user may sign in.
Follows ==
  \A c \in stored' :
    \/ c \in escaped' \/ active[UserOf[c]]
    \/ \E d \in stored : UserOf[d] = UserOf[c] /\ (d \in escaped => c \in escaped')

\* Every step of the store keeps the sweeps complete.
LEMMA StoreSweepInv ==
  ASSUME SweepInv, StoreStep
  PROVE  SweepInv'
<1>0. CredTypeOK'
  BY StoreTypeOK DEF SweepInv
<1> USE <1>0 DEF SweepInv
<1>1. ASSUME NEW c \in Cred, BeginLogin(c) \/ CredentialEnds(c) PROVE SweepInv'
  BY <1>1 DEF BeginLogin, CredentialEnds
<1>2. ASSUME NEW c \in Cred, NEW tooLate \in BOOLEAN, StoreCredential(c, tooLate)
      PROVE  SweepInv'
  BY <1>2 DEF StoreCredential, Swept
<1>3. ASSUME NEW c \in Cred, NEW n \in Cred, RotateCredential(c, n) PROVE SweepInv'
  BY <1>3 DEF RotateCredential, Swept
<1>4. ASSUME NEW u \in User, IndexExpires(u) PROVE SweepInv'
  BY <1>4 DEF IndexExpires, Of, CredTypeOK
<1>5. ASSUME NEW r \in Req, NEW us \in SUBSET User, NEW m \in {"session", "jwt"},
             ReadMembers(r, us, m)
      PROVE  SweepInv'
  <2>1. UNCHANGED <<mode, stored, indexed, escaped>> /\ stored \subseteq Cred
    BY <1>5 DEF ReadMembers, CredTypeOK
  <2>2. ASSUME NEW q \in Req, NEW c \in stored, UserOf[c] \in sweep'[q].users
        PROVE  c \in sweep'[q].creds \cup escaped
    <3>1. CASE q # r
      BY <1>5, <2>2, <3>1 DEF ReadMembers, CredTypeOK
    <3>2. CASE q = r
      BY <1>5, <2>1, <2>2, <3>2 DEF ReadMembers, CredTypeOK, NoSweep, Of
    <3> QED BY <3>1, <3>2
  <2> QED BY <2>1, <2>2
<1>6. ASSUME NEW r \in Req, DeleteMembers(r) PROVE SweepInv'
  <2>1. stored \subseteq Cred /\ stored' \subseteq stored
    BY <1>6 DEF DeleteMembers, CredTypeOK
  <2>2. ASSUME NEW c \in stored' PROVE c \in indexed' \cup escaped'
    BY <1>6, <2>1, <2>2 DEF DeleteMembers, Of
  <2>3. ASSUME NEW q \in Req, NEW c \in stored', UserOf[c] \in sweep'[q].users
        PROVE  c \in sweep'[q].creds \cup escaped'
    BY <1>6, <2>1, <2>3 DEF DeleteMembers, CredTypeOK, NoSweep
  <2> QED BY <2>2, <2>3
<1>7. ASSUME NEW r \in Req, AbandonSweep(r) PROVE SweepInv'
  BY <1>7 DEF AbandonSweep, CredTypeOK, NoSweep
<1>8. CASE UNCHANGED credVars
  BY <1>8 DEF credVars
<1> QED BY <1>1, <1>2, <1>3, <1>4, <1>5, <1>6, <1>7, <1>8 DEF StoreStep

\* A sweep only deletes.
LEMMA SweepFollows ==
  ASSUME SweepInv, NEW r \in Req, DeleteMembers(r) \/ AbandonSweep(r)
  PROVE  Follows
  BY DEF DeleteMembers, AbandonSweep, Follows

\* Nothing is stored for an inactive user but what escapes or replaces.
LEMMA QuietFollows ==
  ASSUME SweepInv, QuietStep
  PROVE  Follows /\ mode' = mode /\ sweep' = sweep
<1> USE DEF Follows, SweepInv, CredTypeOK
<1>1. ASSUME NEW c \in Cred, LoginChecks(c) \/ LoginStores(c)
      PROVE  Follows /\ mode' = mode /\ sweep' = sweep
  BY <1>1 DEF LoginChecks, BeginLogin, LoginStores, StoreCredential
<1>2. ASSUME NEW c \in Cred, NEW n \in Cred, RotateCredential(c, n)
      PROVE  Follows /\ mode' = mode /\ sweep' = sweep
  BY <1>2 DEF RotateCredential
<1>3. ASSUME NEW u \in User, IndexExpires(u)
      PROVE  Follows /\ mode' = mode /\ sweep' = sweep
  BY <1>3 DEF IndexExpires
<1>4. ASSUME NEW c \in Cred, CredentialEnds(c)
      PROVE  Follows /\ mode' = mode /\ sweep' = sweep
  BY <1>4 DEF CredentialEnds
<1> QED BY <1>1, <1>2, <1>3, <1>4 DEF QuietStep, StoreMoves

\* The commit of a change of status or role.
LEMMA CommitCredInv ==
  ASSUME IInv, CredInv, NEW r \in Req,
         CommitRole(r) \/ CommitStatus(r) \/ CommitUnanswered(r)
  PROVE  CredInv'
<1> DEFINE t == op[r].target
<1>1. pc[r] = "updated" /\ op[r] \in Op /\ t \in User /\ t \in registered /\ r \notin pending
  BY DEF CommitRole, CommitStatus, CommitUnanswered, IInv, DecisionHolds, Op,
         OldRowIsCurrent, CredInv, Revoking
<1>2. WriteRow(r) /\ registered' = registered /\ UNCHANGED credVars
  BY DEF CommitRole, CommitStatus, CommitUnanswered
<1>3. \A q \in Req : q # r => pc'[q] = pc[q] /\ op'[q] = op[q]
  BY OthersKeepLocals DEF RequestStep, Step
<1>4. \/ pc'[r] = "idle"
      \/ pc'[r] = "revoke_sessions" /\ op' = op /\ op[r].kind = "status" /\ ~op[r].active
  BY DEF CommitRole, CommitStatus, CommitUnanswered, Answer, Goto, IInv, TypeOK
<1>5. op[r].kind = "role" => active' = active /\ cut' = cut /\ pending' = pending
  BY DEF CommitRole, CommitStatus, CommitUnanswered, WriteRow
<1>6. op[r].kind = "status" =>
        /\ active' = [active EXCEPT ![t] = op[r].active]
        /\ cut' = (IF op[r].active THEN cut \ {t} ELSE cut)
        /\ pending' \subseteq NotOvertaken(r) \cup {r}
        /\ r \in pending' => pc'[r] = "revoke_sessions" /\ op' = op /\ ~op[r].active
  BY <1>1 DEF CommitRole, CommitStatus, CommitUnanswered, WriteRow, NotOvertaken, Goto, IInv, TypeOK
<1>7. op[r].kind \in {"role", "status"}
  BY DEF CommitRole, CommitStatus, CommitUnanswered, IInv, DecisionHolds, InProcedure, Op
<1>8. pending \subseteq Req /\ cut \subseteq User /\ active \in [User -> BOOLEAN] /\ registered \subseteq User
  BY DEF IInv, TypeOK
<1>a. SweepInv'
  BY <1>2, StoreSweepInv DEF StoreStep, CredInv
<1>b. \A u \in User \ registered' : active'[u]
  BY <1>1, <1>2, <1>5, <1>6, <1>7, <1>8 DEF CredInv
<1>c. \A u \in cut' : ~active'[u]
  BY <1>1, <1>5, <1>6, <1>7, <1>8 DEF CredInv
<1>d. \A q \in pending' : q # r => q \in pending /\ (op[r].kind = "status" => op[q].target # t)
  BY <1>5, <1>6, <1>7 DEF NotOvertaken
<1>e. \A q \in pending' : pc'[q] \in Revoking /\ op'[q].kind = "status" /\ ~active'[op'[q].target]
  <2>1. SUFFICES ASSUME NEW q \in pending'
                 PROVE  pc'[q] \in Revoking /\ op'[q].kind = "status" /\ ~active'[op'[q].target]
    OBVIOUS
  <2>2. CASE q = r
    BY <1>1, <1>4, <1>5, <1>6, <1>7, <1>8, <2>1, <2>2 DEF Revoking
  <2>3. CASE q # r
    <3>1. q \in Req /\ q \in pending /\ pc'[q] = pc[q] /\ op'[q] = op[q]
      BY <1>3, <1>d, <1>8, <2>1, <2>3
    <3>2. pc[q] \in Revoking /\ op[q].kind = "status" /\ ~active[op[q].target]
      BY <3>1 DEF CredInv
    <3>3. op[q].target \in User
      BY <3>1, <3>2 DEF IInv, DecisionHolds, Op, Revoking
    <3>4. active'[op[q].target] = active[op[q].target]
      BY <1>1, <1>5, <1>6, <1>7, <1>8, <1>d, <2>1, <2>3, <3>3
    <3> QED BY <3>1, <3>2, <3>4
  <2> QED BY <2>2, <2>3
<1>f. \A q \in Req : Sweeping(q)' => op'[q].target \in sweep'[q].users
  BY <1>2, <1>3, <1>4 DEF Sweeping, CredInv, credVars
<1>g. \A q \in pending', c \in stored' :
        Swung(q)' /\ UserOf[c] = op'[q].target => c \in escaped'
  BY <1>2, <1>3, <1>4, <1>d, <1>8 DEF Swung, CredInv, credVars
<1>h. DeactivatedHoldNothing'
  BY <1>2, <1>5, <1>6, <1>7 DEF DeactivatedHoldNothing, CredInv, credVars
<1> QED BY <1>a, <1>b, <1>c, <1>e, <1>f, <1>g, <1>h DEF CredInv

\* The two calls of each revocation, and what ends a request among them.
LEMMA RevocationCredInv ==
  ASSUME IInv, CredInv, NEW r \in Req,
         \/ SessionMembers(r) \/ DeleteAllSessions(r) \/ RefreshMembers(r)
         \/ RevokeAllRefreshTokens(r) \/ RedisFails(r)
  PROVE  CredInv'
<1> DEFINE t == op[r].target
<1>0. /\ pending \subseteq Req /\ cut \subseteq User /\ op[r] \in Op /\ t \in User
      /\ pc[r] \in Revoking /\ pc \in [Req -> PC] /\ op \in [Req -> Op \cup {NoOp}]
      /\ sweep \in [Req -> [users : SUBSET User, creds : SUBSET Cred]]
  BY DEF SessionMembers, DeleteAllSessions, RefreshMembers, RevokeAllRefreshTokens,
         RedisFails, IInv, TypeOK, DecisionHolds, Op, Revoking, CredTypeOK
<1>1. SweepInv'
  BY RequestStore, StoreSweepInv DEF RequestStep, Step, CredInv
<1>2. UNCHANGED <<registered, active, mode>>
  BY DEF SessionMembers, DeleteAllSessions, RefreshMembers, RevokeAllRefreshTokens,
         RedisFails, userVars, ReadMembers, DeleteMembers, AbandonSweep
<1>3. \A q \in Req : q # r => pc'[q] = pc[q] /\ op'[q] = op[q] /\ sweep'[q] = sweep[q]
  <2>1. \A q \in Req : q # r => sweep'[q] = sweep[q]
    BY <1>0 DEF SessionMembers, DeleteAllSessions, RefreshMembers, RevokeAllRefreshTokens,
           RedisFails, ReadMembers, DeleteMembers, AbandonSweep
  <2> QED BY <2>1, OthersKeepLocals DEF RequestStep, Step
<1>4. Follows
  <2>1. CASE SessionMembers(r) \/ RefreshMembers(r)
    BY <2>1 DEF SessionMembers, RefreshMembers, ReadMembers, Follows
  <2>2. CASE DeleteAllSessions(r) \/ RevokeAllRefreshTokens(r) \/ RedisFails(r)
    BY <2>2, SweepFollows
    DEF DeleteAllSessions, RevokeAllRefreshTokens, RedisFails, CredInv
  <2> QED BY <2>1, <2>2
<1>5. pending' \subseteq pending /\ (pc'[r] = "idle" => r \notin pending')
  BY <1>0 DEF SessionMembers, DeleteAllSessions, RefreshMembers, RevokeAllRefreshTokens,
         RedisFails, Goto
<1>6. pc'[r] = "idle" \/ (pc'[r] \in Revoking /\ op' = op)
  BY <1>0 DEF SessionMembers, DeleteAllSessions, RefreshMembers, RevokeAllRefreshTokens,
         RedisFails, Goto, Answer, Revoking
<1>7. \A q \in pending' : pc'[q] \in Revoking /\ op'[q] = op[q] /\ op[q].kind = "status"
                          /\ ~active[op[q].target] /\ op[q].target \in User
  <2>1. SUFFICES ASSUME NEW q \in pending'
        PROVE  pc'[q] \in Revoking /\ op'[q] = op[q] /\ op[q].kind = "status"
               /\ ~active[op[q].target] /\ op[q].target \in User
    OBVIOUS
  <2>2. q \in pending /\ q \in Req
    BY <1>0, <1>5, <2>1
  <2>3. pc[q] \in Revoking /\ op[q].kind = "status" /\ ~active[op[q].target]
    BY <2>2 DEF CredInv
  <2>4. op[q].target \in User
    BY <2>2, <2>3 DEF IInv, DecisionHolds, Op, Revoking
  <2> QED BY <1>3, <1>5, <1>6, <2>1, <2>2, <2>3, <2>4
\* What is clean and inactive stays so.
<1>8. ASSUME NEW u \in User, ~active[u], \A c \in stored : UserOf[c] = u => c \in escaped
      PROVE  \A c \in stored' : UserOf[c] = u => c \in escaped'
  BY <1>4, <1>8 DEF Follows
\* The pipeline that matters leaves nothing of the target but escaped.
<1>9. ASSUME Sweeping(r), DeleteMembers(r), NEW c \in stored', UserOf[c] = t
      PROVE  c \in escaped'
  <2>1. t \in sweep[r].users
    BY <1>9 DEF CredInv
  <2>2. c \in stored /\ c \notin sweep[r].creds
    BY <1>9 DEF DeleteMembers
  <2>3. c \in escaped
    BY <1>9, <2>1, <2>2 DEF CredInv, SweepInv
  <2> QED BY <1>9, <2>2, <2>3 DEF DeleteMembers
<1>a. \A q \in Req : Sweeping(q)' => op'[q].target \in sweep'[q].users
  <2>1. SUFFICES ASSUME NEW q \in Req, Sweeping(q)' PROVE op'[q].target \in sweep'[q].users
    OBVIOUS
  <2>2. CASE q # r
    BY <1>2, <1>3, <2>1, <2>2 DEF Sweeping, CredInv
  <2>3. CASE q = r
    <3>1. CASE SessionMembers(r)
      BY <1>0, <1>2, <2>1, <2>3, <3>1 DEF SessionMembers, ReadMembers, Sweeping, Goto
    <3>2. CASE RefreshMembers(r)
      BY <1>0, <1>2, <2>1, <2>3, <3>2 DEF RefreshMembers, ReadMembers, Sweeping, Goto
    <3>3. CASE DeleteAllSessions(r) \/ RevokeAllRefreshTokens(r) \/ RedisFails(r)
      BY <1>0, <2>1, <2>3, <3>3
      DEF DeleteAllSessions, RevokeAllRefreshTokens, RedisFails, Sweeping, Goto, Answer
    <3> QED BY <3>1, <3>2, <3>3
  <2> QED BY <2>2, <2>3
<1>b. \A q \in pending', c \in stored' :
        Swung(q)' /\ UserOf[c] = op'[q].target => c \in escaped'
  <2>1. SUFFICES ASSUME NEW q \in pending', NEW c \in stored', Swung(q)', UserOf[c] = op'[q].target
                 PROVE  c \in escaped'
    OBVIOUS
  <2>2. q \in pending /\ q \in Req
    BY <1>0, <1>5
  <2>3. CASE Swung(q)
    <3>1. \A d \in stored : UserOf[d] = op[q].target => d \in escaped
      BY <2>2, <2>3 DEF CredInv
    <3> QED BY <1>7, <1>8, <2>1, <3>1
  <2>4. CASE ~Swung(q)
    <3>1. q = r
      BY <1>2, <1>3, <2>1, <2>2, <2>4 DEF Swung
    <3>2. DeleteAllSessions(r) /\ mode = "session"
      BY <1>0, <1>2, <2>1, <2>4, <3>1
      DEF Swung, SessionMembers, DeleteAllSessions, RefreshMembers,
          RevokeAllRefreshTokens, RedisFails, Goto, Answer
    <3>3. Sweeping(r) /\ DeleteMembers(r)
      BY <3>2 DEF DeleteAllSessions, Sweeping
    <3> QED BY <1>7, <1>9, <2>1, <3>1, <3>3
  <2> QED BY <2>3, <2>4
<1>c. DeactivatedHoldNothing' /\ \A u \in cut' : ~active'[u]
  <2>1. SUFFICES ASSUME NEW u \in cut'
                 PROVE  ~active'[u] /\ \A c \in stored' : UserOf[c] = u => c \in escaped'
    BY DEF DeactivatedHoldNothing
  <2>2. CASE u \in cut
    <3>1. ~active[u] /\ u \in User /\ \A c \in stored : UserOf[c] = u => c \in escaped
      BY <1>0, <2>2 DEF CredInv, DeactivatedHoldNothing
    <3> QED BY <1>2, <1>8, <3>1
  <2>3. CASE u \notin cut
    <3>1. RevokeAllRefreshTokens(r) /\ r \in pending /\ u = t
      BY <2>1, <2>3
      DEF SessionMembers, DeleteAllSessions, RefreshMembers, RevokeAllRefreshTokens, RedisFails
    <3>2. ~active[t] /\ pc[r] = "delete_refresh" /\ DeleteMembers(r)
      BY <3>1 DEF CredInv, RevokeAllRefreshTokens
    <3>3. CASE mode = "jwt"
      BY <1>2, <1>9, <3>1, <3>2, <3>3 DEF Sweeping
    <3>4. CASE mode = "session"
      <4>1. \A c \in stored : UserOf[c] = t => c \in escaped
        BY <3>1, <3>2, <3>4 DEF CredInv, Swung
      <4> QED BY <1>0, <1>2, <1>8, <3>1, <3>2, <4>1
    <3> QED BY <3>3, <3>4 DEF CredInv, SweepInv, CredTypeOK
  <2> QED BY <2>2, <2>3
<1> QED BY <1>1, <1>2, <1>7, <1>a, <1>b, <1>c DEF CredInv

\* Every step of the system preserves it.
LEMMA NextCredInv == IInv /\ CredInv /\ [Next]_vars => CredInv'
<1> SUFFICES ASSUME IInv, CredInv, [Next]_vars PROVE CredInv'
  OBVIOUS
<1>0. pending \subseteq Req /\ cut \subseteq User /\ registered \subseteq User
      /\ active \in [User -> BOOLEAN]
  BY DEF IInv, TypeOK
<1>1. ASSUME NEW r \in Req, RequestStep(r) PROVE CredInv'
  <2>1. CASE CommitRole(r) \/ CommitStatus(r) \/ CommitUnanswered(r)
    BY <2>1, CommitCredInv
  <2>2. CASE \/ SessionMembers(r) \/ DeleteAllSessions(r) \/ RefreshMembers(r)
             \/ RevokeAllRefreshTokens(r) \/ RedisFails(r)
    BY <2>2, RevocationCredInv
  <2>3. CASE ~ \/ CommitRole(r) \/ CommitStatus(r) \/ CommitUnanswered(r)
               \/ SessionMembers(r) \/ DeleteAllSessions(r) \/ RefreshMembers(r)
               \/ RevokeAllRefreshTokens(r) \/ RedisFails(r)
    <3>1. /\ UNCHANGED <<userVars, pending, cut, credVars>>
          /\ pc[r] \notin Revoking
          /\ pc'[r] \notin {"delete_sessions", "revoke_refresh", "delete_refresh"}
      BY <1>1, <2>3
      DEF RequestStep, Step, RejectSelf, EnterProcedure, AcquireLock, RejectMissing,
          SelectTarget, RejectLastAdmin, UpdateRow, ForceLogout, Rollback, Call,
          userVars, redisVars, InProcedure, Revoking, Goto, Answer, IInv, TypeOK
    <3>2. \A q \in Req : q # r => pc'[q] = pc[q] /\ op'[q] = op[q]
      BY <1>1, OthersKeepLocals
    <3>3. r \notin pending
      BY <3>1 DEF CredInv
    <3>4. SweepInv'
      BY <3>1, StoreSweepInv DEF StoreStep, CredInv
    <3> QED
      BY <1>0, <3>1, <3>2, <3>3, <3>4
      DEF CredInv, Sweeping, Swung, DeactivatedHoldNothing, userVars, credVars
  <2> QED BY <2>1, <2>2, <2>3
<1>2. ASSUME NEW u \in User, Register(u) PROVE CredInv'
  <2>1. active[u] /\ registered' = registered \cup {u} /\ UNCHANGED <<pc, op, redisVars>>
    BY <1>2 DEF Register, CredInv
  <2>2. \A v \in User : active'[v] <=> active[v]
    BY <1>2, <2>1 DEF Register, IInv, TypeOK
  <2>3. SweepInv'
    BY <2>1, StoreSweepInv DEF StoreStep, CredInv, redisVars
  <2>4. \A q \in pending : ~active'[op[q].target]
    <3>1. \A q \in pending : op[q].target \in User /\ ~active[op[q].target]
      BY <1>0 DEF CredInv, IInv, DecisionHolds, Op, Revoking
    <3> QED BY <2>2, <3>1
  <2> QED
    BY <1>0, <2>1, <2>2, <2>3, <2>4
    DEF CredInv, Sweeping, Swung, DeactivatedHoldNothing, redisVars, credVars
<1>3. CASE QuietStep
  <2>1. StoreStep /\ UNCHANGED <<userVars, lock, pc, op, old, pending, cut>>
    BY <1>3, QuietStore
  <2>2. Follows /\ mode' = mode /\ sweep' = sweep
    BY <1>3, QuietFollows DEF CredInv
  <2>3. SweepInv'
    BY <2>1, StoreSweepInv DEF CredInv
  <2>4. ASSUME NEW u \in User, ~active[u], \A c \in stored : UserOf[c] = u => c \in escaped
        PROVE  \A c \in stored' : UserOf[c] = u => c \in escaped'
    BY <2>2, <2>4 DEF Follows
  <2>5. \A q \in pending : op[q].target \in User /\ ~active[op[q].target]
    BY <1>0 DEF CredInv, IInv, DecisionHolds, Op, Revoking
  <2>6. \A q \in pending', c \in stored' :
          Swung(q)' /\ UserOf[c] = op'[q].target => c \in escaped'
    BY <2>1, <2>2, <2>4, <2>5 DEF CredInv, Swung
  <2>7. DeactivatedHoldNothing'
    BY <1>0, <2>1, <2>4 DEF CredInv, DeactivatedHoldNothing
  <2> QED BY <1>0, <2>1, <2>2, <2>3, <2>6, <2>7 DEF CredInv, Sweeping, userVars
<1>4. CASE UNCHANGED vars
  <2>1. SweepInv'
    BY <1>4, StoreSweepInv DEF vars, StoreStep, CredInv
  <2> QED
    BY <1>4, <2>1 DEF vars, CredInv, Sweeping, Swung, DeactivatedHoldNothing, credVars
<1> QED
  BY <1>1, <1>2, <1>3, <1>4 DEF Next, RequestStep, QuietStep

\* A deactivation that came to its end leaves no stored credential but what
\* escaped it, for any number of admins, accounts, logins and rotations, in
\* both modes (change_status: the row first, then the two calls of delete_all
\* and of revoke_all).
THEOREM DeactivationClears == Spec => []DeactivatedHoldNothing
<1>1. CredInv => DeactivatedHoldNothing
  BY DEF CredInv
<1> QED
  BY <1>1, Invariance, InitCredInv, NextCredInv, PTL DEF Spec
=============================================================================
