------------------------------ MODULE TaskBoard ------------------------------
(***************************************************************************)
(* The order of the tasks on one board: sp_create_task, sp_update_task and *)
(* sp_deactivate_task as task_service calls them, run by concurrent        *)
(* PostgreSQL transactions under READ COMMITTED.                           *)
(*                                                                         *)
(* "row" holds what is committed.  A transaction's own writes (wr) become  *)
(* visible at COMMIT.  An UPDATE of several rows chooses its candidates    *)
(* from a snapshot taken when the statement starts, then takes the row     *)
(* locks one by one and tests its WHERE clause again on the newest         *)
(* committed version of each row; rows that begin to match later are not   *)
(* touched.  Title, description, assignee, due date and is_active play no  *)
(* part in the order and are left out; their writes are the version's.     *)
(* The service never passes p_position = NULL to sp_update_task, nor a     *)
(* position to sp_create_task, so those branches are not reachable.        *)
(***************************************************************************)
EXTENDS Integers, Sequences, FiniteSets

CONSTANTS Id, Tx, None,
          Status,      \* the columns of the board
          MaxPosition, \* bound: the largest position a client asks for
          Kinds        \* bound: the operations that run

ASSUME TxAssumption == None \notin Tx
ASSUME IdAssumption == IsFiniteSet(Id)
ASSUME StatusAssumption == Status \subseteq {"todo", "in_progress", "done"}
ASSUME MaxPositionAssumption == MaxPosition \in Nat
ASSUME KindsAssumption == Kinds \subseteq {"create", "update", "deactivate"}

VARIABLES
  present,  \* ids in the tasks table
  row,      \* committed status, position and version
  colLock,  \* advisory lock of each column (project_id:status)
  rowLock,  \* row lock of each task
  pc,
  arg,      \* what a request passes to its procedure
  loc,      \* the local variables of a procedure
  wr,       \* uncommitted writes of a transaction: a function on the rows written
  constrained, \* project_id is not NULL: uq_tasks_project_status_position applies
  bare      \* a transaction has shifted positions without the column's lock

boardVars == <<present, row, colLock, rowLock, pc, arg, loc, wr, constrained, bare>>
table == <<present, row, constrained, bare>>
locks == <<colLock, rowLock>>
-----------------------------------------------------------------------------
Row == [status : Status, pos : Nat, version : Nat]
Empty == <<>>   \* the function with no rows, and the empty list of statements

\* UPDATE tasks SET position = position + by
\*  WHERE status = col AND position BETWEEN from AND to (to = NoLimit: no bound)
NoLimit == -1
Shift(col, from, to, by) == [col |-> col, from |-> from, to |-> to, by |-> by]
Matches(stmt, w) ==
  w.status = stmt.col /\ w.pos >= stmt.from /\ (stmt.to = NoLimit \/ w.pos <= stmt.to)

\* The lock keys are taken in the order of their text.
KeyRank == [done |-> 1, in_progress |-> 2, todo |-> 3]

\* Mutant: the old column's key first, whatever the order of the keys.
InOldNewOrder(s, t) == <<s, t>>

InKeyOrder(s, t) == IF KeyRank[s] < KeyRank[t] THEN <<s, t>> ELSE <<t, s>>

PC == {"new", "read", "lock", "rows", "touch", "commit", "done"}
NoArg == [kind |-> "none"]
Arg == {NoArg} \cup
       [kind : {"update"}, task : Id, version : Nat, askedStatus : Status \cup {None},
        askedPos : Nat \cup {None}, status : Status, pos : Nat] \cup
       [kind : {"create"}, status : Status] \cup [kind : {"deactivate"}, task : Id]

UpToTwo(S) == {q \in Seq(S) : Len(q) <= 2}
Stmt == {st \in [col : Status, from : Nat, to : Nat \cup {NoLimit}, by : {-1, 1}] :
           st.by = -1 => st.from > 0}
NoLoc == [keys |-> Empty, plan |-> Empty, todo |-> {}, status |-> None]
Loc == [keys : UpToTwo(Status), plan : UpToTwo(Stmt), todo : SUBSET Id, status : Status \cup {None}]

BoardTypeOK ==
  /\ present \subseteq Id
  /\ row \in [Id -> Row]
  /\ colLock \in [Status -> Tx \cup {None}]
  /\ rowLock \in [Id -> Tx \cup {None}]
  /\ pc \in [Tx -> PC] /\ arg \in [Tx -> Arg] /\ loc \in [Tx -> Loc]
  /\ DOMAIN wr = Tx
  /\ \A r \in Tx : /\ DOMAIN wr[r] \subseteq Id
                   /\ \A t \in DOMAIN wr[r] : wr[r][t] \in Row
  /\ constrained \in BOOLEAN /\ bare \in BOOLEAN
-----------------------------------------------------------------------------
\* What a statement of r reads: committed rows and the transaction's own.
Visible(r) == present \cup DOMAIN wr[r]
View(r, t) == IF t \in DOMAIN wr[r] THEN wr[r][t] ELSE row[t]
WriteRow(r, t, w) == wr' = [wr EXCEPT ![r] = [u \in DOMAIN wr[r] \cup {t} |->
                                             IF u = t THEN w ELSE wr[r][u]]]

\* fn_next_task_position: COALESCE(MAX(position), -1) + 1
NextPosition(r, s) ==
  LET taken == {View(r, t).pos : t \in {u \in Visible(r) : View(r, u).status = s}}
  IN  IF taken = {} THEN 0 ELSE 1 + CHOOSE p \in taken : \A q \in taken : q <= p

\* Mutant: the row at the place asked for is not moved out of the way.
ShiftPlanPast(old, pos, newStatus, newPos) ==
  IF newStatus # old
  THEN <<Shift(old, pos + 1, NoLimit, -1), Shift(newStatus, newPos + 1, NoLimit, 1)>>
  ELSE IF newPos > pos THEN <<Shift(old, pos + 1, newPos, -1)>>
  ELSE IF newPos < pos THEN <<Shift(old, newPos, pos - 1, 1)>>
  ELSE Empty

\* What follows the version check in sp_update_task: the shift statements for
\* a task now at "pos" of column "old".
ShiftPlan(old, pos, newStatus, newPos) ==
  IF newStatus # old
  THEN <<Shift(old, pos + 1, NoLimit, -1), Shift(newStatus, newPos, NoLimit, 1)>>
  ELSE IF newPos > pos THEN <<Shift(old, pos + 1, newPos, -1)>>
  ELSE IF newPos < pos THEN <<Shift(old, newPos, pos - 1, 1)>>
  ELSE Empty

Proceed(r, label) == pc' = [pc EXCEPT ![r] = label]

\* COMMIT or ROLLBACK: all locks are released.
EndTransaction(r) ==
  /\ Proceed(r, "done")
  /\ colLock' = [s \in Status |-> IF colLock[s] = r THEN None ELSE colLock[s]]
  /\ rowLock' = [t \in Id |-> IF rowLock[t] = r THEN None ELSE rowLock[t]]
  /\ wr' = [wr EXCEPT ![r] = Empty]
  /\ loc' = [loc EXCEPT ![r] = NoLoc]
  /\ arg' = [arg EXCEPT ![r] = NoArg]

Column(s) == {t \in present : row[t].status = s}

\* Any board whose columns are numbered from 0 without gaps.
BoardInit ==
  /\ present \in SUBSET Id
  /\ row \in [Id -> [status : Status, pos : 0 .. Cardinality(Id), version : {1}]]
  /\ \A t \in Id \ present : row[t] = [status |-> CHOOSE s \in Status : TRUE, pos |-> 0, version |-> 1]
  /\ \A s \in Status : {row[t].pos : t \in Column(s)} = 0 .. (Cardinality(Column(s)) - 1)
  /\ colLock = [s \in Status |-> None]
  /\ rowLock = [t \in Id |-> None]
  /\ pc = [r \in Tx |-> "new"]
  /\ arg = [r \in Tx |-> NoArg]
  /\ loc = [r \in Tx |-> NoLoc]
  /\ wr = [r \in Tx |-> Empty]
  /\ constrained \in BOOLEAN
  /\ bare = FALSE
-----------------------------------------------------------------------------
\* update_task: get_by_id reads the task; what the payload leaves out (None)
\* is filled in from that reading.  payload.version is one the client has seen.
StartUpdate(r, t, version, askedStatus, askedPos) ==
  /\ pc[r] = "new" /\ "update" \in Kinds
  /\ t \in present
  /\ version \in 1 .. row[t].version
  /\ arg' = [arg EXCEPT ![r] =
       [kind |-> "update", task |-> t, version |-> version,
        askedStatus |-> askedStatus, askedPos |-> askedPos,
        status |-> IF askedStatus = None THEN row[t].status ELSE askedStatus,
        pos    |-> IF askedPos = None THEN row[t].pos ELSE askedPos]]
  /\ Proceed(r, "read")
  /\ UNCHANGED <<table, locks, loc, wr>>

\* sp_update_task reads status and position without a lock and decides from
\* them which columns to lock.
ReadTarget(r) ==
  /\ pc[r] = "read"
  /\ LET a   == arg[r]
         old == row[a.task]
     IN  loc' = [loc EXCEPT ![r] =
           [keys   |-> IF a.status # old.status THEN InKeyOrder(old.status, a.status)
                       ELSE IF a.pos # old.pos THEN <<old.status>> ELSE Empty,
            plan   |-> Empty,
            todo   |-> {},
            status |-> old.status]]
  /\ Proceed(r, "lock")
  /\ UNCHANGED <<table, locks, arg, wr>>

\* pg_advisory_xact_lock, one column after the other.
LockColumn(r) ==
  /\ pc[r] = "lock"
  /\ loc[r].keys # Empty
  /\ colLock[Head(loc[r].keys)] = None
  /\ colLock' = [colLock EXCEPT ![Head(loc[r].keys)] = r]
  /\ loc' = [loc EXCEPT ![r].keys = Tail(@)]
  /\ UNCHANGED <<table, rowLock, pc, arg, wr>>

\* Mutant: the version is not compared after the row is locked.
LockTargetUnchecked(r) ==
  LET a    == arg[r]
      plan == ShiftPlan(loc[r].status, row[a.task].pos, a.status, a.pos)
  IN
  /\ pc[r] = "lock" /\ a.kind = "update"
  /\ loc[r].keys = Empty
  /\ rowLock[a.task] = None
  /\ rowLock' = [rowLock EXCEPT ![a.task] = r]
  /\ loc' = [loc EXCEPT ![r].plan = plan]
  /\ bare' = (bare \/ \E i \in DOMAIN plan : colLock[plan[i].col] # r)
  /\ Proceed(r, "rows")
  /\ UNCHANGED <<present, row, constrained, colLock, arg, wr>>

\* SELECT ... FOR UPDATE waits for the row, reads its position and version,
\* and the version check passes; v_old_status stays what it was.
LockTarget(r) ==
  LET a    == arg[r]
      plan == ShiftPlan(loc[r].status, row[a.task].pos, a.status, a.pos)
  IN
  /\ pc[r] = "lock" /\ a.kind = "update"
  /\ loc[r].keys = Empty
  /\ rowLock[a.task] = None
  /\ row[a.task].version = a.version
  /\ rowLock' = [rowLock EXCEPT ![a.task] = r]
  /\ loc' = [loc EXCEPT ![r].plan = plan]
  /\ bare' = (bare \/ \E i \in DOMAIN plan : colLock[plan[i].col] # r)
  /\ Proceed(r, "rows")
  /\ UNCHANGED <<present, row, constrained, colLock, arg, wr>>

\* P0005: the transaction rolls back.
VersionConflict(r) ==
  /\ pc[r] = "lock" /\ arg[r].kind = "update"
  /\ loc[r].keys = Empty
  /\ rowLock[arg[r].task] = None
  /\ row[arg[r].task].version # arg[r].version
  /\ EndTransaction(r)
  /\ UNCHANGED table

\* The next shift statement begins: its snapshot gives the candidates.
StartStatement(r) ==
  /\ pc[r] = "rows"
  /\ loc[r].plan # Empty /\ loc[r].todo = {}
  /\ LET hits == {t \in Visible(r) \ {arg[r].task} : Matches(Head(loc[r].plan), View(r, t))}
     IN  loc' = IF hits = {} THEN [loc EXCEPT ![r].plan = Tail(@)]
                ELSE [loc EXCEPT ![r].todo = hits]
  /\ UNCHANGED <<table, locks, pc, arg, wr>>

\* One candidate: wait for its row and lock it, test WHERE again on the current
\* version, write it if that still holds; the lock stays either way.  After the
\* last one the statement is over.
ShiftRow(r, t) ==
  LET stmt == Head(loc[r].plan)
      cur  == View(r, t)
  IN
  /\ pc[r] = "rows"
  /\ t \in loc[r].todo
  /\ rowLock[t] \in {None, r}
  /\ loc' = [loc EXCEPT ![r].todo = @ \ {t},
                        ![r].plan = IF loc[r].todo = {t} THEN Tail(@) ELSE @]
  /\ rowLock' = [rowLock EXCEPT ![t] = r]
  /\ IF Matches(stmt, cur) THEN WriteRow(r, t, [cur EXCEPT !.pos = @ + stmt.by]) ELSE UNCHANGED wr
  /\ UNCHANGED <<table, colLock, pc, arg>>

\* The last UPDATE of sp_update_task, of the row locked all along: its WHERE
\* version = p_version always finds the row.
UpdateTarget(r) ==
  LET a == arg[r] IN
  /\ pc[r] = "rows"
  /\ loc[r].plan = Empty /\ loc[r].todo = {}
  /\ row[a.task].version = a.version
  /\ WriteRow(r, a.task, [status |-> a.status, pos |-> a.pos, version |-> a.version + 1])
  /\ Proceed(r, "commit")
  /\ UNCHANGED <<table, locks, arg, loc>>

\* create_task: sp_create_task locks the column ...
StartCreate(r, s) ==
  /\ pc[r] = "new" /\ "create" \in Kinds
  /\ arg' = [arg EXCEPT ![r] = [kind |-> "create", status |-> s]]
  /\ loc' = [loc EXCEPT ![r] = [NoLoc EXCEPT !.keys = <<s>>]]
  /\ Proceed(r, "lock")
  /\ UNCHANGED <<table, locks, wr>>

\* ... and inserts at its end.  The id is new.
InsertTask(r, t) ==
  /\ pc[r] = "lock" /\ arg[r].kind = "create"
  /\ loc[r].keys = Empty
  /\ t \notin present /\ \A q \in Tx : t \notin DOMAIN wr[q]
  /\ WriteRow(r, t, [status |-> arg[r].status, pos |-> NextPosition(r, arg[r].status), version |-> 1])
  /\ Proceed(r, "commit")
  /\ UNCHANGED <<table, locks, arg, loc>>

\* deactivate_task: sp_deactivate_task is a single UPDATE that waits for the
\* row and takes it at its newest version.
StartDeactivate(r, t) ==
  /\ pc[r] = "new" /\ "deactivate" \in Kinds
  /\ t \in present
  /\ arg' = [arg EXCEPT ![r] = [kind |-> "deactivate", task |-> t]]
  /\ Proceed(r, "touch")
  /\ UNCHANGED <<table, locks, loc, wr>>

Deactivate(r) ==
  LET t == arg[r].task IN
  /\ pc[r] = "touch"
  /\ rowLock[t] = None
  /\ rowLock' = [rowLock EXCEPT ![t] = r]
  /\ WriteRow(r, t, [row[t] EXCEPT !.version = @ + 1])
  /\ Proceed(r, "commit")
  /\ UNCHANGED <<table, colLock, arg, loc>>

\* Two rows of the board as it would be after r's COMMIT share a position.
Collides(r) ==
  \E t \in DOMAIN wr[r], u \in Visible(r) :
    t # u /\ View(r, t).status = View(r, u).status /\ View(r, t).pos = View(r, u).pos

\* db.commit(), when the deferred constraint is satisfied or does not apply.
Commit(r) ==
  /\ pc[r] = "commit"
  /\ ~(constrained /\ Collides(r))
  /\ present' = Visible(r)
  /\ row' = [t \in Id |-> View(r, t)]
  /\ EndTransaction(r)
  /\ UNCHANGED <<constrained, bare>>

\* The deferred uniqueness check fails at COMMIT.
CommitFails(r) ==
  /\ pc[r] = "commit"
  /\ constrained /\ Collides(r)
  /\ EndTransaction(r)
  /\ UNCHANGED table

\* r waits for a lock that q holds.
Waits(r, q) ==
  \/ pc[r] = "lock" /\ loc[r].keys # Empty /\ colLock[Head(loc[r].keys)] = q
  \/ pc[r] = "lock" /\ loc[r].keys = Empty /\ arg[r].kind = "update" /\ rowLock[arg[r].task] = q
  \/ pc[r] = "touch" /\ rowLock[arg[r].task] = q
  \/ pc[r] = "rows" /\ \E t \in loc[r].todo : rowLock[t] = q
Deadlocked == \E S \in (SUBSET Tx) \ {{}} : \A r \in S : \E q \in S \ {r} : Waits(r, q)

\* Any DBAPIError (an inactive assignee's P0006, PostgreSQL's deadlock
\* detection, a lost connection): db.rollback().
Abort(r) ==
  /\ pc[r] \notin {"new", "done"}
  /\ EndTransaction(r)
  /\ UNCHANGED table

BoardNext ==
  \/ \E r \in Tx, t \in Id, v \in 1 .. (Cardinality(Tx) + 1),
       s \in Status \cup {None}, p \in (0 .. MaxPosition) \cup {None} :
       StartUpdate(r, t, v, s, p)
  \/ \E r \in Tx, s \in Status : StartCreate(r, s)
  \/ \E r \in Tx, t \in Id : StartDeactivate(r, t) \/ InsertTask(r, t) \/ ShiftRow(r, t)
  \/ \E r \in Tx : \/ ReadTarget(r) \/ LockColumn(r) \/ LockTarget(r) \/ VersionConflict(r)
                   \/ StartStatement(r) \/ UpdateTarget(r) \/ Deactivate(r)
                   \/ Commit(r) \/ CommitFails(r) \/ Abort(r)

BoardSpec == BoardInit /\ [][BoardNext]_boardVars
-----------------------------------------------------------------------------
PositionsUnique ==
  \A t, u \in present : t # u /\ row[t].status = row[u].status => row[t].pos # row[u].pos

\* As long as every shift ran under its columns' advisory locks, no two tasks
\* of a column share a position, and no COMMIT runs into the constraint,
\* whatever was created and moved between the numbering and the commit: the
\* locks are enough even where the constraint does not apply (tasks without a
\* project).
LockedShiftsKeepOrder ==
  ~bare => PositionsUnique /\ \A r \in Tx : pc[r] = "commit" => ~Collides(r)

\* As long as every shift ran under its columns' advisory locks, no set of
\* transactions waits for one another: column locks are taken in key order,
\* before any row.
LockedShiftsNeverDeadlock == ~bare => ~Deadlocked

\* The status a procedure read before it had any lock, by which it chose the
\* columns to close and to open, is still the task's status when it shifts:
\* the version check stands in for the missing second read.
OldStatusIsCurrent ==
  \A r \in Tx : pc[r] = "rows" => loc[r].status = row[arg[r].task].status
-----------------------------------------------------------------------------
\* "status changed, position omitted: appended to the end of the new column".
MoveAppends ==
  \A r \in Tx :
    /\ pc[r] = "commit" /\ arg[r].kind = "update"
    /\ arg[r].askedStatus \notin {None, row[arg[r].task].status} /\ arg[r].askedPos = None
    => \A t \in Visible(r) \ {arg[r].task} :
         View(r, t).status = arg[r].status => View(r, t).pos < wr[r][arg[r].task].pos
=============================================================================
