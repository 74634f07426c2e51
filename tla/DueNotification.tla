--------------------------- MODULE DueNotification ---------------------------
(***************************************************************************)
(* The due-date notification job of the batch container                    *)
(* (batch/app/jobs/due_notification_job.py), for one run date and one slot:*)
(* several runs of it (scheduler, a second container, --run-once) over one *)
(* Redis lock, while the API edits the tasks.                              *)
(*                                                                         *)
(* The queries run at READ COMMITTED, each page of tasks in a statement of *)
(* its own.  A run may fail at every call, a call may take effect although *)
(* its reply is lost, and the process may die.  A task is its place in     *)
(* ORDER BY id; a row matches the query or not, for whichever of the       *)
(* conjuncts of its WHERE; the counters of batch_history are left out.     *)
(***************************************************************************)
EXTENDS Naturals, Sequences, FiniteSets

CONSTANTS Run,       \* the runs there may be; a run's name is its runner_id
          Recipient, NoRun,
          NTasks,
          Chunk,     \* NOTIFY_DUE_BATCH_CHUNK_SIZE
          TTL,       \* NOTIFY_DUE_LOCK_TTL_SECONDS, in ticks
          MaxTime,   \* bound: the clock stops here
          MaxEdits   \* bound: edits of tasks

ASSUME NoRunAssumption == NoRun \notin Run
ASSUME SizeAssumption == NTasks \in Nat /\ Chunk \in Nat \ {0}
ASSUME TimeAssumption == TTL \in Nat \ {0} /\ MaxTime \in Nat /\ MaxEdits \in Nat

Task == 1..NTasks
Notice == Recipient \X Task   \* (user_id, dedupe_key): the key holds the task's id

VARIABLES
  now, edits,
  due,       \* the tasks the query matches
  assignee,  \* tasks.assignee_id
  notes,     \* the notifications of this date and slot
  lock,      \* lock:notify_due:{date}:{slot}
  lockExp,   \* its expiry
  outcome,   \* batch_history.status of each run
  pc,
  held,      \* lock_acquired
  since,     \* when a run was given the lock
  offset,    \* of iter_due_tasks
  pages,     \* pages of due_tasks not yet inserted
  picked,    \* everything a run has read
  stable,    \* tasks that have matched ever since the run got the lock
  departed   \* runs during whose reading a task stopped matching

taskVars  == <<due, assignee, edits>>
lockVars  == <<lock, lockExp>>
readVars  == <<offset, pages, picked, stable, departed>>
jobVars == <<now, taskVars, notes, lockVars, outcome, pc, held, since, readVars>>
-----------------------------------------------------------------------------
Status  == {"none", "inprogress", "complete", "skipped", "error"}
Working == {"read", "insert", "purge", "finish"}
PC == Working \cup {"idle", "acquire", "skip", "fail", "release", "done", "dead"}

JobTypeOK ==
  /\ now \in Nat /\ edits \in Nat
  /\ due \subseteq Task
  /\ assignee \in [Task -> Recipient]
  /\ notes \subseteq Notice
  /\ lock \in Run \cup {NoRun} /\ lockExp \in Nat
  /\ outcome \in [Run -> Status]
  /\ pc \in [Run -> PC]
  /\ held \in [Run -> BOOLEAN]
  /\ since \in [Run -> Nat]
  /\ offset \in [Run -> Nat]
  /\ pages \in [Run -> Seq(SUBSET Notice)]
  /\ picked \in [Run -> SUBSET Notice]
  /\ stable \in [Run -> SUBSET Task]
  /\ departed \subseteq Run
-----------------------------------------------------------------------------
Held == lock # NoRun /\ lockExp > now

\* A call that took effect brings the run to label, or its reply is lost and
\* the run lands in its except block.
Advance(r, label) == \E l \in {label, "fail"} : pc' = [pc EXCEPT ![r] = l]
Jump(r, label) == pc' = [pc EXCEPT ![r] = label]

JobInit ==
  /\ now = 0 /\ edits = 0
  /\ due \in SUBSET Task
  /\ assignee \in [Task -> Recipient]
  /\ notes = {}
  /\ lock = NoRun /\ lockExp = 0
  /\ outcome = [r \in Run |-> "none"]
  /\ pc = [r \in Run |-> "idle"]
  /\ held = [r \in Run |-> FALSE]
  /\ since = [r \in Run |-> 0]
  /\ offset = [r \in Run |-> 0]
  /\ pages = [r \in Run |-> <<>>]
  /\ picked = [r \in Run |-> {}]
  /\ stable = [r \in Run |-> {}]
  /\ departed = {}
-----------------------------------------------------------------------------
\* batch_history gets its row.
Start(r) ==
  /\ pc[r] = "idle"
  /\ outcome' = [outcome EXCEPT ![r] = "inprogress"]
  /\ Advance(r, "acquire")
  /\ UNCHANGED <<now, taskVars, notes, lockVars, held, since, readVars>>

\* The INSERT fails, or its commit: without a run_id the run is over, with
\* one it goes on to record its failure in a row that is not there.
StartFails(r) ==
  /\ pc[r] = "idle"
  /\ \E l \in {"done", "fail"} : Jump(r, l)
  /\ UNCHANGED <<now, taskVars, notes, lockVars, outcome, held, since, readVars>>

\* SET lock:notify_due:... runner_id NX EX ttl.  A run whose reply is lost
\* does not know that it has the lock.
Acquire(r) ==
  /\ pc[r] = "acquire"
  /\ ~Held
  /\ lock' = r
  /\ lockExp' = now + TTL
  /\ \/ /\ Jump(r, "read")
        /\ held' = [held EXCEPT ![r] = TRUE]
        /\ since' = [since EXCEPT ![r] = now]
        /\ stable' = [stable EXCEPT ![r] = due]
     \/ Jump(r, "fail") /\ UNCHANGED <<held, since, stable>>
  /\ UNCHANGED <<now, taskVars, notes, outcome, offset, pages, picked, departed>>

AcquireRefused(r) ==
  /\ pc[r] = "acquire"
  /\ Held
  /\ Jump(r, "skip")
  /\ UNCHANGED <<now, taskVars, notes, lockVars, outcome, held, since, readVars>>

\* A run that did not get the lock completes with skipped_count 1.
Skip(r) ==
  /\ pc[r] = "skip"
  /\ outcome' = [outcome EXCEPT ![r] = "skipped"]
  /\ Advance(r, "done")
  /\ UNCHANGED <<now, taskVars, notes, lockVars, held, since, readVars>>

\* ORDER BY id LIMIT Chunk OFFSET o.
Page(o) == {t \in due : LET before == Cardinality({x \in due : x < t})
                        IN  o <= before /\ before < o + Chunk}

\* The payloads of a page: the assignee as read.
Payloads(page) == {<<assignee[t], t>> : t \in page}

\* Mutant: the last page is taken to be any page that is not over-full.
ReadsOnePage(r) ==
  /\ pc[r] = "read"
  /\ pages' = [pages EXCEPT ![r] = Append(@, Payloads(Page(offset[r])))]
  /\ picked' = [picked EXCEPT ![r] = @ \cup Payloads(Page(offset[r]))]
  /\ Jump(r, "insert")
  /\ UNCHANGED <<now, taskVars, notes, lockVars, outcome, held, since, offset, stable, departed>>

\* Mutant: every turn reads the first page again.
ReadsSamePage(r) ==
  LET page == Page(0) IN
  /\ pc[r] = "read"
  /\ pages' = [pages EXCEPT ![r] = <<Payloads(page)>>]
  /\ picked' = [picked EXCEPT ![r] = Payloads(page)]
  /\ IF Cardinality(page) < Chunk THEN Jump(r, "insert") ELSE pc' = pc
  /\ UNCHANGED <<now, taskVars, notes, lockVars, outcome, held, since, offset, stable, departed>>

\* One turn of iter_due_tasks.  Every page but the last is full, so the
\* slices of Chunk tasks that are inserted later are the pages read here.
ReadPage(r) ==
  LET page == Page(offset[r]) IN
  /\ pc[r] = "read"
  /\ pages' = [pages EXCEPT ![r] = IF page = {} THEN @ ELSE Append(@, Payloads(page))]
  /\ picked' = [picked EXCEPT ![r] = @ \cup Payloads(page)]
  /\ \/ Cardinality(page) < Chunk /\ Jump(r, "insert") /\ offset' = offset
     \/ /\ Cardinality(page) = Chunk
        /\ offset' = [offset EXCEPT ![r] = @ + Chunk]
        /\ pc' = pc
  /\ UNCHANGED <<now, taskVars, notes, lockVars, outcome, held, since, stable, departed>>

\* Mutant: a chunk that cannot be inserted is passed over.
InsertPassesOver(r) ==
  /\ pc[r] = "insert"
  /\ pages[r] # <<>>
  /\ \E added \in {{}, Head(pages[r])} : notes' = notes \cup added
  /\ pages' = [pages EXCEPT ![r] = Tail(@)]
  /\ Advance(r, "insert")
  /\ UNCHANGED <<now, taskVars, lockVars, outcome, held, since, offset, picked, stable, departed>>

\* bulk_create_if_absent of one chunk, ON CONFLICT DO NOTHING, and its commit.
InsertChunk(r) ==
  /\ pc[r] = "insert"
  /\ pages[r] # <<>>
  /\ notes' = notes \cup Head(pages[r])
  /\ pages' = [pages EXCEPT ![r] = Tail(@)]
  /\ Advance(r, "insert")
  /\ UNCHANGED <<now, taskVars, lockVars, outcome, held, since, offset, picked, stable, departed>>

AllInserted(r) ==
  /\ pc[r] = "insert"
  /\ pages[r] = <<>>
  /\ Jump(r, "purge")
  /\ UNCHANGED <<now, taskVars, notes, lockVars, outcome, held, since, readVars>>

\* purge_histories: nothing of this date is older than the retention period.
Purge(r) ==
  /\ pc[r] = "purge"
  /\ Advance(r, "finish")
  /\ UNCHANGED <<now, taskVars, notes, lockVars, outcome, held, since, readVars>>

\* complete(); the lock stays until it expires.
Finish(r) ==
  /\ pc[r] = "finish"
  /\ outcome' = [outcome EXCEPT ![r] = "complete"]
  /\ Advance(r, "done")
  /\ UNCHANGED <<now, taskVars, notes, lockVars, held, since, readVars>>

\* A call fails without effect: the transaction is rolled back.
StepFails(r) ==
  /\ pc[r] \in Working \cup {"acquire", "skip"}
  /\ Jump(r, "fail")
  /\ UNCHANGED <<now, taskVars, notes, lockVars, outcome, held, since, readVars>>

\* except: fail() updates the run's row, if there is one, or fails too.
RecordFailure(r) ==
  /\ pc[r] = "fail"
  /\ \/ outcome' = [outcome EXCEPT ![r] = IF @ = "none" THEN @ ELSE "error"]
     \/ outcome' = outcome
  /\ Jump(r, IF held[r] THEN "release" ELSE "done")
  /\ UNCHANGED <<now, taskVars, notes, lockVars, held, since, readVars>>

\* Mutant: the script does not look whose lock it is.
ReleasesAnyLock(r) ==
  /\ pc[r] = "release"
  /\ lock' \in {NoRun, lock}
  /\ Jump(r, "done")
  /\ UNCHANGED <<now, taskVars, notes, lockExp, outcome, held, since, readVars>>

\* finally: the release script deletes the lock if it holds the runner_id;
\* a failure of the script is logged only.
Release(r) ==
  /\ pc[r] = "release"
  /\ \/ lock' = IF Held /\ lock = r THEN NoRun ELSE lock
     \/ lock' = lock
  /\ Jump(r, "done")
  /\ UNCHANGED <<now, taskVars, notes, lockExp, outcome, held, since, readVars>>

\* The process dies: the lock and the row stay as they are.
Crash(r) ==
  /\ pc[r] \notin {"idle", "done", "dead"}
  /\ Jump(r, "dead")
  /\ UNCHANGED <<now, taskVars, notes, lockVars, outcome, held, since, readVars>>
\* SIGTERM: shutdown cancels the run at its await.  CancelledError is no
\* Exception: except is passed over, and finally releases the lock only if
\* the run had failed before.
Shutdown(r) ==
  /\ pc[r] \notin {"idle", "done", "dead"}
  /\ Jump(r, IF pc[r] = "fail" /\ held[r] THEN "release" ELSE "dead")
  /\ UNCHANGED <<now, taskVars, notes, lockVars, outcome, held, since, readVars>>
-----------------------------------------------------------------------------
Reading == {r \in Run : pc[r] = "read"}

\* The API completes, unassigns or postpones a task ...
StopMatching(t) ==
  /\ edits < MaxEdits /\ edits' = edits + 1
  /\ t \in due
  /\ due' = due \ {t}
  /\ departed' = departed \cup Reading
  /\ stable' = [r \in Run |-> IF r \in Reading THEN stable[r] \ {t} ELSE stable[r]]
  /\ UNCHANGED <<now, assignee, notes, lockVars, outcome, pc, held, since, offset, pages, picked>>

\* ... or the reverse, or gives it to another user.
StartMatching(t, u) ==
  /\ edits < MaxEdits /\ edits' = edits + 1
  /\ t \notin due \/ u # assignee[t]
  /\ due' = due \cup {t}
  /\ assignee' = [assignee EXCEPT ![t] = u]
  /\ UNCHANGED <<now, notes, lockVars, outcome, pc, held, since, readVars>>

Tick ==
  /\ now < MaxTime
  /\ now' = now + 1
  /\ UNCHANGED <<taskVars, notes, lockVars, outcome, pc, held, since, readVars>>

RunStep(r) ==
  \/ Acquire(r) \/ AcquireRefused(r) \/ Skip(r) \/ ReadPage(r)
  \/ InsertChunk(r) \/ AllInserted(r) \/ Purge(r) \/ Finish(r)
  \/ RecordFailure(r) \/ Release(r)

JobNext ==
  \/ \E r \in Run : Start(r) \/ StartFails(r) \/ RunStep(r) \/ StepFails(r) \/ Crash(r)
                  \/ Shutdown(r)
  \/ \E t \in Task : StopMatching(t) \/ \E u \in Recipient : StartMatching(t, u)
  \/ Tick

JobSpec == JobInit /\ [][JobNext]_jobVars

\* Every call of a run returns or raises.
JobFairSpec == JobSpec /\ \A r \in Run : WF_jobVars(RunStep(r))
-----------------------------------------------------------------------------
InTime(r) == pc[r] \in Working /\ now < since[r] + TTL

\* Two runs of a slot work at the same time only if one has outlived the
\* TTL of its lock: in particular a run that fails late does not free the
\* lock of the run that came after it.
ExclusiveRuns == \A r, q \in Run : InTime(r) /\ InTime(q) => r = q

\* A run that reports complete has had every notification it meant to send
\* committed, whichever of its chunks met a failure.
CompleteMeansSent == \A r \in Run : outcome[r] = "complete" => picked[r] \subseteq notes

Notified(t) == \E u \in Recipient : <<u, t>> \in notes

\* A complete run has sent a notification for every task that matched from
\* beginning to end of its reading, if no task left the result meanwhile.
CompleteCoversStable ==
  \A r \in Run \ departed : outcome[r] = "complete" => \A t \in stable[r] : Notified(t)

\* Paging through the tasks comes to an end, and so does every run.
RunsEnd == \A r \in Run : pc[r] # "idle" ~> pc[r] \in {"done", "dead"}
=============================================================================
