--------------------------- MODULE ProjectMembers ---------------------------
(***************************************************************************)
(* A project, its members, its tasks and their comments: project_service,  *)
(* member_service, admin_project_service, task_service and                 *)
(* task_comment_service with authorization_service and the dependencies    *)
(* of core/deps.py, for concurrent requests.                               *)
(*                                                                         *)
(* A request authenticates, loads what its path names, tests the right of  *)
(* its user and calls one procedure; each is a step, and what was loaded   *)
(* or tested may be stale when the procedure runs. A procedure and its     *)
(* COMMIT are one step (TaskBoard models them statement by statement), but *)
(* for the removal of a member, which writes two tables: its UPDATE is a   *)
(* step and its DELETE with the COMMIT another. A step that changes        *)
(* nothing when the database refuses it stands for every error answer.     *)
(* Roles do not change (AdminProtection models that); names, texts,        *)
(* columns and due dates are left out.                                     *)
(***************************************************************************)
EXTENDS Naturals, FiniteSets

CONSTANTS User, Admin, Task, Comment, Req, NoUser, NoTask, NoComment,
          Time, NoTime,   \* start_at and end_at; NULL
          Keep,           \* a field that is not in model_fields_set
          Routes,         \* the operations the client behind a request calls
          MaxVersion      \* bound: versions of a task

ASSUME AdminAssumption == Admin \subseteq User
ASSUME TimeAssumption == Time \subseteq Nat /\ {NoTime, Keep} \cap Time = {} /\ Keep # NoTime
ASSUME MaxVersionAssumption == MaxVersion \in Nat \ {0}
ASSUME NoneAssumption ==
  /\ NoUser \notin User /\ Keep \notin User /\ NoTask \notin Task /\ NoComment \notin Comment

VARIABLES
  active,     \* users.is_active
  project,    \* the projects row; no owner: no row
  members,    \* project_members
  tasks,      \* tasks; no creator: no row
  comments,   \* task_comments; no author: no row
  req,        \* requests
  stray,      \* ghost: tasks whose assignee a write took without looking at the members,
              \* or while the removal of that member was past its UPDATE
  unjustified \* ghost: kinds of writes whose user had no right to them

rows == <<active, project, members, tasks, comments>>
vars == <<rows, req, stray, unjustified>>
-----------------------------------------------------------------------------
Date == Time \cup {NoTime}
Someone == User \cup {NoUser}
Project == [owner : Someone, active : BOOLEAN, start : Date, end : Date]
TaskRow == [creator : Someone, inProject : BOOLEAN, assignee : Someone,
            active : BOOLEAN, version : 0 .. MaxVersion]
CommentRow == [task : Task \cup {NoTask}, author : Someone]

NoProject == [owner |-> NoUser, active |-> FALSE, start |-> NoTime, end |-> NoTime]
NoRow == [creator |-> NoUser, inProject |-> FALSE, assignee |-> NoUser,
          active |-> FALSE, version |-> 0]
Absent == [task |-> NoTask, author |-> NoUser]

\* A request: its route, where it is, what its path and its body name, what it
\* has read (the dates of the project, is_active of the task), the tasks its
\* UPDATE has locked and, as a ghost, whether its user was a member at some
\* time since it began
Idle == [op |-> "none", pc |-> "idle", actor |-> NoUser, user |-> NoUser,
         task |-> NoTask, comment |-> NoComment, start |-> Keep, end |-> Keep,
         act |-> "keep", version |-> 0, inProject |-> FALSE,
         seen |-> [start |-> NoTime, end |-> NoTime], live |-> FALSE, held |-> {}, was |-> FALSE]

TypeOK ==
  /\ active \subseteq User /\ members \subseteq User
  /\ project \in Project
  /\ tasks \in [Task -> TaskRow]
  /\ comments \in [Comment -> CommentRow]
  /\ \A r \in Req : /\ req[r].actor \in Someone /\ req[r].user \in Someone \cup {Keep}
                    /\ req[r].seen \in [start : Date, end : Date] /\ req[r].held \subseteq Task
  /\ stray \subseteq Task

Init ==
  /\ active = User
  /\ project = NoProject /\ members = {}
  /\ tasks = [t \in Task |-> NoRow]
  /\ comments = [c \in Comment |-> Absent]
  /\ req = [r \in Req |-> Idle]
  /\ stray = {} /\ unjustified = {}
-----------------------------------------------------------------------------
\* Mutant: the role is not looked at
IsMemberRow(u) == u \in active /\ u \in members

\* fn_is_project_member: FALSE for every inactive user, TRUE for every active
\* administrator
IsMember(u) == u \in active /\ (u \in Admin \/ u \in members)

\* require_comment_editor
IsEditor(author, u) == u \in Admin \/ author = u

\* Mutant: a task outside projects is open to everyone
TaskAccessOpen(row, u) ==
  row.active /\ (u \in Admin \/ ~row.inProject \/ IsMember(u))

\* require_task_access, for a task that was loaded before
TaskAccess(row, u) ==
  /\ row.active
  /\ \/ u \in Admin
     \/ ~row.inProject /\ row.creator = u
     \/ row.inProject /\ IsMember(u)

\* update_task: whoever may not open it may still restore an inactive task,
\* and is_active is for its creator and the owner of the project
MayUpdate(row, u, act) ==
  /\ (row.active \/ act # "true") => TaskAccess(row, u)
  /\ \/ act = "keep"
     \/ u \in Admin \/ row.creator = u
     \/ row.inProject /\ project.owner = u
-----------------------------------------------------------------------------
(* The routes. get_current_user refuses inactive users; that and the other *)
(* dependencies of a route are one step (an owner never leaves his project *)
(* and an administrator needs no row), and a request that a dependency     *)
(* refuses is none.                                                        *)
AtPC(r, label) == req[r].pc = label
Goto(r, label) == req' = [req EXCEPT ![r].pc = label]
Return(r)      == req' = [req EXCEPT ![r] = Idle]
ReadOnly       == UNCHANGED <<rows, stray, unjustified>>

FoundProject    == project.owner # NoUser
FoundTask(t)    == tasks[t] # NoRow
FoundComment(c) == comments[c] # Absent

Begin(r, u, j) ==
  /\ j.op \in Routes[r]
  /\ req' = [req EXCEPT ![r] = [j EXCEPT !.actor = u, !.was = IsMember(u)]]
  /\ ReadOnly

Named(op, label) == [Idle EXCEPT !.op = op, !.pc = label]

ForOwner == {"update_project", "deactivate_project", "add_member", "remove_member"}

\* require_project_owner
OwnerPasses(op, u) == op \in ForOwner => u \in Admin \/ project.owner = u

\* require_project_member
OnProject(r, u, j) ==
  /\ FoundProject
  /\ IsMember(u)
  /\ OwnerPasses(j.op, u)
  /\ Begin(r, u, j)

\* get_task_for_member, or task_repository.get_by_id of the service
OnTask(r, u, t, j) ==
  /\ FoundTask(t)
  /\ Begin(r, u, [j EXCEPT !.task = t, !.live = tasks[t].active])

\* get_comment_for_member reads the comment and its task
OnComment(r, u, c, j) ==
  /\ FoundComment(c)
  /\ OnTask(r, u, comments[c].task, [j EXCEPT !.comment = c, !.user = comments[c].author])

\* payload.x if "x" in payload.model_fields_set else row.x
Merged(given, read) == IF given = Keep THEN read ELSE given

PostProject(r, u)  == Begin(r, u, Named("create_project", "write"))
PatchProject(r, u, s, e) ==
  OnProject(r, u, [Named("update_project", "write") EXCEPT !.start = s, !.end = e,
    !.seen = [start |-> IF s = Keep THEN project.start ELSE NoTime,
              end   |-> IF e = Keep THEN project.end ELSE NoTime]])
DeleteProject(r, u) == OnProject(r, u, Named("deactivate_project", "write"))
AdminDeleteProject(r, u) ==
  u \in Admin /\ Begin(r, u, Named("admin_deactivate_project", "write"))
PostMember(r, u, v) ==
  OnProject(r, u, [Named("add_member", "exists") EXCEPT !.user = v])
DeleteMember(r, u, v) ==
  OnProject(r, u, [Named("remove_member", "exists") EXCEPT !.user = v])

\* A task in the project, by the route below it
PostProjectTask(r, u, t, v) ==
  OnProject(r, u, [Named("create_task", "write") EXCEPT !.task = t, !.user = v,
                                                         !.inProject = TRUE])
\* reject_assignee_without_project
FlatBodyOk(v, p) == ~p => v = NoUser

\* The flat route: membership is not asked for
PostTask(r, u, t, v, p) ==
  /\ FlatBodyOk(v, p)
  /\ p => FoundProject
  /\ Begin(r, u, [Named("create_task_flat", "write") EXCEPT !.task = t, !.user = v,
                                                            !.inProject = p])
\* The client sends the version it has seen; an older one is always refused
PatchTask(r, u, t, v, a) ==
  /\ tasks[t].version < MaxVersion
  /\ OnTask(r, u, t, [Named("update_task", "access") EXCEPT
                        !.user = Merged(v, tasks[t].assignee),
                        !.act = a, !.version = tasks[t].version])
DeleteTask(r, u, t) ==
  tasks[t].version < MaxVersion /\ OnTask(r, u, t, Named("deactivate_task", "access"))
PostComment(r, u, t, c) ==
  OnTask(r, u, t, [Named("add_comment", "access") EXCEPT !.comment = c])
PatchComment(r, u, c)  == OnComment(r, u, c, Named("update_comment", "access"))
DeleteComment(r, u, c) == OnComment(r, u, c, Named("delete_comment", "access"))
-----------------------------------------------------------------------------
(* What comes before the write                                             *)
\* add_member and remove_member look before they write
LookForMember(r) ==
  /\ AtPC(r, "exists")
  /\ LET v == req[r].user IN
       IF \/ req[r].op = "add_member" /\ ~IsMember(v)
          \/ req[r].op = "remove_member" /\ v # project.owner /\ IsMember(v)
       THEN Goto(r, "write") ELSE Return(r)
  /\ ReadOnly

\* The task as it was read; its project and its creator never change
Allowed(j) ==
  LET row == [tasks[j.task] EXCEPT !.active = j.live] IN
  /\ IF j.op = "update_task" THEN MayUpdate(row, j.actor, j.act) ELSE TaskAccess(row, j.actor)
  /\ j.op \in {"update_comment", "delete_comment"} => IsEditor(j.user, j.actor)

CheckAccess(r) ==
  /\ AtPC(r, "access")
  /\ IF Allowed(req[r]) THEN Goto(r, "write") ELSE Return(r)
  /\ ReadOnly

\* DBAPIError: the transaction is rolled back
WriteFails(r) ==
  /\ AtPC(r, "write") \/ AtPC(r, "delete")
  /\ Return(r)
  /\ ReadOnly
-----------------------------------------------------------------------------
(* The writes                                                              *)
At(r, op) == AtPC(r, "write") /\ req[r].op = op

CreatesTask == {"create_task", "create_task_flat"}

\* ghost: what the user of a request has to have been at some time of it
Opener(j) == IF tasks[j.task].inProject THEN j.was ELSE tasks[j.task].creator = j.actor
Justified(j) ==
  \/ j.actor \in Admin
  \/ CASE j.op \in ForOwner -> j.actor = project.owner
       [] j.op = "create_project" -> TRUE
       [] j.op \in CreatesTask -> j.inProject => j.was
       [] j.op \in {"update_comment", "delete_comment"} -> j.user = j.actor /\ Opener(j)
       [] j.op = "update_task" /\ j.act = "true" ->
            Opener(j) \/ j.actor \in {tasks[j.task].creator, project.owner}
       [] OTHER -> Opener(j)

Note(r) == unjustified' = unjustified \cup {x \in {req[r].op} : ~Justified(req[r])}
Write(r, op) == At(r, op) /\ Note(r)

\* ghost: the user joined while his requests were under way
Joined(r, u) ==
  req' = [q \in Req |-> IF q = r THEN Idle
                        ELSE [req[q] EXCEPT !.was = @ \/ req[q].actor = u]]

Ordered(s, e) == {s, e} \subseteq Time => s <= e

NewProject(u, s, e) == [owner |-> u, active |-> TRUE, start |-> s, end |-> e]

\* sp_create_project: the owner is the first member
WriteNewProject(r) ==
  /\ Write(r, "create_project")
  /\ project = NoProject
  /\ \E s, e \in Date :
       /\ Ordered(s, e)
       /\ project' = NewProject(req[r].actor, s, e)
  /\ members' = {req[r].actor}
  /\ Joined(r, req[r].actor)
  /\ UNCHANGED <<active, tasks, comments, stray>>

\* Mutant: the procedure writes the given dates alone
StoredAlone(j) ==
  [project EXCEPT !.start = Merged(j.start, @), !.end = Merged(j.end, @)]

\* sp_update_project gets both dates, the given ones and those that were read
Stored(j) ==
  [project EXCEPT !.start = Merged(j.start, j.seen.start), !.end = Merged(j.end, j.seen.end)]

\* update_project
WriteProject(r) ==
  LET j == req[r] IN
  /\ Write(r, "update_project")
  /\ Ordered(Merged(j.start, j.seen.start), Merged(j.end, j.seen.end))
  /\ \E a \in BOOLEAN : project' = [Stored(j) EXCEPT !.active = a]
  /\ Return(r)
  /\ UNCHANGED <<active, members, tasks, comments, stray>>

\* set_active: sp_deactivate_project
SwitchOff == project' = [project EXCEPT !.active = FALSE]

\* project_service.deactivate_project
WriteDeactivation(r) ==
  /\ Write(r, "deactivate_project")
  /\ SwitchOff
  /\ Return(r)
  /\ UNCHANGED <<active, members, tasks, comments, stray>>

\* admin_project_service.deactivate_project
WriteAdminDeactivation(r) ==
  /\ Write(r, "admin_deactivate_project")
  /\ FoundProject
  /\ SwitchOff
  /\ Return(r)
  /\ UNCHANGED <<active, members, tasks, comments, stray>>

\* What a removal between its UPDATE and its DELETE has locked, and whom it removes
Locked(t) == \E q \in Req : t \in req[q].held
Leaving == {req[q].user : q \in {p \in Req : AtPC(p, "delete")}}

Given(t, u) == tasks[t].inProject /\ tasks[t].assignee = u

\* sp_add_project_member refuses a second row (P0003)
AddMember(u) == u \notin members /\ members' = members \cup {u}

\* add_member
WriteMember(r) ==
  /\ Write(r, "add_member")
  /\ AddMember(req[r].user)
  /\ Joined(r, req[r].user)
  /\ stray' = {t \in stray : Given(t, req[r].user) => req[r].user \in Leaving}
  /\ UNCHANGED <<active, project, tasks, comments>>

\* Mutant: the member's tasks keep their assignee
StillAssigned(matched) == tasks

\* UPDATE tasks SET assignee_id = NULL; the version stays
Unassigned(matched) ==
  [t \in Task |-> IF t \in matched THEN [tasks[t] EXCEPT !.assignee = NoUser] ELSE tasks[t]]

\* sp_remove_project_member up to its UPDATE, which takes the rows that match
\* now, waits for whoever else holds one and shows nobody what it has written
UnassignTasks(r) ==
  LET matched == {t \in Task : Given(t, req[r].user)} IN
  /\ At(r, "remove_member")
  /\ req[r].user # project.owner
  /\ \A t \in matched : ~Locked(t)
  /\ req' = [req EXCEPT ![r].pc = "delete", ![r].held = matched]
  /\ ReadOnly

\* Its DELETE and the COMMIT, by which the UPDATE takes effect
WriteRemoval(r) ==
  /\ AtPC(r, "delete")
  /\ Note(r)
  /\ tasks' = Unassigned(req[r].held)
  /\ members' = members \ {req[r].user}
  /\ stray' = stray \ req[r].held
  /\ Return(r)
  /\ UNCHANGED <<active, project, comments>>

AssigneeOk(v) == v = NoUser \/ v \in active

\* ghost: who may open a task, as far as its assignee is concerned
Insiders(row) == {NoUser} \cup (IF row.inProject THEN members ELSE {row.creator})
SetTask(t, row) ==
  /\ ~Locked(t)
  /\ tasks' = [tasks EXCEPT ![t] = row]
  /\ stray' = IF /\ row.assignee \in Insiders(row)
                 /\ row.inProject => row.assignee \notin Leaving
              THEN stray \ {t} ELSE stray \cup {t}

\* sp_create_task
NewTask(j) == [creator |-> j.actor, inProject |-> j.inProject, assignee |-> j.user,
               active |-> TRUE, version |-> 1]

\* create_task and create_task_flat
WriteTask(r) ==
  LET j == req[r] IN
  /\ \E op \in CreatesTask : Write(r, op)
  /\ ~FoundTask(j.task)
  /\ AssigneeOk(j.user)
  /\ SetTask(j.task, NewTask(j))
  /\ Return(r)
  /\ UNCHANGED <<active, project, members, comments>>

\* sp_update_task: the version decides, the assignee may be the one that was
\* read, and is_active is COALESCEd
WriteTaskUpdate(r) ==
  LET j == req[r]
      old == tasks[j.task] IN
  /\ Write(r, "update_task")
  /\ old.version = j.version /\ old.version < MaxVersion
  /\ AssigneeOk(j.user)
  /\ SetTask(j.task, [old EXCEPT !.assignee = j.user, !.version = @ + 1,
                                 !.active = IF j.act = "keep" THEN @ ELSE j.act = "true"])
  /\ Return(r)
  /\ UNCHANGED <<active, project, members, comments>>

\* sp_deactivate_task
WriteTaskOff(r) ==
  /\ Write(r, "deactivate_task")
  /\ ~Locked(req[r].task)
  /\ tasks[req[r].task].version < MaxVersion
  /\ tasks' = [tasks EXCEPT ![req[r].task].active = FALSE, ![req[r].task].version = @ + 1]
  /\ Return(r)
  /\ UNCHANGED <<active, project, members, comments, stray>>

\* sp_add_task_comment
NewComment(j) == [task |-> j.task, author |-> j.actor]

\* add_comment
WriteComment(r) ==
  /\ Write(r, "add_comment")
  /\ ~FoundComment(req[r].comment)
  /\ comments' = [comments EXCEPT ![req[r].comment] = NewComment(req[r])]
  /\ Return(r)
  /\ UNCHANGED <<active, project, members, tasks, stray>>

\* sp_update_task_comment; a comment deleted meanwhile is not found again and
\* the transaction is rolled back
WriteCommentBody(r) ==
  /\ Write(r, "update_comment")
  /\ FoundComment(req[r].comment)
  /\ Return(r)
  /\ UNCHANGED <<rows, stray>>

\* sp_delete_task_comment
WriteCommentOff(r) ==
  /\ Write(r, "delete_comment")
  /\ comments' = [comments EXCEPT ![req[r].comment] = Absent]
  /\ Return(r)
  /\ UNCHANGED <<active, project, members, tasks, stray>>

\* PATCH /admin/users/{id}/status
SetActive(u, a) ==
  /\ active' = IF a THEN active \cup {u} ELSE active \ {u}
  /\ req' = [q \in Req |-> [req[q] EXCEPT !.was = @ \/
               (a /\ req[q].actor = u /\ u \in members \cup Admin)]]
  /\ UNCHANGED <<project, members, tasks, comments, stray, unjustified>>
-----------------------------------------------------------------------------
Route(r) == AtPC(r, "idle") /\ \E u \in active :
    \/ PostProject(r, u) \/ DeleteProject(r, u) \/ AdminDeleteProject(r, u)
    \/ \E s, e \in Date \cup {Keep} : PatchProject(r, u, s, e)
    \/ \E v \in User : PostMember(r, u, v) \/ DeleteMember(r, u, v)
    \/ \E t \in Task, v \in User \cup {NoUser} : 
         PostProjectTask(r, u, t, v) \/ \E p \in BOOLEAN : PostTask(r, u, t, v, p)
    \/ \E t \in Task, v \in User \cup {NoUser, Keep}, a \in {"keep", "true", "false"} :
         PatchTask(r, u, t, v, a)
    \/ \E t \in Task : DeleteTask(r, u, t) \/ \E c \in Comment : PostComment(r, u, t, c)
    \/ \E c \in Comment : PatchComment(r, u, c) \/ DeleteComment(r, u, c)

Handle(r) ==
  \/ LookForMember(r) \/ CheckAccess(r) \/ WriteFails(r)
  \/ WriteNewProject(r) \/ WriteProject(r) \/ WriteDeactivation(r) \/ WriteAdminDeactivation(r)
  \/ WriteMember(r) \/ UnassignTasks(r) \/ WriteRemoval(r)
  \/ WriteTask(r) \/ WriteTaskUpdate(r) \/ WriteTaskOff(r)
  \/ WriteComment(r) \/ WriteCommentBody(r) \/ WriteCommentOff(r)

Next ==
  \/ \E r \in Req : Route(r) \/ Handle(r)
  \/ \E u \in User, a \in BOOLEAN : SetActive(u, a)

Spec == Init /\ [][Next]_vars
-----------------------------------------------------------------------------
(* The lists: what the database returns, and to whom a service gives it.   *)
(* A page holds everything; due dates and statuses are left out.           *)
Rows(inactive) == {t \in Task : FoundTask(t) /\ (inactive \/ tasks[t].active)}

\* fn_list_tasks
ListTasks(u, filter, inactive) ==
  {t \in Rows(inactive) :
     /\ filter = "project" => tasks[t].inProject
     /\ filter = "unassigned" => ~tasks[t].inProject
     /\ \/ u \in Admin
        \/ ~tasks[t].inProject /\ tasks[t].creator = u
        \/ tasks[t].inProject /\ u \in members}

\* is_member before the project's tasks are asked for
MayFilter(u) == u \in Admin \/ IsMember(u)

GetTasks(u, filter, inactive) ==
  {t \in ListTasks(u, filter, inactive) : filter = "project" => MayFilter(u)}

\* fn_get_project_board
Board(inactive) == {t \in Rows(inactive) : tasks[t].inProject}

\* get_board behind require_project_member
GetBoard(u, inactive) == {t \in Board(inactive) : FoundProject /\ IsMember(u)}

\* fn_list_calendar_tasks
Calendar(u, scope) ==
  {t \in Rows(FALSE) :
     \/ scope = "project" /\ tasks[t].inProject
     \/ /\ scope = "me"
        /\ tasks[t].assignee = u \/ (~tasks[t].inProject /\ tasks[t].creator = u)}

GetCalendar(u, scope) == {t \in Calendar(u, scope) : scope = "project" => MayFilter(u)}

\* fn_list_task_comments
CommentsOf(t) == {c \in Comment : comments[c].task = t}

\* comment_count of a task in a list
CommentCount(t) == Cardinality(CommentsOf(t))

\* list_comments behind get_task_for_member
GetComments(u, t) == {c \in CommentsOf(t) : FoundTask(t) /\ TaskAccess(tasks[t], u)}

\* fn_list_projects
ProjectListed(u, inactive) ==
  /\ FoundProject
  /\ inactive \/ project.active
  /\ u \in Admin \/ (u \in members /\ (project.active \/ project.owner = u))

\* fn_search_member_candidates for an empty query
Candidates == active \ members

\* search_candidates behind require_project_owner
GetCandidates(u) == {v \in Candidates : FoundProject /\ OwnerPasses("add_member", u)}

\* list_members behind require_project_member
GetMembers(u) == {v \in members : FoundProject /\ IsMember(u)}
-----------------------------------------------------------------------------
\* The end of a project is never before its start, although a PATCH of one
\* date takes the other from a row that another PATCH may have changed since:
\* both are written together and compared first.
PeriodOrdered == Ordered(project.start, project.end)

\* No task is assigned to someone who may not open it, whatever rows the
\* UPDATE of a removal matched, but for three writes of the task itself
\* (stray): one that names such a user; one that writes back the assignee it
\* read before that member's removal, which leaves the version alone; and one
\* that names the member when the removal's UPDATE has run and its COMMIT has
\* not, which the UPDATE does not see and the DELETE does not wait for.
RemovalUnassigns ==
  \A t \in Task \ stray : tasks[t].assignee \in Insiders(tasks[t])

\* What a user finds in a list opens: the active tasks of the task list, the
\* board and the calendar and the projects of the project list, by the rules
\* of the stored functions on one side and of require_task_access and
\* require_project_member on the other. The list filtered by the project
\* shows the board, a task's comment_count is the number of comments it opens
\* with, the active members of the member list may open the project, and whom
\* the search for new members offers, add_member takes, except an
\* administrator. It is asked when no request is under way: none of it is
\* about requests, and each can be given up without a change to the rows.
ListedCanBeOpened == (\A r \in Req : AtPC(r, "idle")) =>
  \A u \in active :
     /\ \A t \in GetTasks(u, "none", FALSE) \cup GetBoard(u, FALSE) \cup GetCalendar(u, "project") :
          TaskAccess(tasks[t], u) /\ CommentCount(t) = Cardinality(GetComments(u, t))
     /\ \A t \in GetCalendar(u, "me") : TaskAccess(tasks[t], u) \/ t \in stray
     /\ \A i \in BOOLEAN :
          /\ GetTasks(u, "project", i) = GetBoard(u, i)
          /\ GetTasks(u, "unassigned", i) = GetTasks(u, "none", i) \ Board(i)
     /\ ProjectListed(u, TRUE) => IsMember(u)
     /\ \A v \in GetMembers(u) \cap active : IsMember(v)
     /\ \A v \in GetCandidates(u) \ Admin : ~IsMember(v)

\* Nobody writes what he had no right to during the whole request: project and
\* members need the owner, tasks and comments somebody who was a member at
\* some time since the request began (or the creator, outside projects), and a
\* comment of another user an administrator. The flat route is the exception:
\* it creates a task in any project its body names and asks nobody, where
\* 11_post_tasks.md:108 has a 404 for who is no member. Membership at the write
\* itself is not claimed: it may end between the check and the procedure.
WritesAreJustified == unjustified \subseteq {"create_task_flat"}
=============================================================================
