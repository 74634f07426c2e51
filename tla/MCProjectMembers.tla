-------------------------- MODULE MCProjectMembers --------------------------
EXTENDS ProjectMembers, TLC

CONSTANTS a1, u1, u2, t1, c1, r1, r2

\* One client calls everything; the second one changes what the first one's
\* rights rest on (two writers of one task are the subject of TaskBoard).
ProjectOps == {"create_project", "update_project", "deactivate_project", "admin_deactivate_project"}
MemberOps == {"add_member", "remove_member"}
Calls == (r1 :> ProjectOps \cup MemberOps \cup
                {"create_task", "create_task_flat", "update_task", "deactivate_task",
                 "add_comment", "update_comment", "delete_comment"})
      @@ (r2 :> {"update_project"} \cup MemberOps)

Ops == {req[r].op : r \in Req} \ {"none"}
SomeTask == \E t \in Task : tasks[t] # NoRow

Undated == {project.start, project.end} = {NoTime}

\* What never meets in one action is not varied together: the row of the
\* project while there are tasks or a second member, its dates while it is
\* inactive, an inactive user while there are dates, a comment or two requests.
\* Administrators act on what others have created.
Focus ==
  /\ {project.owner} \cup {tasks[t].creator : t \in Task}
       \cup {comments[c].author : c \in Comment} \subseteq (User \ Admin) \cup {NoUser}
  /\ (SomeTask \/ Cardinality(members) = 2) =>
       project.active /\ Undated /\ Ops \cap ProjectOps = {}
  /\ Undated \/ project.active
  /\ \/ active = User
     \/ /\ Cardinality(User \ active) = 1
        /\ Undated /\ Idle \in {req[r] : r \in Req}
        /\ \A c \in Comment : comments[c] = Absent

Alike == Permutations({u1, u2})
=============================================================================
