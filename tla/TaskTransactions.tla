--------------------------- MODULE TaskTransactions ---------------------------
(***************************************************************************)
(* The write operations on tasks, their assignees and the requests to join *)
(* them, and the nested assignment of a group approval.                    *)
(***************************************************************************)
EXTENDS TaskflowStore

\* The active groups in which the user holds a role, of any kind.
AdminGroups(u) ==
  {g \in Group : ActiveGroup(g) /\ \E r \in RoleRow :
                   HasRole(r) /\ r.user = u /\ r.group = g}

\* The task must be in the group the query returns first, in no given order.
TaskAccessVia(first, t) == ActiveTask(t) /\ task[t].group = first
TaskAccess(u, t) == \E first \in AdminGroups(u) : TaskAccessVia(first, t)

\* POST /tasks/groups/{id}: the creator becomes assignee and member.
CreateTaskForGroup(w, u, g, t, title) ==
  /\ FreshTask(t)
  /\ Permits(u, {"GROUP_ADMIN"})
  /\ g \in AdminGroups(u)
  /\ ~\E s \in Task : ActiveTask(s) /\ task[s].group = g /\ task[s].title = title
  /\ Begin(w, "commit", [Idle EXCEPT !.writes = [NoWrites EXCEPT
       !.tskNew  = {[id |-> t, group |-> g, title |-> title]},
       !.roleIns = {AssigneeRole(u, g, t)} \cup GrantMember(u, g),
       !.asgIns  = {<<u, t>>},
       !.memIns  = {<<u, g>>} \ membership,
       !.out     = {<<t, "CREATED">>}]])

\* POST /tasks/{id}/assignees: no role and no membership come with it.
AssignWrites(t, v) == [NoWrites EXCEPT !.asgIns = {<<v, t>>}]
AddUserToTask(w, u, t, v) ==
  /\ Permits(u, {"GROUP_ADMIN"})
  /\ TaskAccess(u, t)
  /\ <<v, t>> \notin assignee
  /\ Begin(w, "commit", [Idle EXCEPT !.writes = AssignWrites(t, v),
                                     !.events = <<Tell("task_invite", v, 0)>>])

\* PATCH /tasks/{id}: the title is looked up under the key "name", which an
\* update never has, so that no title conflict is found.
UpdateMyTask(w, u, t, title, s, off) ==
  /\ Permits(u, {"GROUP_ADMIN"})
  /\ TaskAccess(u, t)
  /\ Begin(w, "commit", [Idle EXCEPT !.writes = [NoWrites EXCEPT
       !.tskTitle  = {<<t, title>>} \ {<<t, task[t].title>>},
       !.tskStatus = {<<t, s>>} \ {<<t, task[t].status>>},
       !.tskOff    = IF off THEN {t} ELSE {},
       !.out       = {<<t, "UPDATED">>}]])

\* DELETE /tasks/{id}: a soft delete; assignees and roles stay.  The endpoint
\* asks for a permission that every user has.
DeleteTaskSilently(w, u, t) ==
  /\ TaskAccess(u, t)
  /\ Begin(w, "commit", [Idle EXCEPT !.writes = [NoWrites EXCEPT !.tskOff = {t}]])
DeleteMyTask(w, u, t) ==
  /\ TaskAccess(u, t)
  /\ Begin(w, "commit", [Idle EXCEPT !.writes =
       [NoWrites EXCEPT !.tskOff = {t}, !.out = {<<t, "DELETED">>}]])

\* PATCH /tasks/{id}/status
UpdateStatusTask(w, u, t, s) ==
  /\ Permits(u, {"GROUP_ADMIN", "ASSIGNEE"})
  /\ ActiveTask(t)
  /\ task[t].status # s
  /\ Begin(w, "commit", [Idle EXCEPT !.writes =
       [NoWrites EXCEPT !.tskStatus = {<<t, s>>}, !.out = {<<t, "UPDATED">>}]])

\* Deleting an assignment, then the ASSIGNEE clean-up.
LeaveTask(w, t, v) ==
  /\ <<v, t>> \in assignee
  /\ ActiveTask(t)
  /\ Begin(w, "remaining", [Idle EXCEPT !.subject = v, !.kind = "ASSIGNEE",
       !.writes = [NoWrites EXCEPT !.asgDel = {<<v, t>>}]])
RemoveUserFromTask(w, u, t, v) ==
  Permits(u, {"GROUP_ADMIN"}) /\ TaskAccess(u, t) /\ LeaveTask(w, t, v)
ExitTask(w, u, t) == LeaveTask(w, t, u)

\* POST /tasks/{id}/join: at once in an open group, by request in the others.
JoinTaskOpen(w, u, t) ==
  /\ group[task[t].group].policy = "OPEN"
  /\ Begin(w, "commit", [Idle EXCEPT !.writes = AssignWrites(t, u)])
JoinTaskByRequest(w, u, t) ==
  LET g == task[t].group IN
  /\ group[g].policy # "OPEN"
  /\ Len(joinRequest) < MaxRequests
  /\ Begin(w, "commit", [Idle EXCEPT
       !.writes = [NoWrites EXCEPT !.reqNew =
          {[user |-> u, group |-> g, task |-> t, status |-> "PENDING"]}],
       !.events = <<Tell("created", group[g].admin, 0)>>])
JoinTask(w, u, t) ==
  /\ <<u, t>> \notin assignee
  /\ ActiveTask(t)
  /\ ActiveGroup(task[t].group)
  /\ ~PendingRequest(u, None, t)
  /\ JoinTaskOpen(w, u, t) \/ JoinTaskByRequest(w, u, t)

\* The task a request is for, when the task and its group are active.
OpenTaskRequest(r) ==
  /\ IsRequest(r)
  /\ joinRequest[r].task # None
  /\ ActiveTask(joinRequest[r].task)
  /\ ActiveGroup(task[joinRequest[r].task].group)

\* The approval looks at the status and not at who approves.
ApproveWithoutAssigning(w, u, r) ==
  /\ OpenTaskRequest(r)
  /\ Permits(u, {"GROUP_ADMIN"})
  /\ joinRequest[r].status = "PENDING"
  /\ LET v == joinRequest[r].user
         joins == {<<v, task[joinRequest[r].task].group>>} \ membership
     IN  Begin(w, "commit", [Idle EXCEPT
           !.writes = [NoWrites EXCEPT !.reqSet = {<<r, "APPROVED">>}, !.memIns = joins],
           !.events = <<Tell("approved", v, r)>>])
ApproveTaskJoinRequest(w, u, r) ==
  /\ OpenTaskRequest(r)
  /\ Permits(u, {"GROUP_ADMIN"})
  /\ joinRequest[r].status = "PENDING"
  /\ LET v == joinRequest[r].user
         t == joinRequest[r].task
         joins == {<<v, task[t].group>>} \ membership
     IN  Begin(w, "commit", [Idle EXCEPT
           !.writes = [NoWrites EXCEPT !.reqSet = {<<r, "APPROVED">>},
                                       !.memIns = joins, !.asgIns = {<<v, t>>}],
           !.events = (IF joins = {} THEN <<>> ELSE <<Tell("group_join", v, 0)>>)
                        \o <<Tell("approved", v, r)>>])

\* The rejection looks at who rejects and not at the status.
RejectTaskJoinRequest(w, u, r) ==
  /\ OpenTaskRequest(r)
  /\ Permits(u, {"GROUP_ADMIN"})
  /\ group[task[joinRequest[r].task].group].admin = u
  /\ Begin(w, "commit", [Idle EXCEPT
       !.writes = [NoWrites EXCEPT !.reqSet =
                     {<<r, "REJECTED">>} \ {<<r, joinRequest[r].status>>}],
       !.events = <<Tell("rejected", joinRequest[r].user, r)>>])

-----------------------------------------------------------------------------
(***************************************************************************)
(* The rest of a group approval of a task request.  Its own inserts are    *)
(* flushed, so that it holds their keys, while add_user_to_task runs in a  *)
(* second session, checks the approver's access there and commits by       *)
(* itself.  If it raises, the approval is rolled back; if the worker fails *)
(* after it, the assignment stays without the approval.  The invitation    *)
(* that transaction sends is left out: no property is about invitations.   *)
(***************************************************************************)
FlushApproval(w) ==
  /\ tx[w].phase = "flush"
  /\ NotBlocked(w)
  /\ IF Conflict(tx[w].writes)
     THEN Rollback(w)
     ELSE /\ tx' = [tx EXCEPT ![w].phase =
                      IF ActiveTask(joinRequest[tx[w].req].task) THEN "inner" ELSE "outerCommit"]
          /\ UNCHANGED tables

InnerCheck(w) ==
  LET r == joinRequest[tx[w].req] IN
  /\ tx[w].phase = "inner"
  /\ \/ /\ TaskAccess(tx[w].actor, r.task)
        /\ <<r.user, r.task>> \notin assignee
        /\ tx' = [tx EXCEPT ![w].phase = "innerCommit"]
        /\ UNCHANGED tables
     \/ /\ \/ ~TaskAccess(tx[w].actor, r.task)
           \/ \E first \in AdminGroups(tx[w].actor) : ~TaskAccessVia(first, r.task)
           \/ <<r.user, r.task>> \in assignee
        /\ Rollback(w)

InnerCommit(w) ==
  LET r == joinRequest[tx[w].req]
      p == AssignWrites(r.task, r.user)
  IN
  /\ tx[w].phase = "innerCommit"
  /\ IF Conflict(p)
     THEN Rollback(w)
     ELSE Land(p) /\ tx' = [tx EXCEPT ![w].phase = "outerCommit"]

TaskStep(w) ==
  \/ \E u \in User, t \in Task :
       \/ \E g \in Group, title \in Title : CreateTaskForGroup(w, u, g, t, title)
       \/ \E title \in Title, s \in Status, off \in BOOLEAN :
            UpdateMyTask(w, u, t, title, s, off)
       \/ DeleteMyTask(w, u, t)
       \/ \E s \in Status : UpdateStatusTask(w, u, t, s)
       \/ \E v \in User : AddUserToTask(w, u, t, v) \/ RemoveUserFromTask(w, u, t, v)
       \/ ExitTask(w, u, t)
       \/ JoinTask(w, u, t)
  \/ \E u \in User : \E r \in 1..Len(joinRequest) :
       ApproveTaskJoinRequest(w, u, r) \/ RejectTaskJoinRequest(w, u, r)
  \/ FlushApproval(w) \/ InnerCheck(w) \/ InnerCommit(w)
=============================================================================
