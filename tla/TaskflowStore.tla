---------------------------- MODULE TaskflowStore ----------------------------
(***************************************************************************)
(* The relational state behind groups and tasks, and the unit of work that *)
(* every write transaction of the backend runs in.                         *)
(*                                                                         *)
(* A request handler runs in a worker.  It opens a UnitOfWork, reads and   *)
(* checks, stages its writes in the session, and commits when the block    *)
(* ends.  The database runs READ COMMITTED and no handler locks a row, so  *)
(* what a handler read may have changed when its writes land: the checks   *)
(* and the commit are separate steps here, and other workers move between  *)
(* them.  Notifications are dispatched after the commit, outside of it.    *)
(***************************************************************************)
EXTENDS Integers, FiniteSets, Sequences

CONSTANTS
  Worker,       \* coroutines that serve requests
  User,         \* users.id
  Staff,        \* users whose global role is ADMIN: every permission is theirs
  Group,        \* ids user_groups can hand out
  Task,         \* ids tasks can hand out
  Name,         \* group names
  Title,        \* task titles
  Policy,       \* join policies a request may ask for
  Status,       \* task statuses a request may ask for
  InitStatus,   \* the default status of a new task
  MaxRequests,  \* bound: no join request is opened beyond this many
  None          \* SQL NULL, and "no user yet"

ASSUME ConstantsAreDistinct ==
  /\ None \notin User \cup Task \cup Group \cup Name
  /\ Group \cap Task = {}
  /\ Staff \subseteq User
  /\ Policy \subseteq {"OPEN", "REQUEST"}
  /\ InitStatus \in Status
  /\ MaxRequests \in Nat

VARIABLES
  group,        \* user_groups: [Group -> row]
  membership,   \* user_group_memberships, unique on (user, group)
  userRole,     \* user_roles: how many rows of each content there are
  joinRequest,  \* join_requests in id order
  task,         \* tasks: [Task -> row]
  assignee,     \* task_assignees, unique on (user, task)
  outbox,       \* outbox: the event types written for each entity
  tx            \* [Worker -> what the worker's unit of work has got to]

tables == <<group, membership, userRole, joinRequest, task, assignee, outbox>>
vars   == <<tables, tx>>

RoleKind    == {"GROUP_ADMIN", "MEMBER", "ASSIGNEE"}
EventType   == {"CREATED", "UPDATED", "DELETED"}
Decision    == {"PENDING", "APPROVED", "REJECTED"}
NoticeKind  == {"group_join", "group_invite", "task_invite",
                "created", "approved", "rejected"}

AbsentGroup == [state |-> "absent", admin |-> None, policy |-> "OPEN", name |-> None]
AbsentTask  == [state |-> "absent", group |-> None, title |-> None, status |-> InitStatus]

GroupRow == {AbsentGroup} \cup
  [state : {"active", "inactive"}, admin : User, policy : {"OPEN", "REQUEST"}, name : Name]
TaskRow  == {AbsentTask} \cup
  [state : {"active", "inactive"}, group : Group, title : Title, status : Status]
RoleRow  == [user : User, kind : RoleKind, group : Group, task : Task \cup {None}]
Request  == [user : User, group : Group, task : Task \cup {None}, status : Decision]
Notice   == [kind : NoticeKind, to : User, req : Nat]

AdminRole(u, g)       == [user |-> u, kind |-> "GROUP_ADMIN", group |-> g, task |-> None]
MemberRole(u, g)      == [user |-> u, kind |-> "MEMBER", group |-> g, task |-> None]
AssigneeRole(u, g, t) == [user |-> u, kind |-> "ASSIGNEE", group |-> g, task |-> t]

(***************************************************************************)
(* What a session stages: rows to insert and delete, columns to set, and   *)
(* outbox rows.  An UPDATE carries changed columns only, so two workers    *)
(* that set different columns of a row do not overwrite each other.        *)
(***************************************************************************)
Writes == [
  memIns  : SUBSET (User \X Group),  memDel  : SUBSET (User \X Group),
  asgIns  : SUBSET (User \X Task),   asgDel  : SUBSET (User \X Task),
  roleIns : SUBSET RoleRow,          roleDel : SUBSET RoleRow,
  grpNew  : SUBSET [id : Group, admin : User, policy : Policy, name : Name],
  grpPolicy : SUBSET (Group \X Policy), grpName : SUBSET (Group \X Name),
  grpOff  : SUBSET Group,
  tskNew  : SUBSET [id : Task, group : Group, title : Title],
  tskTitle : SUBSET (Task \X Title), tskStatus : SUBSET (Task \X Status),
  tskOff  : SUBSET Task,
  reqNew  : SUBSET Request,          reqSet  : SUBSET (Nat \X Decision),
  out     : SUBSET ((Group \cup Task) \X EventType)]

NoWrites == [
  memIns |-> {}, memDel |-> {}, asgIns |-> {}, asgDel |-> {},
  roleIns |-> {}, roleDel |-> {},
  grpNew |-> {}, grpPolicy |-> {}, grpName |-> {}, grpOff |-> {},
  tskNew |-> {}, tskTitle |-> {}, tskStatus |-> {}, tskOff |-> {},
  reqNew |-> {}, reqSet |-> {}, out |-> {}]

(***************************************************************************)
(* A unit of work is idle, ready to commit ("commit"), in the role clean-up*)
(* that follows a deletion ("remaining", "pickRole"), in the nested task   *)
(* assignment of a group approval ("flush", "inner", "innerCommit", then   *)
(* "outerCommit"), or committed with events left to dispatch ("dispatch"). *)
(***************************************************************************)
Phase == {"idle", "remaining", "pickRole", "flush", "inner", "innerCommit",
          "commit", "outerCommit", "dispatch"}

Tx == [phase : Phase, actor : User \cup {None}, subject : User \cup {None},
       kind : RoleKind, req : Nat, writes : Writes, events : Seq(Notice)]

Idle == [phase |-> "idle", actor |-> None, subject |-> None, kind |-> "MEMBER",
         req |-> 0, writes |-> NoWrites, events |-> <<>>]

TypeOK ==
  /\ group \in [Group -> GroupRow]
  /\ membership \subseteq User \X Group
  /\ userRole \in [RoleRow -> Nat]
  /\ joinRequest \in Seq(Request)
  /\ task \in [Task -> TaskRow]
  /\ assignee \subseteq User \X Task
  /\ outbox \in [Group \cup Task -> SUBSET EventType]
  /\ tx \in [Worker -> Tx]

Init ==
  /\ group = [g \in Group |-> AbsentGroup]
  /\ membership = {}
  /\ userRole = [r \in RoleRow |-> 0]
  /\ joinRequest = <<>>
  /\ task = [t \in Task |-> AbsentTask]
  /\ assignee = {}
  /\ outbox = [e \in Group \cup Task |-> {}]
  /\ tx = [w \in Worker |-> Idle]

-----------------------------------------------------------------------------
(* Queries *)

ActiveGroup(g) == group[g].state = "active"
ActiveTask(t)  == task[t].state = "active"
HasRole(r)     == userRole[r] > 0
IsRequest(r)   == r \in 1..Len(joinRequest)

\* The permission gate of the endpoints: permissions come from the names of
\* the roles a user holds, wherever the role was granted.
Permits(u, kinds) ==
  \/ u \in Staff
  \/ \E r \in RoleRow : HasRole(r) /\ r.user = u /\ r.kind \in kinds

\* The group, if it is active and the user is its owner.
MyGroup(u, g) == ActiveGroup(g) /\ group[g].admin = u

\* A PENDING request of the user; None leaves the task out of the query,
\* which then also finds requests for the group's tasks.
PendingRequest(u, g, t) ==
  \E r \in 1..Len(joinRequest) :
    /\ joinRequest[r].user = u
    /\ joinRequest[r].status = "PENDING"
    /\ g = None \/ joinRequest[r].group = g
    /\ t = None \/ joinRequest[r].task = t

\* A role is granted unless the user holds it in that group already.
GrantMemberAgain(u, g) == {MemberRole(u, g)}
GrantMember(u, g) ==
  IF \E r \in RoleRow : HasRole(r) /\ r.user = u /\ r.kind = "MEMBER" /\ r.group = g
  THEN {} ELSE {MemberRole(u, g)}

-----------------------------------------------------------------------------
(* The unit of work *)

\* An event a handler leaves for after the commit; req names a join request.
Tell(kind, to, r) == [kind |-> kind, to |-> to, req |-> r]

\* A handler has read and checked, and staged its writes.
Begin(w, phase, t) ==
  /\ tx[w].phase = "idle"
  /\ tx' = [tx EXCEPT ![w] = [t EXCEPT !.phase = phase]]
  /\ UNCHANGED tables

\* Row ids come from sequences: no two transactions are given the same one.
FreshGroup(g) ==
  /\ group[g].state = "absent"
  /\ \A v \in Worker : \A n \in tx[v].writes.grpNew : n.id # g
FreshTask(t) ==
  /\ task[t].state = "absent"
  /\ \A v \in Worker : \A n \in tx[v].writes.tskNew : n.id # t

\* The unique constraints: an insert or update that collides is an error.
Conflict(p) ==
  \/ p.memIns \cap membership # {}
  \/ p.asgIns \cap assignee # {}
  \/ \E q \in p.reqNew : \E r \in 1..Len(joinRequest) :
       /\ q.task # None
       /\ q.user = joinRequest[r].user
       /\ q.group = joinRequest[r].group
       /\ q.task = joinRequest[r].task
  \/ \E n \in p.grpNew : \E g \in Group : group[g].name = n.name
  \/ \E gn \in p.grpName : \E g \in Group \ {gn[1]} : group[g].name = gn[2]

\* The column value a set of (row, value) pairs leaves in row k.
Updated(pairs, k, old) ==
  IF \E x \in pairs : x[1] = k THEN (CHOOSE x \in pairs : x[1] = k)[2] ELSE old

GroupAfter(g, p) ==
  IF \E n \in p.grpNew : n.id = g
  THEN LET n == CHOOSE n \in p.grpNew : n.id = g
       IN  [state |-> "active", admin |-> n.admin, policy |-> n.policy, name |-> n.name]
  ELSE [group[g] EXCEPT !.state  = IF g \in p.grpOff THEN "inactive" ELSE @,
                        !.policy = Updated(p.grpPolicy, g, @),
                        !.name   = Updated(p.grpName, g, @)]

TaskAfter(t, p) ==
  IF \E n \in p.tskNew : n.id = t
  THEN LET n == CHOOSE n \in p.tskNew : n.id = t
       IN  [state |-> "active", group |-> n.group, title |-> n.title, status |-> InitStatus]
  ELSE [task[t] EXCEPT !.state  = IF t \in p.tskOff THEN "inactive" ELSE @,
                       !.title  = Updated(p.tskTitle, t, @),
                       !.status = Updated(p.tskStatus, t, @)]

\* Rows with NULL columns are distinct to the unique constraint of user_roles:
\* an insert adds a row even if an equal one is there, a delete takes one away.
RoleAfterBlindDelete(r, p) ==
  LET kept == IF r \in p.roleDel THEN userRole[r] - 1 ELSE userRole[r]
  IN  IF r \in p.roleIns THEN kept + 1 ELSE kept
RoleAfter(r, p) ==
  LET kept == IF r \in p.roleDel /\ userRole[r] > 0 THEN userRole[r] - 1 ELSE userRole[r]
  IN  IF r \in p.roleIns THEN kept + 1 ELSE kept

RequestsAfter(p) ==
  LET decided == [r \in 1..Len(joinRequest) |->
                    [joinRequest[r] EXCEPT !.status = Updated(p.reqSet, r, @)]]
  IN  IF p.reqNew = {} THEN decided ELSE Append(decided, CHOOSE q \in p.reqNew : TRUE)

\* The staged writes land together.
Land(p) ==
  /\ group' = [g \in Group |-> GroupAfter(g, p)]
  /\ membership' = (membership \ p.memDel) \cup p.memIns
  /\ userRole' = [r \in RoleRow |-> RoleAfter(r, p)]
  /\ joinRequest' = RequestsAfter(p)
  /\ task' = [t \in Task |-> TaskAfter(t, p)]
  /\ assignee' = (assignee \ p.asgDel) \cup p.asgIns
  /\ outbox' = [e \in Group \cup Task |->
                  outbox[e] \cup {k \in EventType : <<e, k>> \in p.out}]

Rollback(w) == tx' = [tx EXCEPT ![w] = Idle] /\ UNCHANGED tables

\* A worker that has flushed its approval holds the rows: others that insert
\* the same membership or update the same request wait for its commit.
HoldsRows(v) == tx[v].phase \in {"inner", "innerCommit", "outerCommit"}
NotBlocked(w) ==
  \A v \in Worker \ {w} : HoldsRows(v) =>
    /\ tx[v].writes.memIns \cap tx[w].writes.memIns = {}
    /\ \A x \in tx[v].writes.reqSet, y \in tx[w].writes.reqSet : x[1] # y[1]

\* After the commit the events, if any, are dispatched, outside of it.
AfterCommit(w) ==
  IF tx[w].events = <<>> THEN Idle
  ELSE [Idle EXCEPT !.phase = "dispatch", !.events = tx[w].events]

\* Leaving the block commits: the writes land or a constraint undoes them all.
CommitThenTell(w) ==
  /\ tx[w].phase \in {"commit", "outerCommit"}
  /\ NotBlocked(w)
  /\ IF Conflict(tx[w].writes)
     THEN /\ tx' = [tx EXCEPT ![w] = AfterCommit(w)]
          /\ UNCHANGED tables
     ELSE /\ Land(tx[w].writes)
          /\ tx' = [tx EXCEPT ![w] = AfterCommit(w)]
Commit(w) ==
  /\ tx[w].phase \in {"commit", "outerCommit"}
  /\ NotBlocked(w)
  /\ IF Conflict(tx[w].writes)
     THEN Rollback(w)
     ELSE /\ Land(tx[w].writes)
          /\ tx' = [tx EXCEPT ![w] = AfterCommit(w)]

\* One notification is created, in a transaction of its own.
Dispatch(w) ==
  /\ tx[w].phase = "dispatch"
  /\ tx' = [tx EXCEPT ![w] = IF Len(tx[w].events) <= 1 THEN Idle
                             ELSE [tx[w] EXCEPT !.events = Tail(tx[w].events)]]
  /\ UNCHANGED tables

\* The worker fails: its session is rolled back, undispatched events are gone.
Fail(w) == tx[w].phase # "idle" /\ Rollback(w)

-----------------------------------------------------------------------------
(* Role clean-up after a deletion *)

\* Does the user still have a group of this kind?  Flushed deletions are seen;
\* the assignee an exit deletes is not flushed when this query runs.
RemainingMembership(w) ==
  \E g \in Group : <<tx[w].subject, g>> \in membership \ tx[w].writes.memDel
Remaining(w) ==
  LET u == tx[w].subject IN
  CASE tx[w].kind = "MEMBER" ->
         \E g \in Group : <<u, g>> \in membership \ tx[w].writes.memDel
    [] tx[w].kind = "GROUP_ADMIN" ->
         \E g \in Group \ tx[w].writes.grpOff : MyGroup(u, g)
    [] tx[w].kind = "ASSIGNEE" ->
         \E t \in Task : <<u, t>> \in assignee

LookRemaining(w) ==
  /\ tx[w].phase = "remaining"
  /\ tx' = [tx EXCEPT ![w].phase = IF Remaining(w) THEN "commit" ELSE "pickRole"]
  /\ UNCHANGED tables

\* One row of the role is deleted, whichever the database returns first.
TakingRole(w, r) ==
  [tx[w] EXCEPT !.phase = "commit",
                !.writes = [tx[w].writes EXCEPT !.roleDel = tx[w].writes.roleDel \cup {r}]]
PickRole(w) ==
  LET rows == {r \in RoleRow : /\ HasRole(r) /\ r \notin tx[w].writes.roleDel
                               /\ r.user = tx[w].subject /\ r.kind = tx[w].kind}
  IN
  /\ tx[w].phase = "pickRole"
  /\ \/ rows = {} /\ tx' = [tx EXCEPT ![w].phase = "commit"]
     \/ \E r \in rows : tx' = [tx EXCEPT ![w] = TakingRole(w, r)]
  /\ UNCHANGED tables

Machinery(w) == \/ Commit(w) \/ Dispatch(w) \/ Fail(w)
                \/ LookRemaining(w) \/ PickRole(w)
=============================================================================
