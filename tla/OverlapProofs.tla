---------------------------- MODULE OverlapProofs ----------------------------
(***************************************************************************)
(* Proofs about the four properties that overlapping requests break: each  *)
(* holds, for any number of workers, as long as no two requests overlap in *)
(* the one way that breaks it, whatever else overlaps.  What a request has *)
(* checked is then still so when its plan lands.                           *)
(***************************************************************************)
EXTENDS LedgerProofs

\* What a plan says of itself: an owner gets the role with the group, an
\* assignee with the task.
PlanRooted(p) ==
  /\ \A n \in p.grpNew : AdminRole(n.admin, n.id) \in p.roleIns
  /\ \A r \in p.roleIns : r.kind = "ASSIGNEE" => \E n \in p.tskNew : n.id = r.task

\* What holds of the tables when a plan lands that was checked against them.
DeletesOwn(p) == \A r \in p.roleDel : r.kind = "GROUP_ADMIN" => r.group \in p.grpOff
GrantsNew(p, roles) == \A r \in p.roleIns : roles[r] = 0
AsksNew(p, reqs) ==
  \A q \in p.reqNew : \A r \in 1..Len(reqs) : reqs[r].status = "PENDING" /\ q.task = None =>
    reqs[r].user # q.user \/ reqs[r].group # q.group \/ reqs[r].task # q.task
\* A request that is being approved is undecided, or approved meanwhile.
Approvable(p, reqs) ==
  \A x \in p.reqSet : x[2] = "APPROVED" => reqs[x[1]].status # "REJECTED"

\* The clean-up of an owner takes a row only if no other group is left.
LastGone(t, grp) ==
  t.phase = "pickRole" /\ t.kind = "GROUP_ADMIN" =>
    \A g \in Group \ t.writes.grpOff : ~(grp[g].state = "active" /\ grp[g].admin = t.subject)

TimelyPlan(p, roles, reqs) ==
  /\ PlanRooted(p) /\ DeletesOwn(p)
  /\ GrantsNew(p, roles) /\ AsksNew(p, reqs) /\ Approvable(p, reqs)
Timely(t, grp, roles, reqs) == TimelyPlan(t.writes, roles, reqs) /\ LastGone(t, grp)

\* An ASSIGNEE row is about a task there is, or was.
AssigneeRolesPlaced ==
  \A r \in RoleRow : r.kind = "ASSIGNEE" /\ HasRole(r) =>
    r.task \in Task /\ task[r.task].state # "absent"

Rooted == AssigneeRolesPlaced /\ \A w \in Worker : PlanRooted(tx[w].writes)

\* A step of a worker that leaves the tables alone leaves its plan as timely as
\* it was; otherwise its plan lands, or the plan of a nested assignment, which
\* is bare of all that is looked at here.
Keeps(s, t) ==
  /\ PlanRooted(s.writes) => PlanRooted(t.writes)
  /\ DeletesOwn(s.writes) /\ LastGone(s, group) => DeletesOwn(t.writes) /\ LastGone(t, group)
  /\ GrantsNew(s.writes, userRole) => GrantsNew(t.writes, userRole)
  /\ AsksNew(s.writes, joinRequest) => AsksNew(t.writes, joinRequest)
  /\ Approvable(s.writes, joinRequest) => Approvable(t.writes, joinRequest)

Stays(w) == UNCHANGED tables /\ \E t : tx' = [tx EXCEPT ![w] = t] /\ Keeps(tx[w], t)

Bare(p) == /\ p.grpNew = {} /\ p.roleIns = {} /\ p.roleDel = {}
           /\ p.reqNew = {} /\ p.reqSet = {}

Lands(w, p) ==
  /\ Land(p) /\ ~Conflict(p)
  /\ PlanSound(p, group, task, joinRequest) /\ PlanKept(p, group, task, joinRequest)
  /\ \E t : /\ tx' = [tx EXCEPT ![w] = t]
            /\ t.phase # "pickRole"
            /\ \/ p = tx[w].writes /\ Bare(t.writes)
               \/ Bare(p) /\ t.writes = tx[w].writes

-----------------------------------------------------------------------------
(* A timely plan lands *)

LEMMA RoleAfterCount ==
  ASSUME NEW p, NEW r \in RoleRow, userRole[r] \in Nat
  PROVE  /\ RoleAfter(r, p) \in Nat
         /\ r \notin p.roleIns => RoleAfter(r, p) <= userRole[r]
         /\ r \notin p.roleDel => RoleAfter(r, p) >= userRole[r]
         /\ r \in p.roleIns => RoleAfter(r, p) > 0
         /\ r \in p.roleIns /\ userRole[r] = 0 => RoleAfter(r, p) = 1
         /\ r \notin p.roleIns /\ r \notin p.roleDel => RoleAfter(r, p) = userRole[r]
  BY DEF RoleAfter

LEMMA LandRoleCounts ==
  ASSUME TypeOK, NEW p, Land(p), NEW r \in RoleRow
  PROVE  userRole'[r] = RoleAfter(r, p) /\ userRole[r] \in Nat
  BY DEF Land, TypeOK

LEMMA LandComplete ==
  ASSUME TypeOK, TypeOK', AdminRoleComplete, NEW p \in Writes, Land(p),
         PlanSound(p, group, task, joinRequest), PlanKept(p, group, task, joinRequest),
         PlanRooted(p), DeletesOwn(p)
  PROVE  AdminRoleComplete'
<1> SUFFICES ASSUME NEW g \in Group, group'[g].state = "active"
             PROVE  userRole'[AdminRole(group'[g].admin, g)] > 0
  BY DEF AdminRoleComplete, ActiveGroup, HasRole
<1> DEFINE r == AdminRole(group'[g].admin, g)
<1>1. group'[g] = GroupAfter(g, p)  BY DEF Land
<1>2. group'[g].admin \in User
  <2>1. group'[g] \in GroupRow  BY DEF TypeOK
  <2>   QED  BY <2>1 DEF GroupRow, AbsentGroup
<1>3. r \in RoleRow /\ r.kind = "GROUP_ADMIN" /\ r.group = g
  BY <1>2 DEF AdminRole, RoleRow, RoleKind
<1>4. userRole'[r] = RoleAfter(r, p) /\ userRole[r] \in Nat  BY <1>3, LandRoleCounts
<1>5. CASE \E n \in p.grpNew : n.id = g
  <2>1. PICK n \in p.grpNew : n.id = g  BY <1>5
  <2>2. group'[g].admin = n.admin  BY <1>1, <2>1, GroupAfterRow
  <2>3. r \in p.roleIns  BY <2>1, <2>2 DEF PlanRooted
  <2> HIDE DEF r
  <2>   QED  BY <1>3, <1>4, <2>3, RoleAfterCount DEF r
<1>6. CASE ~\E n \in p.grpNew : n.id = g
  <2>1. /\ group[g].state # "absent" /\ g \notin p.grpOff
        /\ group[g].state = "active" /\ group'[g].admin = group[g].admin
    <3>1. group[g].state \in {"absent", "active", "inactive"}
      BY DEF TypeOK, GroupRow, AbsentGroup
    <3>2. group[g].state # "absent"  BY <1>1, <1>6, GroupAfterRow
    <3>3. /\ group'[g].state = IF g \in p.grpOff THEN "inactive" ELSE group[g].state
          /\ group'[g].admin = group[g].admin
      BY <1>1, <3>2, GroupAfterRow
    <3>   QED  BY <3>1, <3>2, <3>3
  <2>2. userRole[r] > 0  BY <2>1 DEF AdminRoleComplete, ActiveGroup, HasRole
  <2>3. r \notin p.roleDel  BY <1>3, <2>1 DEF DeletesOwn
  <2> HIDE DEF r
  <2>4. userRole'[r] >= userRole[r] /\ userRole'[r] \in Nat
    BY <1>3, <1>4, <2>3, RoleAfterCount
  <2>5. userRole'[r] > 0  BY <1>4, <2>2, <2>4
  <2>   QED  BY <2>5 DEF r
<1>   QED  BY <1>5, <1>6

LEMMA LandOnce ==
  ASSUME TypeOK, RolesGrantedOnce, NEW p, Land(p), GrantsNew(p, userRole)
  PROVE  RolesGrantedOnce'
<1> SUFFICES ASSUME NEW r \in RoleRow PROVE userRole'[r] <= 1
  BY DEF RolesGrantedOnce
<1>1. userRole'[r] = RoleAfter(r, p) /\ userRole[r] \in Nat /\ userRole[r] <= 1
  BY LandRoleCounts DEF RolesGrantedOnce
<1>2. r \in p.roleIns => userRole[r] = 0  BY DEF GrantsNew
<1>3. /\ RoleAfter(r, p) \in Nat
      /\ r \notin p.roleIns => RoleAfter(r, p) <= userRole[r]
      /\ r \in p.roleIns => RoleAfter(r, p) = 1
  BY <1>1, <1>2, RoleAfterCount
<1>   QED  BY <1>1, <1>3

LEMMA LandAssignees ==
  ASSUME TypeOK, AssigneeRolesPlaced, NEW p \in Writes, Land(p),
         PlanSound(p, group, task, joinRequest), PlanKept(p, group, task, joinRequest),
         PlanRooted(p)
  PROVE  AssigneeRolesPlaced'
<1> SUFFICES ASSUME NEW r \in RoleRow, r.kind = "ASSIGNEE", userRole'[r] > 0
             PROVE  r.task \in Task /\ task'[r.task].state # "absent"
  BY DEF AssigneeRolesPlaced, HasRole
<1>1. userRole'[r] = RoleAfter(r, p) /\ userRole[r] \in Nat  BY LandRoleCounts
<1>2. CASE r \in p.roleIns
  <2>1. PICK n \in p.tskNew : n.id = r.task  BY <1>2 DEF PlanRooted
  <2>2. n.id \in Task  BY DEF Writes
  <2>   QED  BY <2>1, <2>2, LandStates DEF PlanKept
<1>3. CASE r \notin p.roleIns
  <2>1. RoleAfter(r, p) <= userRole[r] /\ RoleAfter(r, p) \in Nat  BY <1>1, <1>3, RoleAfterCount
  <2>2. userRole[r] > 0  BY <1>1, <2>1
  <2>3. r.task \in Task /\ task[r.task].state # "absent"
    BY <2>2 DEF AssigneeRolesPlaced, HasRole
  <2>   QED  BY <2>3, LandStates DEF PlanKept
<1>   QED  BY <1>2, <1>3

\* A request that is undecided after a commit was so before, or is new.
LEMMA StillPending ==
  ASSUME TypeOK, NEW p \in Writes, LedgerPlan(p, group, task, joinRequest), Land(p),
         NEW r \in 1..Len(joinRequest), joinRequest'[r].status = "PENDING"
  PROVE  joinRequest[r].status = "PENDING"
  BY StaysDecided

LEMMA LandPending ==
  ASSUME TypeOK, OnePendingRequest, NEW p \in Writes, Land(p), ~Conflict(p),
         PlanKept(p, group, task, joinRequest), AsksNew(p, joinRequest)
  PROVE  OnePendingRequest'
<1> DEFINE n == Len(joinRequest)
           Alike(a, b) == a.user = b.user /\ a.group = b.group /\ a.task = b.task
<1>1. n \in Nat /\ LedgerPlan(p, group, task, joinRequest)  BY DEF TypeOK, PlanKept
<1>2. \A q, r \in 1..n :
        /\ joinRequest'[q].status = "PENDING" /\ joinRequest'[r].status = "PENDING"
        /\ Alike(joinRequest'[q], joinRequest'[r])
        => q = r
  <2> SUFFICES ASSUME NEW q \in 1..n, NEW r \in 1..n,
                      joinRequest'[q].status = "PENDING", joinRequest'[r].status = "PENDING",
                      Alike(joinRequest'[q], joinRequest'[r])
               PROVE  q = r
    OBVIOUS
  <2>1. joinRequest[q].status = "PENDING" /\ joinRequest[r].status = "PENDING"
    BY <1>1, StillPending
  <2>2. Alike(joinRequest[q], joinRequest[r])  BY RequestKeeps
  <2>   QED  BY <2>1, <2>2 DEF OnePendingRequest
<1>3. CASE p.reqNew = {}
  <2>1. Len(joinRequest') = n  BY <1>3, RequestsGrow
  <2>   QED  BY <1>2, <2>1 DEF OnePendingRequest
<1>4. CASE p.reqNew # {}
  <2>1. Asks(p, group, task)
    BY <1>1, <1>4 DEF LedgerPlan, Founds, Closes, Enters, Leaves, Decides
  <2>2. PICK a \in Request : p.reqNew = {a}  BY <2>1 DEF Asks
  <2>3. Len(joinRequest') = n + 1 /\ joinRequest'[n + 1] = a  BY <2>2, RequestsGrow
  <2>4. ASSUME NEW r \in 1..n, joinRequest'[r].status = "PENDING"
        PROVE  ~Alike(joinRequest'[r], a)
    <3>1. joinRequest[r].status = "PENDING"  BY <1>1, <2>4, StillPending
    <3>2. CASE a.task = None
      <4>1. ~Alike(joinRequest[r], a)  BY <2>2, <3>1, <3>2 DEF AsksNew
      <4>   QED  BY <4>1, RequestKeeps
    <3>3. CASE a.task # None
      <4>1. ~Alike(joinRequest[r], a)  BY <2>2, <3>3 DEF Conflict
      <4>   QED  BY <4>1, RequestKeeps
    <3>   QED  BY <3>2, <3>3
  <2>5. \A r \in 1..Len(joinRequest') : r \in 1..n \/ r = n + 1  BY <1>1, <2>3
  <2>6. ASSUME NEW q \in 1..Len(joinRequest'), NEW r \in 1..Len(joinRequest'),
               joinRequest'[q].status = "PENDING", joinRequest'[r].status = "PENDING",
               Alike(joinRequest'[q], joinRequest'[r])
        PROVE  q = r
    <3>1. CASE q \in 1..n /\ r \in 1..n  BY <1>2, <2>6, <3>1
    <3>2. CASE q \in 1..n /\ r = n + 1  BY <2>3, <2>4, <2>6, <3>2
    <3>3. CASE q = n + 1 /\ r \in 1..n  BY <2>3, <2>4, <2>6, <3>3
    <3>   QED  BY <2>5, <3>1, <3>2, <3>3
  <2>   QED  BY <2>6 DEF OnePendingRequest
<1>   QED  BY <1>3, <1>4

LEMMA LandRejected ==
  ASSUME TypeOK, NEW p \in Writes, Land(p), PlanKept(p, group, task, joinRequest),
         Approvable(p, joinRequest), NEW r \in 1..Len(joinRequest),
         joinRequest[r].status = "REJECTED"
  PROVE  joinRequest'[r].status = "REJECTED"
<1>1. joinRequest'[r].status = Updated(p.reqSet, r, joinRequest[r].status)  BY RequestKeeps
<1>2. ASSUME NEW x \in p.reqSet, x[1] = r PROVE x[2] = "REJECTED"
  <2>1. x[2] \in {"APPROVED", "REJECTED"}  BY DecisionsOnly DEF PlanKept
  <2>2. x[2] # "APPROVED"  BY <1>2 DEF Approvable
  <2>   QED  BY <2>1, <2>2
<1>   QED  BY <1>1, <1>2 DEF Updated

-----------------------------------------------------------------------------
(* The steps of a unit of work *)

LEMMA TimelyKeeps ==
  ASSUME NEW s, NEW t, Timely(t, group, userRole, joinRequest)
  PROVE  Keeps(s, t)
  BY DEF Timely, TimelyPlan, Keeps

LEMMA NothingTimely ==
  /\ Bare(NoWrites)
  /\ \A roles, reqs : TimelyPlan(NoWrites, roles, reqs)
  /\ \A grp, roles, reqs : Timely(Idle, grp, roles, reqs)
<1>1. Bare(NoWrites)  BY DEF NoWrites, Bare
<1>2. \A roles, reqs : TimelyPlan(NoWrites, roles, reqs)
  BY <1>1 DEF Bare, TimelyPlan, PlanRooted, DeletesOwn, GrantsNew, AsksNew, Approvable
<1>3. Idle.writes = NoWrites /\ Idle.phase = "idle"  BY DEF Idle
<1>   QED  BY <1>1, <1>2, <1>3 DEF Timely, LastGone

LEMMA WorkerFits ==
  ASSUME LedgerInv, NEW w \in Worker
  PROVE  /\ TypeOK /\ AdminRoleSound /\ tx \in [Worker -> Tx] /\ tx[w] \in Tx
         /\ tx[w].writes \in Writes
         /\ PlanSound(tx[w].writes, group, task, joinRequest)
         /\ PlanKept(tx[w].writes, group, task, joinRequest)
  BY LedgerWorker DEF OwnerInv

LEMMA RollbackTimely ==
  ASSUME NEW w \in Worker, Rollback(w)
  PROVE  Stays(w)
  BY NothingTimely, TimelyKeeps DEF Rollback, Stays

LEMMA CommitTimely ==
  ASSUME LedgerInv, NEW w \in Worker, Commit(w)
  PROVE  Stays(w) \/ Lands(w, tx[w].writes)
<1>1. CASE Conflict(tx[w].writes)  BY <1>1, RollbackTimely DEF Commit
<1>2. CASE ~Conflict(tx[w].writes)
  <2> DEFINE t == AfterCommit(w)
  <2>1. Land(tx[w].writes) /\ tx' = [tx EXCEPT ![w] = t]  BY <1>2 DEF Commit
  <2>2. t.writes = NoWrites /\ t.phase \in {"idle", "dispatch"}
    BY LedgerWorker, AfterCommitInOrder
  <2> HIDE DEF t
  <2>3. Bare(t.writes) /\ t.phase # "pickRole"  BY <2>2, NothingTimely
  <2>   QED  BY <1>2, <2>1, <2>3, WorkerFits DEF Lands
<1>   QED  BY <1>1, <1>2

\* What is looked at here of a plan stays, and no row is about to be picked.
LEMMA SamePlanKeeps ==
  ASSUME NEW s, NEW t, t.writes = s.writes, t.phase # "pickRole"
  PROVE  Keeps(s, t)
  BY DEF Keeps, LastGone

LEMMA DispatchTimely ==
  ASSUME LedgerInv, NEW w \in Worker, Dispatch(w)
  PROVE  Stays(w)
<1>1. CASE Len(tx[w].events) <= 1
  BY <1>1, NothingTimely, TimelyKeeps DEF Dispatch, Stays
<1>2. CASE ~(Len(tx[w].events) <= 1)
  <2> DEFINE t == [tx[w] EXCEPT !.events = Tail(tx[w].events)]
  <2>1. /\ t.writes = tx[w].writes /\ t.phase = "dispatch"
        /\ tx' = [tx EXCEPT ![w] = t] /\ UNCHANGED tables
    BY <1>2, WorkerFits DEF Dispatch, Tx
  <2> HIDE DEF t
  <2>   QED  BY <2>1, SamePlanKeeps DEF Stays
<1>   QED  BY <1>1, <1>2

\* Only the phase changes, and not to the choice of a row.
LEMMA PhaseTimely ==
  ASSUME LedgerInv, UNCHANGED tables, NEW w \in Worker, NEW phase,
         phase # "pickRole", tx' = [tx EXCEPT ![w].phase = phase]
  PROVE  Stays(w)
<1> DEFINE t == [tx[w] EXCEPT !.phase = phase]
<1>1. t.writes = tx[w].writes /\ t.phase = phase /\ tx' = [tx EXCEPT ![w] = t]
  BY WorkerFits DEF Tx
<1> HIDE DEF t
<1>   QED  BY <1>1, SamePlanKeeps DEF Stays

\* The clean-up picks a row after it has found no other group of the owner's.
LEMMA LookRemainingTimely ==
  ASSUME LedgerInv, NEW w \in Worker, LookRemaining(w)
  PROVE  Stays(w)
<1>1. UNCHANGED tables  BY DEF LookRemaining
<1>2. CASE Remaining(w)
  BY <1>1, <1>2, PhaseTimely DEF LookRemaining
<1>3. CASE ~Remaining(w)
  <2> DEFINE t == [tx[w] EXCEPT !.phase = "pickRole"]
  <2>1. /\ t.writes = tx[w].writes /\ t.kind = tx[w].kind /\ t.subject = tx[w].subject
        /\ tx' = [tx EXCEPT ![w] = t]
    BY <1>3, WorkerFits DEF LookRemaining, Tx
  <2> HIDE DEF t
  <2>2. tx[w].kind = "GROUP_ADMIN" =>
          ~\E g \in Group \ tx[w].writes.grpOff : MyGroup(tx[w].subject, g)
    BY <1>3 DEF Remaining
  <2>3. LastGone(t, group)  BY <2>1, <2>2 DEF LastGone, MyGroup, ActiveGroup
  <2>4. Keeps(tx[w], t)  BY <2>1, <2>3 DEF Keeps
  <2>   QED  BY <1>1, <2>1, <2>4 DEF Stays
<1>   QED  BY <1>2, <1>3

\* A row that is picked is not of a group that goes on.
LEMMA PickRoleTimely ==
  ASSUME LedgerInv, NEW w \in Worker, PickRole(w)
  PROVE  Stays(w)
<1>1. UNCHANGED tables /\ tx[w].phase = "pickRole"  BY DEF PickRole
<1>2. CASE tx' = [tx EXCEPT ![w].phase = "commit"]  BY <1>1, <1>2, PhaseTimely
<1>3. ASSUME NEW r \in RoleRow, HasRole(r), r.user = tx[w].subject, r.kind = tx[w].kind,
             tx' = [tx EXCEPT ![w] = TakingRole(w, r)]
      PROVE  Stays(w)
  <2> DEFINE q == tx[w].writes
             p == [q EXCEPT !.roleDel = q.roleDel \cup {r}]
             t == TakingRole(w, r)
  <2>1. /\ p.grpNew = q.grpNew /\ p.roleIns = q.roleIns /\ p.grpOff = q.grpOff
        /\ p.tskNew = q.tskNew /\ p.reqNew = q.reqNew /\ p.reqSet = q.reqSet
        /\ p.roleDel = q.roleDel \cup {r}
    BY WorkerFits DEF Writes
  <2>2. t.writes = p /\ t.phase = "commit"  BY WorkerFits DEF TakingRole, Tx
  <2>3. LastGone(tx[w], group) => (r.kind = "GROUP_ADMIN" => r.group \in q.grpOff)
    <3> SUFFICES ASSUME LastGone(tx[w], group), r.kind = "GROUP_ADMIN"
                 PROVE  r.group \in q.grpOff
      OBVIOUS
    <3>1. MyGroup(tx[w].subject, r.group) /\ r.group \in Group
      BY <1>3, WorkerFits DEF AdminRoleSound, RoleRow
    <3>   QED  BY <1>1, <1>3, <3>1 DEF LastGone, MyGroup, ActiveGroup
  <2>4. q = tx[w].writes  OBVIOUS
  <2> HIDE DEF q, p, t
  <2>5. DeletesOwn(q) /\ LastGone(tx[w], group) => DeletesOwn(p)  BY <2>1, <2>3 DEF DeletesOwn
  <2>6. LastGone(t, group)  BY <2>2 DEF LastGone
  <2>7. /\ PlanRooted(q) => PlanRooted(p)
        /\ GrantsNew(q, userRole) => GrantsNew(p, userRole)
        /\ AsksNew(q, joinRequest) => AsksNew(p, joinRequest)
        /\ Approvable(q, joinRequest) => Approvable(p, joinRequest)
    BY <2>1 DEF PlanRooted, GrantsNew, AsksNew, Approvable
  <2>8. Keeps(tx[w], t)  BY <2>2, <2>4, <2>5, <2>6, <2>7 DEF Keeps
  <2>   QED  BY <1>1, <1>3, <2>8 DEF Stays, t
<1>   QED  BY <1>2, <1>3 DEF PickRole

LEMMA MachineryTimely ==
  ASSUME LedgerInv, NEW w \in Worker, Machinery(w)
  PROVE  Stays(w) \/ \E p \in Writes : Lands(w, p)
<1>1. CASE Fail(w)  BY <1>1, RollbackTimely DEF Fail
<1>2. CASE Commit(w)  BY <1>2, CommitTimely, WorkerFits
<1>   QED  BY <1>1, <1>2, DispatchTimely, LookRemainingTimely, PickRoleTimely DEF Machinery

-----------------------------------------------------------------------------
(* The requests *)

\* A plan that grants, founds and asks nothing, and approves nothing.
Plain(p) == /\ p.grpNew = {} /\ p.roleIns = {} /\ p.roleDel = {} /\ p.reqNew = {}
            /\ \A x \in p.reqSet : x[2] # "APPROVED"

LEMMA PlainTimely ==
  ASSUME NEW p, Plain(p)
  PROVE  \A roles, reqs : TimelyPlan(p, roles, reqs)
  BY DEF Plain, TimelyPlan, PlanRooted, DeletesOwn, GrantsNew, AsksNew, Approvable

LEMMA StageKeeps ==
  ASSUME LedgerInv, NEW w \in Worker, NEW phase, phase # "pickRole",
         NEW t, Begin(w, phase, t), NEW p, [t EXCEPT !.phase = phase].writes = p,
         [t EXCEPT !.phase = phase].phase = phase, TimelyPlan(p, userRole, joinRequest)
  PROVE  Stays(w)
<1> DEFINE s == [t EXCEPT !.phase = phase]
<1>1. tx' = [tx EXCEPT ![w] = s] /\ UNCHANGED tables  BY DEF Begin
<1>2. s.writes = p /\ s.phase = phase  OBVIOUS
<1> HIDE DEF s
<1>3. Timely(s, group, userRole, joinRequest)  BY <1>2 DEF Timely, LastGone
<1>   QED  BY <1>1, <1>3, TimelyKeeps DEF Stays

LEMMA StageWritesTimely ==
  ASSUME LedgerInv, Rooted, NEW w \in Worker, NEW p,
         Begin(w, "commit", [Idle EXCEPT !.writes = p]), TimelyPlan(p, userRole, joinRequest)
  PROVE  Stays(w)
<1> DEFINE t == [Idle EXCEPT !.writes = p]
<1>1. [t EXCEPT !.phase = "commit"].writes = p /\ [t EXCEPT !.phase = "commit"].phase = "commit"
  BY DEF Idle
<1> HIDE DEF t
<1>2. Begin(w, "commit", t)  BY DEF t
<1>   QED  BY <1>1, <1>2, StageKeeps

LEMMA StageTellingTimely ==
  ASSUME LedgerInv, Rooted, NEW w \in Worker, NEW p, NEW es,
         Begin(w, "commit", [Idle EXCEPT !.writes = p, !.events = es]),
         TimelyPlan(p, userRole, joinRequest)
  PROVE  Stays(w)
<1> DEFINE t == [Idle EXCEPT !.writes = p, !.events = es]
<1>1. [t EXCEPT !.phase = "commit"].writes = p /\ [t EXCEPT !.phase = "commit"].phase = "commit"
  BY DEF Idle
<1> HIDE DEF t
<1>2. Begin(w, "commit", t)  BY DEF t
<1>   QED  BY <1>1, <1>2, StageKeeps

LEMMA StageLeavingTimely ==
  ASSUME LedgerInv, Rooted, NEW w \in Worker, NEW v, NEW k, NEW p,
         Begin(w, "remaining", [Idle EXCEPT !.subject = v, !.kind = k, !.writes = p]),
         TimelyPlan(p, userRole, joinRequest)
  PROVE  Stays(w)
<1> DEFINE t == [Idle EXCEPT !.subject = v, !.kind = k, !.writes = p]
<1>1. /\ [t EXCEPT !.phase = "remaining"].writes = p
      /\ [t EXCEPT !.phase = "remaining"].phase = "remaining"
  BY DEF Idle
<1> HIDE DEF t
<1>2. Begin(w, "remaining", t)  BY DEF t
<1>   QED  BY <1>1, <1>2, StageKeeps

\* MEMBER is granted only to who does not hold it in that group.
LEMMA GrantMemberTimely ==
  ASSUME TypeOK, NEW u \in User, NEW g \in Group
  PROVE  \A r \in GrantMember(u, g) : r.kind = "MEMBER" /\ userRole[r] = 0
<1> DEFINE m == MemberRole(u, g)
<1>1. m \in RoleRow /\ m.user = u /\ m.kind = "MEMBER" /\ m.group = g
  BY DEF MemberRole, RoleRow, RoleKind
<1>2. userRole[m] \in Nat  BY <1>1 DEF TypeOK
<1> HIDE DEF m
<1>3. CASE HasRole(m)
  <2>1. GrantMember(u, g) = {}  BY <1>1, <1>3 DEF GrantMember
  <2>   QED  BY <2>1
<1>4. CASE ~HasRole(m)
  <2>1. userRole[m] = 0  BY <1>2, <1>4 DEF HasRole
  <2>2. GrantMember(u, g) \subseteq {m}  BY DEF GrantMember, m
  <2>   QED  BY <1>1, <2>1, <2>2
<1>   QED  BY <1>3, <1>4

LEMMA CreateMyGroupTimely ==
  ASSUME LedgerInv, Rooted, NEW w \in Worker, NEW u \in User, NEW g \in Group,
         NEW n \in Name, NEW pol \in Policy, CreateMyGroup(w, u, g, n, pol)
  PROVE  Stays(w)
<1> DEFINE row == [id |-> g, admin |-> u, policy |-> pol, name |-> n]
           p == [NoWrites EXCEPT !.grpNew = {row}, !.memIns = {<<u, g>>},
                                 !.roleIns = {AdminRole(u, g)}, !.out = {<<g, "CREATED">>}]
<1>1. Begin(w, "commit", [Idle EXCEPT !.writes = p]) /\ group[g].state = "absent"
  BY DEF CreateMyGroup, FreshGroup
<1>2. /\ p.grpNew = {row} /\ p.roleIns = {AdminRole(u, g)} /\ p.roleDel = {}
      /\ p.reqNew = {} /\ p.reqSet = {}
  BY DEF NoWrites
<1>3. row.id = g /\ row.admin = u  OBVIOUS
<1>4. /\ AdminRole(u, g) \in RoleRow /\ AdminRole(u, g).kind = "GROUP_ADMIN"
      /\ AdminRole(u, g).group = g
  BY DEF AdminRole, RoleRow, RoleKind
<1> HIDE DEF p, row
<1>5. userRole[AdminRole(u, g)] = 0
  <2>1. userRole[AdminRole(u, g)] \in Nat  BY <1>4, WorkerFits DEF TypeOK
  <2>2. ~HasRole(AdminRole(u, g))
    BY <1>1, <1>4, WorkerFits DEF AdminRoleSound, MyGroup, ActiveGroup
  <2>   QED  BY <2>1, <2>2 DEF HasRole
<1>6. TimelyPlan(p, userRole, joinRequest)
  BY <1>2, <1>3, <1>4, <1>5 DEF TimelyPlan, PlanRooted, DeletesOwn, GrantsNew, AsksNew,
                                Approvable
<1>   QED  BY <1>1, <1>6, StageWritesTimely

LEMMA UpdateMyGroupTimely ==
  ASSUME LedgerInv, Rooted, NEW w \in Worker, NEW u \in User, NEW g \in Group,
         NEW n \in Name, NEW pol \in Policy, UpdateMyGroup(w, u, g, n, pol)
  PROVE  Stays(w)
<1> DEFINE names == {<<g, n>>} \ {<<g, group[g].name>>}
           policies == {<<g, pol>>} \ {<<g, group[g].policy>>}
           p == [NoWrites EXCEPT !.grpName = names, !.grpPolicy = policies,
                                 !.out = {<<g, "UPDATED">>}]
<1>1. Begin(w, "commit", [Idle EXCEPT !.writes = p])  BY DEF UpdateMyGroup
<1> HIDE DEF names, policies
<1>2. Plain(p)  BY DEF NoWrites, Plain
<1>   QED  BY <1>1, <1>2, PlainTimely, StageWritesTimely

LEMMA DeleteMyGroupTimely ==
  ASSUME LedgerInv, Rooted, NEW w \in Worker, NEW u \in User, NEW g \in Group,
         DeleteMyGroup(w, u, g)
  PROVE  Stays(w)
<1> DEFINE role == {AdminRole(u, g)}
           p == [NoWrites EXCEPT !.grpOff = {g}, !.roleDel = role, !.out = {<<g, "DELETED">>}]
<1>1. Begin(w, "remaining", [Idle EXCEPT !.subject = u, !.kind = "GROUP_ADMIN", !.writes = p])
  BY DEF DeleteMyGroup
<1>2. /\ p.grpOff = {g} /\ p.roleDel = role /\ p.grpNew = {} /\ p.roleIns = {}
      /\ p.reqNew = {} /\ p.reqSet = {}
  BY DEF NoWrites
<1>3. \A r \in role : r.group = g  BY DEF AdminRole
<1> HIDE DEF p, role
<1>4. TimelyPlan(p, userRole, joinRequest)
  BY <1>2, <1>3 DEF TimelyPlan, PlanRooted, DeletesOwn, GrantsNew, AsksNew,
                    Approvable
<1>   QED  BY <1>1, <1>4, StageLeavingTimely

LEMMA AddMemberToGroupTimely ==
  ASSUME LedgerInv, Rooted, NEW w \in Worker, NEW u \in User, NEW g \in Group,
         NEW v \in User, AddMemberToGroup(w, u, g, v)
  PROVE  Stays(w)
<1> DEFINE p == [NoWrites EXCEPT !.memIns = {<<v, g>>}]
<1>1. Begin(w, "commit", [Idle EXCEPT !.writes = p, !.events = <<Tell("group_invite", v, 0)>>])
  BY DEF AddMemberToGroup
<1>2. Plain(p)  BY DEF NoWrites, Plain
<1>   QED  BY <1>1, <1>2, PlainTimely, StageTellingTimely

LEMMA LeaveGroupTimely ==
  ASSUME LedgerInv, Rooted, NEW w \in Worker, NEW g \in Group, NEW v \in User,
         LeaveGroup(w, g, v)
  PROVE  Stays(w)
<1> DEFINE p == [NoWrites EXCEPT !.memDel = {<<v, g>>}]
<1>1. Begin(w, "remaining", [Idle EXCEPT !.subject = v, !.kind = "MEMBER", !.writes = p])
  BY DEF LeaveGroup
<1>2. Plain(p)  BY DEF NoWrites, Plain
<1>   QED  BY <1>1, <1>2, PlainTimely, StageLeavingTimely

\* A request is opened only if none like it is undecided.
LEMMA AskTimely ==
  ASSUME LedgerInv, Rooted, NEW w \in Worker, NEW q, NEW to,
         Begin(w, "commit", [Idle EXCEPT !.writes = [NoWrites EXCEPT !.reqNew = {q}],
                                         !.events = <<Tell("created", to, 0)>>]),
         \A r \in 1..Len(joinRequest) : joinRequest[r].status = "PENDING" =>
           \/ joinRequest[r].user # q.user \/ joinRequest[r].group # q.group
           \/ joinRequest[r].task # q.task
  PROVE  Stays(w)
<1> DEFINE p == [NoWrites EXCEPT !.reqNew = {q}]
           es == <<Tell("created", to, 0)>>
<1>1. /\ p.reqNew = {q} /\ p.grpNew = {} /\ p.roleIns = {} /\ p.roleDel = {}
      /\ p.reqSet = {}
  BY DEF NoWrites
<1>2. Begin(w, "commit", [Idle EXCEPT !.writes = p, !.events = es])  OBVIOUS
<1> HIDE DEF p, es
<1>3. TimelyPlan(p, userRole, joinRequest)
  BY <1>1 DEF TimelyPlan, PlanRooted, DeletesOwn, GrantsNew, AsksNew,
              Approvable
<1>   QED  BY <1>2, <1>3, StageTellingTimely

LEMMA JoinGroupTimely ==
  ASSUME LedgerInv, Rooted, NEW w \in Worker, NEW u \in User, NEW g \in Group,
         JoinGroup(w, u, g)
  PROVE  Stays(w)
<1>1. CASE JoinGroupOpen(w, u, g)
  <2> DEFINE role == GrantMember(u, g)
             p == [NoWrites EXCEPT !.memIns = {<<u, g>>}, !.roleIns = role]
  <2>1. Begin(w, "commit", [Idle EXCEPT !.writes = p,
                                        !.events = <<Tell("group_join", group[g].admin, 0)>>])
    BY <1>1 DEF JoinGroupOpen
  <2>2. /\ p.roleIns = role /\ p.grpNew = {} /\ p.roleDel = {} /\ p.reqNew = {}
        /\ p.reqSet = {}
    BY DEF NoWrites
  <2>3. \A r \in role : r.kind = "MEMBER" /\ userRole[r] = 0
    BY WorkerFits, GrantMemberTimely
  <2> HIDE DEF p, role
  <2>4. TimelyPlan(p, userRole, joinRequest)
    BY <2>2, <2>3 DEF TimelyPlan, PlanRooted, DeletesOwn, GrantsNew, AsksNew,
                      Approvable
  <2>   QED  BY <2>1, <2>4, StageTellingTimely
<1>2. CASE JoinGroupByRequest(w, u, g)
  <2> DEFINE q == [user |-> u, group |-> g, task |-> None, status |-> "PENDING"]
  <2>1. Begin(w, "commit", [Idle EXCEPT !.writes = [NoWrites EXCEPT !.reqNew = {q}],
                                        !.events = <<Tell("created", group[g].admin, 0)>>])
    BY <1>2 DEF JoinGroupByRequest
  <2>2. \A r \in 1..Len(joinRequest) : joinRequest[r].status = "PENDING" =>
          joinRequest[r].user # u \/ joinRequest[r].group # g
    BY DEF JoinGroup, PendingRequest
  <2>3. q.user = u /\ q.group = g  OBVIOUS
  <2> HIDE DEF q
  <2>   QED  BY <2>1, <2>2, <2>3, AskTimely
<1>   QED  BY <1>1, <1>2 DEF JoinGroup

LEMMA ApproveJoinRequestTimely ==
  ASSUME LedgerInv, Rooted, NEW w \in Worker, NEW u \in User,
         NEW r \in 1..Len(joinRequest), ApproveJoinRequest(w, u, r)
  PROVE  Stays(w)
<1> DEFINE v == joinRequest[r].user
           g == joinRequest[r].group
           role == GrantMember(v, g)
           p == [NoWrites EXCEPT !.reqSet = {<<r, "APPROVED">>}, !.memIns = {<<v, g>>},
                                 !.roleIns = role]
           es == <<Tell("approved", v, r)>>
           t == [Idle EXCEPT !.actor = u, !.req = r, !.writes = p, !.events = es]
           phase == IF joinRequest[r].task = None THEN "commit" ELSE "flush"
<1>1. Begin(w, phase, t) /\ joinRequest[r].status = "PENDING"
  BY DEF ApproveJoinRequest, ApproveWrites
<1>2. [t EXCEPT !.phase = phase].writes = p /\ [t EXCEPT !.phase = phase].phase = phase
  BY DEF Idle
<1>3. /\ p.reqSet = {<<r, "APPROVED">>} /\ p.roleIns = role
      /\ p.grpNew = {} /\ p.roleDel = {} /\ p.reqNew = {}
  BY DEF NoWrites
<1>4. \A m \in role : m.kind = "MEMBER" /\ userRole[m] = 0
  <2>1. joinRequest[r] \in Request  BY WorkerFits DEF TypeOK
  <2>2. v \in User /\ g \in Group  BY <2>1 DEF Request
  <2>   QED  BY <2>2, WorkerFits, GrantMemberTimely
<1>5. phase # "pickRole"  OBVIOUS
<1> HIDE DEF p, role, t, phase
<1>6. TimelyPlan(p, userRole, joinRequest)
  BY <1>1, <1>3, <1>4 DEF TimelyPlan, PlanRooted, DeletesOwn, GrantsNew, AsksNew,
                          Approvable
<1>   QED  BY <1>1, <1>2, <1>5, <1>6, StageKeeps

LEMMA RejectTimely ==
  ASSUME LedgerInv, Rooted, NEW w \in Worker, NEW r \in 1..Len(joinRequest),
         Begin(w, "commit", [Idle EXCEPT
           !.writes = [NoWrites EXCEPT !.reqSet =
                         {<<r, "REJECTED">>} \ {<<r, joinRequest[r].status>>}],
           !.events = <<Tell("rejected", joinRequest[r].user, r)>>])
  PROVE  Stays(w)
<1> DEFINE set == {<<r, "REJECTED">>} \ {<<r, joinRequest[r].status>>}
           es == <<Tell("rejected", joinRequest[r].user, r)>>
           p == [NoWrites EXCEPT !.reqSet = set]
<1>1. Begin(w, "commit", [Idle EXCEPT !.writes = p, !.events = es])  OBVIOUS
<1>2. \A x \in set : x[2] # "APPROVED"
  <2>1. set \subseteq {<<r, "REJECTED">>}  OBVIOUS
  <2> HIDE DEF set
  <2>   QED  BY <2>1
<1> HIDE DEF set, es
<1>3. Plain(p)  BY <1>2 DEF NoWrites, Plain
<1> HIDE DEF p
<1>   QED  BY <1>1, <1>3, PlainTimely, StageTellingTimely

LEMMA GroupRequestTimely ==
  ASSUME LedgerInv, Rooted, NEW w \in Worker, GroupStep(w)
  PROVE  Stays(w)
<1>1. CASE \E u \in User, g \in Group : \E n \in Name, pol \in Policy :
             CreateMyGroup(w, u, g, n, pol) \/ UpdateMyGroup(w, u, g, n, pol)
  BY <1>1, CreateMyGroupTimely, UpdateMyGroupTimely
<1>2. CASE \E u \in User, g \in Group : DeleteMyGroup(w, u, g)
  BY <1>2, DeleteMyGroupTimely
<1>3. CASE \E u \in User, g \in Group, v \in User : AddMemberToGroup(w, u, g, v)
  BY <1>3, AddMemberToGroupTimely
<1>4. CASE \E u \in User, g \in Group, v \in User : RemoveMemberFromGroup(w, u, g, v)
  BY <1>4, LeaveGroupTimely DEF RemoveMemberFromGroup
<1>5. CASE \E u \in User, g \in Group : ExitGroup(w, u, g)
  BY <1>5, LeaveGroupTimely DEF ExitGroup
<1>6. CASE \E u \in User, g \in Group : JoinGroup(w, u, g)
  BY <1>6, JoinGroupTimely
<1>7. CASE \E u \in User : \E r \in 1..Len(joinRequest) : ApproveJoinRequest(w, u, r)
  BY <1>7, ApproveJoinRequestTimely
<1>8. CASE \E u \in User : \E r \in 1..Len(joinRequest) : RejectJoinRequest(w, u, r)
  BY <1>8, RejectTimely DEF RejectJoinRequest
<1>   QED  BY <1>1, <1>2, <1>3, <1>4, <1>5, <1>6, <1>7, <1>8 DEF GroupStep

LEMMA CreateTaskForGroupTimely ==
  ASSUME LedgerInv, Rooted, NEW w \in Worker, NEW u \in User, NEW g \in Group,
         NEW t \in Task, NEW title \in Title, CreateTaskForGroup(w, u, g, t, title)
  PROVE  Stays(w)
<1> DEFINE new == [id |-> t, group |-> g, title |-> title]
           role == {AssigneeRole(u, g, t)} \cup GrantMember(u, g)
           in == {<<u, g>>} \ membership
           p == [NoWrites EXCEPT !.tskNew = {new}, !.roleIns = role, !.asgIns = {<<u, t>>},
                                 !.memIns = in, !.out = {<<t, "CREATED">>}]
<1>1. Begin(w, "commit", [Idle EXCEPT !.writes = p]) /\ task[t].state = "absent"
  BY DEF CreateTaskForGroup, FreshTask
<1>2. /\ AssigneeRole(u, g, t) \in RoleRow /\ AssigneeRole(u, g, t).kind = "ASSIGNEE"
      /\ AssigneeRole(u, g, t).task = t
  BY DEF AssigneeRole, RoleRow, RoleKind
<1>3. userRole[AssigneeRole(u, g, t)] = 0
  <2>1. userRole[AssigneeRole(u, g, t)] \in Nat  BY <1>2, WorkerFits DEF TypeOK
  <2>2. ~HasRole(AssigneeRole(u, g, t))
    BY <1>1, <1>2 DEF Rooted, AssigneeRolesPlaced
  <2>   QED  BY <2>1, <2>2 DEF HasRole
<1>4. \A r \in role : userRole[r] = 0 /\ (r.kind = "ASSIGNEE" => r.task = t)
                      /\ r.kind # "GROUP_ADMIN"
  BY <1>2, <1>3, WorkerFits, GrantMemberTimely
<1> HIDE DEF role, in
<1>5. /\ p.tskNew = {new} /\ p.roleIns = role /\ p.grpNew = {} /\ p.roleDel = {}
      /\ p.reqNew = {} /\ p.reqSet = {}
  BY DEF NoWrites
<1>6. new.id = t  OBVIOUS
<1> HIDE DEF p, new
<1>7. TimelyPlan(p, userRole, joinRequest)
  BY <1>4, <1>5, <1>6 DEF TimelyPlan, PlanRooted, DeletesOwn, GrantsNew, AsksNew,
                          Approvable
<1>   QED  BY <1>1, <1>7, StageWritesTimely

LEMMA AssignWritesPlain == \A t, v : Plain(AssignWrites(t, v))
  BY DEF AssignWrites, NoWrites, Plain

LEMMA AddUserToTaskTimely ==
  ASSUME LedgerInv, Rooted, NEW w \in Worker, NEW u \in User, NEW t \in Task,
         NEW v \in User, AddUserToTask(w, u, t, v)
  PROVE  Stays(w)
  BY AssignWritesPlain, PlainTimely, StageTellingTimely DEF AddUserToTask

LEMMA UpdateMyTaskTimely ==
  ASSUME LedgerInv, Rooted, NEW w \in Worker, NEW u \in User, NEW t \in Task,
         NEW title \in Title, NEW c \in Status, NEW off \in BOOLEAN,
         UpdateMyTask(w, u, t, title, c, off)
  PROVE  Stays(w)
<1> DEFINE titles == {<<t, title>>} \ {<<t, task[t].title>>}
           statuses == {<<t, c>>} \ {<<t, task[t].status>>}
           offs == IF off THEN {t} ELSE {}
           p == [NoWrites EXCEPT !.tskTitle = titles, !.tskStatus = statuses,
                                 !.tskOff = offs, !.out = {<<t, "UPDATED">>}]
<1>1. Begin(w, "commit", [Idle EXCEPT !.writes = p])  BY DEF UpdateMyTask
<1> HIDE DEF titles, statuses, offs
<1>2. Plain(p)  BY DEF NoWrites, Plain
<1>   QED  BY <1>1, <1>2, PlainTimely, StageWritesTimely

LEMMA DeleteMyTaskTimely ==
  ASSUME LedgerInv, Rooted, NEW w \in Worker, NEW u \in User, NEW t \in Task,
         DeleteMyTask(w, u, t)
  PROVE  Stays(w)
<1> DEFINE p == [NoWrites EXCEPT !.tskOff = {t}, !.out = {<<t, "DELETED">>}]
<1>1. Begin(w, "commit", [Idle EXCEPT !.writes = p])  BY DEF DeleteMyTask
<1>2. Plain(p)  BY DEF NoWrites, Plain
<1>   QED  BY <1>1, <1>2, PlainTimely, StageWritesTimely

LEMMA UpdateStatusTaskTimely ==
  ASSUME LedgerInv, Rooted, NEW w \in Worker, NEW u \in User, NEW t \in Task,
         NEW c \in Status, UpdateStatusTask(w, u, t, c)
  PROVE  Stays(w)
<1> DEFINE p == [NoWrites EXCEPT !.tskStatus = {<<t, c>>}, !.out = {<<t, "UPDATED">>}]
<1>1. Begin(w, "commit", [Idle EXCEPT !.writes = p])  BY DEF UpdateStatusTask
<1>2. Plain(p)  BY DEF NoWrites, Plain
<1>   QED  BY <1>1, <1>2, PlainTimely, StageWritesTimely

LEMMA LeaveTaskTimely ==
  ASSUME LedgerInv, Rooted, NEW w \in Worker, NEW t \in Task, NEW v \in User,
         LeaveTask(w, t, v)
  PROVE  Stays(w)
<1> DEFINE p == [NoWrites EXCEPT !.asgDel = {<<v, t>>}]
<1>1. Begin(w, "remaining", [Idle EXCEPT !.subject = v, !.kind = "ASSIGNEE", !.writes = p])
  BY DEF LeaveTask
<1>2. Plain(p)  BY DEF NoWrites, Plain
<1>   QED  BY <1>1, <1>2, PlainTimely, StageLeavingTimely

LEMMA JoinTaskTimely ==
  ASSUME LedgerInv, Rooted, NEW w \in Worker, NEW u \in User, NEW t \in Task,
         JoinTask(w, u, t)
  PROVE  Stays(w)
<1>1. CASE JoinTaskOpen(w, u, t)
  BY <1>1, AssignWritesPlain, PlainTimely, StageWritesTimely DEF JoinTaskOpen
<1>2. CASE JoinTaskByRequest(w, u, t)
  <2> DEFINE g == task[t].group
             q == [user |-> u, group |-> g, task |-> t, status |-> "PENDING"]
  <2>1. Begin(w, "commit", [Idle EXCEPT !.writes = [NoWrites EXCEPT !.reqNew = {q}],
                                        !.events = <<Tell("created", group[g].admin, 0)>>])
    BY <1>2 DEF JoinTaskByRequest
  <2>2. \A r \in 1..Len(joinRequest) : joinRequest[r].status = "PENDING" =>
          joinRequest[r].user # u \/ joinRequest[r].task # t
    BY DEF JoinTask, PendingRequest
  <2>3. q.user = u /\ q.task = t  OBVIOUS
  <2> HIDE DEF q, g
  <2>   QED  BY <2>1, <2>2, <2>3, AskTimely
<1>   QED  BY <1>1, <1>2 DEF JoinTask

LEMMA ApproveTaskJoinRequestTimely ==
  ASSUME LedgerInv, Rooted, NEW w \in Worker, NEW u \in User,
         NEW r \in 1..Len(joinRequest), ApproveTaskJoinRequest(w, u, r)
  PROVE  Stays(w)
<1> DEFINE v == joinRequest[r].user
           t == joinRequest[r].task
           in == {<<v, task[t].group>>} \ membership
           first == IF in = {} THEN <<>> ELSE <<Tell("group_join", v, 0)>>
           last == <<Tell("approved", v, r)>>
           es == first \o last
           p == [NoWrites EXCEPT !.reqSet = {<<r, "APPROVED">>}, !.memIns = in,
                                 !.asgIns = {<<v, t>>}]
<1>1. /\ Begin(w, "commit", [Idle EXCEPT !.writes = p, !.events = es])
      /\ joinRequest[r].status = "PENDING"
  BY DEF ApproveTaskJoinRequest
<1> HIDE DEF in, es
<1>2. /\ p.reqSet = {<<r, "APPROVED">>} /\ p.grpNew = {} /\ p.roleIns = {}
      /\ p.roleDel = {} /\ p.reqNew = {}
  BY DEF NoWrites
<1> HIDE DEF p
<1>3. TimelyPlan(p, userRole, joinRequest)
  BY <1>1, <1>2 DEF TimelyPlan, PlanRooted, DeletesOwn, GrantsNew, AsksNew,
                    Approvable
<1>   QED  BY <1>1, <1>3, StageTellingTimely

LEMMA FlushApprovalTimely ==
  ASSUME LedgerInv, Rooted, NEW w \in Worker, FlushApproval(w)
  PROVE  Stays(w)
<1>1. CASE Rollback(w)  BY <1>1, RollbackTimely
<1>2. CASE ~Rollback(w)
  <2>1. PICK phase \in {"inner", "outerCommit"} : tx' = [tx EXCEPT ![w].phase = phase]
    BY <1>2 DEF FlushApproval
  <2>2. UNCHANGED tables  BY <1>2 DEF FlushApproval
  <2>   QED  BY <2>1, <2>2, PhaseTimely
<1>   QED  BY <1>1, <1>2

LEMMA InnerCheckTimely ==
  ASSUME LedgerInv, Rooted, NEW w \in Worker, InnerCheck(w)
  PROVE  Stays(w)
<1>1. CASE Rollback(w)  BY <1>1, RollbackTimely
<1>2. CASE tx' = [tx EXCEPT ![w].phase = "innerCommit"] /\ UNCHANGED tables
  BY <1>2, PhaseTimely
<1>   QED  BY <1>1, <1>2 DEF InnerCheck

\* The nested assignment touches no role and no request.
LEMMA InnerCommitTimely ==
  ASSUME LedgerInv, NEW w \in Worker, InnerCommit(w)
  PROVE  Stays(w) \/ \E p \in Writes : Lands(w, p)
<1> DEFINE r == joinRequest[tx[w].req]
           p == AssignWrites(r.task, r.user)
           t == [tx[w] EXCEPT !.phase = "outerCommit"]
<1>1. r.task \in Task /\ r.user \in User
  <2>1. tx[w].req \in 1..Len(joinRequest) /\ r.task # None
    BY DEF LedgerInv, OwnerInv, NestedSound, InnerCommit
  <2>2. r \in Request  BY <2>1 DEF LedgerInv, OwnerInv, TypeOK
  <2>   QED  BY <2>1, <2>2 DEF Request
<1>2. CASE Conflict(p)  BY <1>2, RollbackTimely DEF InnerCommit
<1>3. CASE ~Conflict(p)
  <2>1. Land(p) /\ tx' = [tx EXCEPT ![w].phase = "outerCommit"]
    BY <1>3 DEF InnerCommit
  <2>2. p \in Writes /\ PlanSound(p, group, task, joinRequest)
    BY <1>1, AssignWritesInOrder
  <2>3. PlanKept(p, group, task, joinRequest)  BY AssignWritesKept
  <2>4. Bare(p)  BY DEF AssignWrites, NoWrites, Bare
  <2> HIDE DEF r, p
  <2>5. t.writes = tx[w].writes /\ t.phase = "outerCommit" /\ tx' = [tx EXCEPT ![w] = t]
    BY <2>1, WorkerFits DEF Tx
  <2> HIDE DEF t
  <2>6. t.phase # "pickRole"  BY <2>5
  <2>7. Lands(w, p)  BY <1>3, <2>1, <2>2, <2>3, <2>4, <2>5, <2>6 DEF Lands
  <2>   QED  BY <2>2, <2>7
<1>   QED  BY <1>2, <1>3

LEMMA TaskRequestTimely ==
  ASSUME LedgerInv, Rooted, NEW w \in Worker, TaskStep(w)
  PROVE  Stays(w) \/ \E p \in Writes : Lands(w, p)
<1>1. CASE \E u \in User, t \in Task : \E g \in Group, title \in Title :
             CreateTaskForGroup(w, u, g, t, title)
  BY <1>1, CreateTaskForGroupTimely
<1>2. CASE \E u \in User, t \in Task : \E title \in Title, c \in Status, off \in BOOLEAN :
             UpdateMyTask(w, u, t, title, c, off)
  BY <1>2, UpdateMyTaskTimely
<1>3. CASE \E u \in User, t \in Task : DeleteMyTask(w, u, t)
  BY <1>3, DeleteMyTaskTimely
<1>4. CASE \E u \in User, t \in Task : \E c \in Status : UpdateStatusTask(w, u, t, c)
  BY <1>4, UpdateStatusTaskTimely
<1>5. CASE \E u \in User, t \in Task, v \in User : AddUserToTask(w, u, t, v)
  BY <1>5, AddUserToTaskTimely
<1>6. CASE \E u \in User, t \in Task, v \in User : RemoveUserFromTask(w, u, t, v)
  BY <1>6, LeaveTaskTimely DEF RemoveUserFromTask
<1>7. CASE \E u \in User, t \in Task : ExitTask(w, u, t)
  BY <1>7, LeaveTaskTimely DEF ExitTask
<1>8. CASE \E u \in User, t \in Task : JoinTask(w, u, t)
  BY <1>8, JoinTaskTimely
<1>9. CASE \E u \in User : \E r \in 1..Len(joinRequest) : ApproveTaskJoinRequest(w, u, r)
  BY <1>9, ApproveTaskJoinRequestTimely
<1>10. CASE \E u \in User : \E r \in 1..Len(joinRequest) : RejectTaskJoinRequest(w, u, r)
  BY <1>10, RejectTimely DEF RejectTaskJoinRequest
<1>11. CASE FlushApproval(w) \/ InnerCheck(w) \/ InnerCommit(w)
  BY <1>11, FlushApprovalTimely, InnerCheckTimely, InnerCommitTimely
<1>   QED
  BY <1>1, <1>2, <1>3, <1>4, <1>5, <1>6, <1>7, <1>8, <1>9, <1>10, <1>11 DEF TaskStep

-----------------------------------------------------------------------------
(* Every step is of one of the two kinds *)

LEMMA StepKinds ==
  ASSUME LedgerInv, Rooted, Next
  PROVE  \E w \in Worker : Stays(w) \/ \E p \in Writes : Lands(w, p)
  BY MachineryTimely, GroupRequestTimely, TaskRequestTimely DEF Next

\* After a step that lands nothing the other workers are as they were.
LEMMA StaysAsItWas ==
  ASSUME LedgerInv, NEW w \in Worker, Stays(w), NEW v \in Worker
  PROVE  /\ UNCHANGED <<group, membership, userRole, joinRequest, task, assignee>>
         /\ Keeps(tx[v], tx'[v])
<1>1. PICK t : tx' = [tx EXCEPT ![w] = t] /\ Keeps(tx[w], t)  BY DEF Stays
<1>2. UNCHANGED <<group, membership, userRole, joinRequest, task, assignee>>
  BY DEF Stays, tables
<1>3. CASE v = w  BY <1>1, <1>2, <1>3, WorkerFits
<1>4. CASE v # w
  <2>1. tx'[v] = tx[v]  BY <1>1, <1>4, WorkerFits
  <2>   QED  BY <1>2, <2>1 DEF Keeps
<1>   QED  BY <1>3, <1>4

\* When a plan lands, a plan that stays is another one, or the landed one is bare.
LEMMA LandsBeside ==
  ASSUME LedgerInv, NEW w \in Worker, NEW p \in Writes, Lands(w, p), NEW v \in Worker
  PROVE  \/ Bare(tx'[v].writes) /\ tx'[v].phase # "pickRole"
         \/ Bare(p) /\ tx'[v].writes = tx[v].writes /\ tx'[v].phase # "pickRole"
         \/ Bare(p) /\ tx'[v] = tx[v]
         \/ v # w /\ p = tx[w].writes /\ tx'[v] = tx[v]
<1>1. PICK t : /\ tx' = [tx EXCEPT ![w] = t]
               /\ t.phase # "pickRole"
               /\ \/ p = tx[w].writes /\ Bare(t.writes)
                  \/ Bare(p) /\ t.writes = tx[w].writes
  BY DEF Lands
<1>2. CASE v = w
  <2>1. tx'[v] = t  BY <1>1, <1>2, WorkerFits
  <2>   QED  BY <1>1, <1>2, <2>1
<1>3. CASE v # w
  <2>1. tx'[v] = tx[v]  BY <1>1, <1>3, WorkerFits
  <2>   QED  BY <1>1, <1>3, <2>1
<1>   QED  BY <1>2, <1>3

LEMMA InitRooted == Init => Rooted
<1> SUFFICES ASSUME Init PROVE Rooted  OBVIOUS
<1>1. \A w \in Worker : PlanRooted(tx[w].writes)
  BY NothingTimely DEF Init, Timely, TimelyPlan
<1>2. \A r \in RoleRow : ~HasRole(r)  BY DEF Init, HasRole
<1>   QED  BY <1>1, <1>2 DEF Rooted, AssigneeRolesPlaced

LEMMA StepRooted == LedgerInv /\ Rooted /\ [Next]_vars => Rooted'
<1> SUFFICES ASSUME LedgerInv, Rooted, [Next]_vars PROVE Rooted'  OBVIOUS
<1>1. ASSUME NEW w \in Worker, Stays(w) PROVE Rooted'
  <2>1. \A v \in Worker : PlanRooted(tx'[v].writes)
    BY <1>1, StaysAsItWas DEF Rooted, Keeps
  <2>2. UNCHANGED <<userRole, task>>  BY <1>1 DEF Stays, tables
  <2>   QED  BY <2>1, <2>2 DEF Rooted, AssigneeRolesPlaced, HasRole
<1>2. ASSUME NEW w \in Worker, NEW p \in Writes, Lands(w, p) PROVE Rooted'
  <2>1. PlanRooted(p)
    <3>1. Bare(p) => PlanRooted(p)  BY DEF Bare, PlanRooted
    <3>   QED  BY <1>2, <3>1 DEF Lands, Rooted
  <2>2. AssigneeRolesPlaced'
    BY <1>2, <2>1, WorkerFits, LandAssignees DEF Lands, Rooted
  <2>3. ASSUME NEW v \in Worker PROVE PlanRooted(tx'[v].writes)
    <3>1. Bare(tx'[v].writes) => PlanRooted(tx'[v].writes)  BY DEF Bare, PlanRooted
    <3>   QED  BY <1>2, <3>1, LandsBeside DEF Rooted
  <2>   QED  BY <2>2, <2>3 DEF Rooted
<1>3. CASE UNCHANGED vars
  <2>1. UNCHANGED <<userRole, task, tx>>  BY <1>3 DEF vars, tables
  <2>2. \A v \in Worker : PlanRooted(tx'[v].writes)  BY <2>1, Zenon DEF Rooted
  <2>   QED  BY <2>1, <2>2 DEF Rooted, AssigneeRolesPlaced, HasRole
<1>   QED  BY <1>1, <1>2, <1>3, StepKinds

\* Owners and assignees get their roles with the rows, whatever overlaps.
LEMMA StaysRooted == Spec => []Rooted
  BY InitRooted, StepRooted, LedgerInvariant, PTL DEF Spec

-----------------------------------------------------------------------------
(* Owners *)

OwnersTimely == \A w \in Worker : DeletesOwn(tx[w].writes) /\ LastGone(tx[w], group)
OwnersInv == AdminRoleComplete /\ OwnersTimely

LEMMA InitOwners == Init => OwnersInv
<1> SUFFICES ASSUME Init PROVE OwnersInv  OBVIOUS
<1>1. OwnersTimely  BY NothingTimely DEF Init, OwnersTimely, Timely, TimelyPlan
<1>2. \A g \in Group : group[g].state = "absent"  BY DEF Init, AbsentGroup
<1>   QED  BY <1>1, <1>2 DEF OwnersInv, AdminRoleComplete, ActiveGroup

\* What the clean-up found stays so if nobody founds a group for the owner.
LEMMA LastStaysGone ==
  ASSUME LedgerInv, NEW p \in Writes, Land(p), NEW t, LastGone(t, group),
         t.phase = "pickRole" /\ t.kind = "GROUP_ADMIN" =>
           \A n \in p.grpNew : n.admin # t.subject
  PROVE  LastGone(t, group')
<1> SUFFICES ASSUME t.phase = "pickRole", t.kind = "GROUP_ADMIN",
                    NEW g \in Group \ t.writes.grpOff,
                    group'[g].state = "active", group'[g].admin = t.subject
             PROVE  FALSE
  BY DEF LastGone
<1>1. group'[g] = GroupAfter(g, p)  BY DEF Land
<1>2. CASE \E n \in p.grpNew : n.id = g
  <2>1. PICK n \in p.grpNew : n.id = g /\ group'[g].admin = n.admin
    BY <1>1, <1>2 DEF GroupAfter
  <2>   QED  BY <2>1
<1>3. CASE ~\E n \in p.grpNew : n.id = g
  <2>1. group[g] \in GroupRow  BY DEF LedgerInv, OwnerInv, TypeOK
  <2>2. group[g].state = "active" /\ group[g].admin = group'[g].admin
    BY <1>1, <1>3, <2>1 DEF GroupAfter, GroupRow, AbsentGroup
  <2>   QED  BY <2>2 DEF LastGone
<1>   QED  BY <1>2, <1>3

LEMMA StepOwners ==
  LedgerInv /\ LedgerInv' /\ Rooted /\ FoundingApart /\ OwnersInv /\ [Next]_vars => OwnersInv'
<1> SUFFICES ASSUME LedgerInv, LedgerInv', Rooted, FoundingApart, OwnersInv, [Next]_vars
             PROVE  OwnersInv'
  OBVIOUS
<1>1. ASSUME NEW w \in Worker, Stays(w) PROVE OwnersInv'
  <2>1. UNCHANGED <<group, userRole>>  BY <1>1 DEF Stays, tables
  <2>2. OwnersTimely'
    BY <1>1, <2>1, StaysAsItWas DEF OwnersInv, OwnersTimely, Keeps
  <2>   QED  BY <2>1, <2>2 DEF OwnersInv, AdminRoleComplete, ActiveGroup, HasRole
<1>2. ASSUME NEW w \in Worker, NEW p \in Writes, Lands(w, p) PROVE OwnersInv'
  <2>1. PlanRooted(p) /\ DeletesOwn(p)
    <3>1. Bare(p) => PlanRooted(p) /\ DeletesOwn(p)  BY DEF Bare, PlanRooted, DeletesOwn
    <3>   QED  BY <1>2, <3>1 DEF Lands, Rooted, OwnersInv, OwnersTimely
  <2>2. TypeOK /\ TypeOK'  BY DEF LedgerInv, OwnerInv
  <2>3. AdminRoleComplete'
    BY <1>2, <2>1, <2>2, LandComplete DEF Lands, OwnersInv
  <2>4. ASSUME NEW v \in Worker PROVE DeletesOwn(tx'[v].writes)
    <3>1. Bare(tx'[v].writes) => DeletesOwn(tx'[v].writes)  BY DEF Bare, DeletesOwn
    <3>   QED  BY <1>2, <3>1, LandsBeside DEF OwnersInv, OwnersTimely
  <2>5. ASSUME NEW v \in Worker PROVE LastGone(tx'[v], group')
    <3>1. CASE tx'[v].phase # "pickRole"  BY <3>1 DEF LastGone
    <3>2. CASE tx'[v].phase = "pickRole"
      <4>1. tx'[v] = tx[v] /\ (Bare(p) \/ (v # w /\ p = tx[w].writes))
        BY <1>2, <3>2, LandsBeside
      <4>2. tx[v].phase = "pickRole" /\ tx[v].kind = "GROUP_ADMIN" =>
              \A n \in p.grpNew : n.admin # tx[v].subject
        BY <4>1 DEF FoundingApart, Bare
      <4>3. LastGone(tx[v], group) /\ Land(p)  BY <1>2 DEF OwnersInv, OwnersTimely, Lands
      <4>   QED  BY <4>1, <4>2, <4>3, LastStaysGone
    <3>   QED  BY <3>1, <3>2
  <2>   QED  BY <2>3, <2>4, <2>5 DEF OwnersInv, OwnersTimely
<1>3. CASE UNCHANGED vars
  <2>1. UNCHANGED <<group, userRole, tx>>  BY <1>3 DEF vars, tables
  <2>2. OwnersTimely'  BY <2>1, Zenon DEF OwnersInv, OwnersTimely
  <2>   QED  BY <2>1, <2>2 DEF OwnersInv, AdminRoleComplete, ActiveGroup, HasRole
<1>   QED  BY <1>1, <1>2, <1>3, StepKinds

\* The owner of an active group keeps the role that it can be changed with, for
\* any number of workers and whatever overlaps, unless a clean-up of the owner's
\* roles overlaps with the foundation of a group of theirs.
THEOREM OwnersKeepTheirRole == Spec /\ []FoundingApart => []AdminRoleComplete
<1>1. OwnersInv => AdminRoleComplete  BY DEF OwnersInv
<1>   QED  BY <1>1, InitOwners, StepOwners, StaysRooted, LedgerInvariant, PTL DEF Spec

-----------------------------------------------------------------------------
(* Roles *)

GrantsInv == RolesGrantedOnce /\ \A w \in Worker : GrantsNew(tx[w].writes, userRole)

LEMMA InitGrants == Init => GrantsInv
<1> SUFFICES ASSUME Init PROVE GrantsInv  OBVIOUS
<1>1. \A w \in Worker : GrantsNew(tx[w].writes, userRole)
  BY NothingTimely DEF Init, Timely, TimelyPlan
<1>2. \A r \in RoleRow : userRole[r] = 0  BY DEF Init
<1>   QED  BY <1>1, <1>2 DEF GrantsInv, RolesGrantedOnce

\* What a plan inserts is still missing when another one lands that does not
\* insert it.
LEMMA LandGrants ==
  ASSUME TypeOK, NEW p \in Writes, Land(p), NEW q \in Writes, GrantsNew(q, userRole),
         p.roleIns \cap q.roleIns = {}
  PROVE  GrantsNew(q, userRole')
<1> SUFFICES ASSUME NEW r \in q.roleIns PROVE userRole'[r] = 0
  BY DEF GrantsNew
<1>1. r \in RoleRow /\ r \notin p.roleIns /\ userRole[r] = 0
  BY DEF Writes, GrantsNew
<1>2. userRole'[r] = RoleAfter(r, p)  BY <1>1, LandRoleCounts
<1>   QED  BY <1>1, <1>2 DEF RoleAfter

LEMMA StepGrants ==
  LedgerInv /\ LedgerInv' /\ Rooted /\ GrantsApart /\ GrantsInv /\ [Next]_vars => GrantsInv'
<1> SUFFICES ASSUME LedgerInv, LedgerInv', Rooted, GrantsApart, GrantsInv, [Next]_vars
             PROVE  GrantsInv'
  OBVIOUS
<1>1. ASSUME NEW w \in Worker, Stays(w) PROVE GrantsInv'
  <2>1. UNCHANGED userRole  BY <1>1 DEF Stays, tables
  <2>2. \A v \in Worker : GrantsNew(tx'[v].writes, userRole')
    BY <1>1, <2>1, StaysAsItWas DEF GrantsInv, Keeps
  <2>   QED  BY <2>1, <2>2 DEF GrantsInv, RolesGrantedOnce
<1>2. ASSUME NEW w \in Worker, NEW p \in Writes, Lands(w, p) PROVE GrantsInv'
  <2>1. GrantsNew(p, userRole)
    <3>1. Bare(p) => GrantsNew(p, userRole)  BY DEF Bare, GrantsNew
    <3>   QED  BY <1>2, <3>1 DEF Lands, GrantsInv
  <2>2. TypeOK /\ Land(p)  BY <1>2 DEF LedgerInv, OwnerInv, Lands
  <2>3. RolesGrantedOnce'  BY <2>1, <2>2, LandOnce DEF GrantsInv
  <2>4. ASSUME NEW v \in Worker PROVE GrantsNew(tx'[v].writes, userRole')
    <3>1. CASE Bare(tx'[v].writes)  BY <3>1 DEF Bare, GrantsNew
    <3>2. CASE ~Bare(tx'[v].writes)
      <4>1. /\ tx'[v].writes = tx[v].writes
            /\ Bare(p) \/ (v # w /\ p = tx[w].writes)
        BY <1>2, <3>2, LandsBeside
      <4>2. p.roleIns \cap tx[v].writes.roleIns = {}  BY <4>1 DEF Bare, GrantsApart
      <4>3. GrantsNew(tx[v].writes, userRole) /\ tx[v].writes \in Writes
        BY WorkerFits DEF GrantsInv
      <4>   QED  BY <2>2, <4>1, <4>2, <4>3, LandGrants
    <3>   QED  BY <3>1, <3>2
  <2>   QED  BY <2>3, <2>4 DEF GrantsInv
<1>3. CASE UNCHANGED vars
  <2>1. UNCHANGED <<userRole, tx>>  BY <1>3 DEF vars, tables
  <2>2. \A v \in Worker : GrantsNew(tx'[v].writes, userRole')  BY <2>1, Zenon DEF GrantsInv
  <2>   QED  BY <2>1, <2>2 DEF GrantsInv, RolesGrantedOnce
<1>   QED  BY <1>1, <1>2, <1>3, StepKinds

\* "Grant if not exists" grants no role twice, for any number of workers and
\* whatever overlaps, unless two requests are about to grant the same role.
THEOREM GrantedOnce == Spec /\ []GrantsApart => []RolesGrantedOnce
<1>1. GrantsInv => RolesGrantedOnce  BY DEF GrantsInv
<1>   QED  BY <1>1, InitGrants, StepGrants, StaysRooted, LedgerInvariant, PTL DEF Spec

-----------------------------------------------------------------------------
(* Requests to join *)

AsksInv == OnePendingRequest /\ \A w \in Worker : AsksNew(tx[w].writes, joinRequest)

LEMMA InitAsks == Init => AsksInv
<1> SUFFICES ASSUME Init PROVE AsksInv  OBVIOUS
<1>1. \A w \in Worker : AsksNew(tx[w].writes, joinRequest)
  BY NothingTimely DEF Init, Timely, TimelyPlan
<1>2. Len(joinRequest) = 0  BY DEF Init
<1>   QED  BY <1>1, <1>2 DEF AsksInv, OnePendingRequest

\* A request still is the only one of its kind after another one was opened.
LEMMA LandAsks ==
  ASSUME TypeOK, NEW p \in Writes, Land(p), PlanKept(p, group, task, joinRequest),
         NEW q \in Writes, AsksNew(q, joinRequest),
         \A a \in p.reqNew, b \in q.reqNew :
           ~(a.user = b.user /\ a.group = b.group /\ a.task = None /\ b.task = None)
  PROVE  AsksNew(q, joinRequest')
<1> DEFINE n == Len(joinRequest)
<1> SUFFICES ASSUME NEW b \in q.reqNew, NEW r \in 1..Len(joinRequest'),
                    joinRequest'[r].status = "PENDING", b.task = None
             PROVE  \/ joinRequest'[r].user # b.user \/ joinRequest'[r].group # b.group
                    \/ joinRequest'[r].task # b.task
  BY DEF AsksNew
<1>1. n \in Nat /\ LedgerPlan(p, group, task, joinRequest)  BY DEF TypeOK, PlanKept
<1>2. CASE r \in 1..n
  <2>1. joinRequest[r].status = "PENDING"  BY <1>1, <1>2, StillPending
  <2>2. \/ joinRequest[r].user # b.user \/ joinRequest[r].group # b.group
        \/ joinRequest[r].task # b.task
    BY <1>2, <2>1 DEF AsksNew
  <2>   QED  BY <1>2, <2>2, RequestKeeps
<1>3. CASE r \notin 1..n
  <2>1. p.reqNew # {}
    <3>1. p.reqNew = {} => Len(joinRequest') = n  BY RequestsGrow
    <3>   QED  BY <1>3, <3>1
  <2>2. Asks(p, group, task)
    BY <1>1, <2>1 DEF LedgerPlan, Founds, Closes, Enters, Leaves, Decides
  <2>3. PICK a \in Request : p.reqNew = {a}  BY <2>2 DEF Asks
  <2>4. Len(joinRequest') = n + 1 /\ joinRequest'[n + 1] = a  BY <2>3, RequestsGrow
  <2>5. r = n + 1  BY <1>1, <1>3, <2>4
  <2>   QED  BY <2>3, <2>4, <2>5
<1>   QED  BY <1>2, <1>3

LEMMA StepAsks ==
  LedgerInv /\ LedgerInv' /\ Rooted /\ AsksApart /\ AsksInv /\ [Next]_vars => AsksInv'
<1> SUFFICES ASSUME LedgerInv, LedgerInv', Rooted, AsksApart, AsksInv, [Next]_vars
             PROVE  AsksInv'
  OBVIOUS
<1>1. ASSUME NEW w \in Worker, Stays(w) PROVE AsksInv'
  <2>1. UNCHANGED joinRequest  BY <1>1 DEF Stays, tables
  <2>2. \A v \in Worker : AsksNew(tx'[v].writes, joinRequest')
    BY <1>1, <2>1, StaysAsItWas DEF AsksInv, Keeps
  <2>   QED  BY <2>1, <2>2 DEF AsksInv, OnePendingRequest
<1>2. ASSUME NEW w \in Worker, NEW p \in Writes, Lands(w, p) PROVE AsksInv'
  <2>1. AsksNew(p, joinRequest)
    <3>1. Bare(p) => AsksNew(p, joinRequest)  BY DEF Bare, AsksNew
    <3>   QED  BY <1>2, <3>1 DEF Lands, AsksInv
  <2>2. /\ TypeOK /\ Land(p) /\ ~Conflict(p)
        /\ PlanKept(p, group, task, joinRequest)
    BY <1>2 DEF LedgerInv, OwnerInv, Lands
  <2>3. OnePendingRequest'  BY <2>1, <2>2, LandPending DEF AsksInv
  <2>4. ASSUME NEW v \in Worker PROVE AsksNew(tx'[v].writes, joinRequest')
    <3>1. CASE Bare(tx'[v].writes)  BY <3>1 DEF Bare, AsksNew
    <3>2. CASE ~Bare(tx'[v].writes)
      <4>1. /\ tx'[v].writes = tx[v].writes
            /\ Bare(p) \/ (v # w /\ p = tx[w].writes)
        BY <1>2, <3>2, LandsBeside
      <4>2. \A a \in p.reqNew, b \in tx[v].writes.reqNew :
              ~(a.user = b.user /\ a.group = b.group /\ a.task = None /\ b.task = None)
        BY <4>1 DEF Bare, AsksApart
      <4>3. AsksNew(tx[v].writes, joinRequest) /\ tx[v].writes \in Writes
        BY WorkerFits DEF AsksInv
      <4>   QED  BY <2>2, <4>1, <4>2, <4>3, LandAsks
    <3>   QED  BY <3>1, <3>2
  <2>   QED  BY <2>3, <2>4 DEF AsksInv
<1>3. CASE UNCHANGED vars
  <2>1. UNCHANGED <<joinRequest, tx>>  BY <1>3 DEF vars, tables
  <2>2. \A v \in Worker : AsksNew(tx'[v].writes, joinRequest')  BY <2>1, Zenon DEF AsksInv
  <2>   QED  BY <2>1, <2>2 DEF AsksInv, OnePendingRequest
<1>   QED  BY <1>1, <1>2, <1>3, StepKinds

\* Nobody has two undecided requests for the same, for any number of workers and
\* whatever overlaps, unless they ask twice at once to join the same group.
THEOREM AsksOnce == Spec /\ []AsksApart => []OnePendingRequest
<1>1. AsksInv => OnePendingRequest  BY DEF AsksInv
<1>   QED  BY <1>1, InitAsks, StepAsks, StaysRooted, LedgerInvariant, PTL DEF Spec

-----------------------------------------------------------------------------
(* Decisions *)

DecisionsTimely == \A w \in Worker : Approvable(tx[w].writes, joinRequest)

LEMMA InitDecisions == Init => DecisionsTimely
  BY NothingTimely DEF Init, DecisionsTimely, Timely, TimelyPlan

\* A request that is about to be approved was not rejected by the plan that landed.
LEMMA LandDecisions ==
  ASSUME TypeOK, NEW p \in Writes, Land(p), PlanKept(p, group, task, joinRequest),
         NEW q, Approvable(q, joinRequest), \A y \in q.reqSet : y[1] \in 1..Len(joinRequest),
         \A x \in p.reqSet, y \in q.reqSet :
           x[1] = y[1] => ~(y[2] = "APPROVED" /\ x[2] = "REJECTED")
  PROVE  Approvable(q, joinRequest')
<1> SUFFICES ASSUME NEW y \in q.reqSet, y[2] = "APPROVED"
             PROVE  joinRequest'[y[1]].status # "REJECTED"
  BY DEF Approvable
<1> DEFINE r == y[1]
<1>1. r \in 1..Len(joinRequest) /\ joinRequest[r].status # "REJECTED"  BY DEF Approvable
<1>2. joinRequest'[r].status = Updated(p.reqSet, r, joinRequest[r].status)
  BY <1>1, RequestKeeps
<1>3. \A x \in p.reqSet : x[1] = r => x[2] # "REJECTED"  OBVIOUS
<1> HIDE DEF r
<1>4. joinRequest'[r].status # "REJECTED"
  <2>1. CASE \E x \in p.reqSet : x[1] = r
    <3>1. \E x \in p.reqSet : x[1] = r /\ joinRequest'[r].status = x[2]
      BY <1>2, <2>1 DEF Updated
    <3>   QED  BY <1>3, <3>1
  <2>2. CASE ~\E x \in p.reqSet : x[1] = r  BY <1>1, <1>2, <2>2 DEF Updated
  <2>   QED  BY <2>1, <2>2
<1>   QED  BY <1>4 DEF r

LEMMA StepDecisions ==
  LedgerInv /\ Rooted /\ DecisionsApart /\ DecisionsTimely /\ [Next]_vars => DecisionsTimely'
<1> SUFFICES ASSUME LedgerInv, Rooted, DecisionsApart, DecisionsTimely, [Next]_vars
             PROVE  DecisionsTimely'
  OBVIOUS
<1>1. ASSUME NEW w \in Worker, Stays(w) PROVE DecisionsTimely'
  <2>1. UNCHANGED joinRequest  BY <1>1 DEF Stays, tables
  <2>   QED  BY <1>1, <2>1, StaysAsItWas DEF DecisionsTimely, Keeps
<1>2. ASSUME NEW w \in Worker, NEW p \in Writes, Lands(w, p) PROVE DecisionsTimely'
  <2>1. TypeOK /\ Land(p) /\ PlanKept(p, group, task, joinRequest)
    BY <1>2 DEF LedgerInv, OwnerInv, Lands
  <2>2. ASSUME NEW v \in Worker PROVE Approvable(tx'[v].writes, joinRequest')
    <3>1. CASE Bare(tx'[v].writes)  BY <3>1 DEF Bare, Approvable
    <3>2. CASE ~Bare(tx'[v].writes)
      <4>1. /\ tx'[v].writes = tx[v].writes
            /\ Bare(p) \/ (v # w /\ p = tx[w].writes)
        BY <1>2, <3>2, LandsBeside
      <4>2. \A x \in p.reqSet, y \in tx[v].writes.reqSet :
              x[1] = y[1] => ~(y[2] = "APPROVED" /\ x[2] = "REJECTED")
        BY <4>1 DEF Bare, DecisionsApart
      <4>3. Approvable(tx[v].writes, joinRequest)  BY DEF DecisionsTimely
      <4>4. \A y \in tx[v].writes.reqSet : y[1] \in 1..Len(joinRequest)
        BY WorkerFits DEF PlanSound
      <4>   QED  BY <2>1, <4>1, <4>2, <4>3, <4>4, LandDecisions
    <3>   QED  BY <3>1, <3>2
  <2>   QED  BY <2>2 DEF DecisionsTimely
<1>3. CASE UNCHANGED vars
  <2>1. UNCHANGED <<joinRequest, tx>>  BY <1>3 DEF vars, tables
  <2>   QED  BY <2>1, Zenon DEF DecisionsTimely
<1>   QED  BY <1>1, <1>2, <1>3, StepKinds

\* What was rejected stays rejected, for any number of workers and whatever
\* overlaps, unless a request is approved and rejected at the same time.
THEOREM RejectedForGood == Spec /\ []DecisionsApart => RejectedIsFinal
<1> DEFINE A == \A r \in 1..Len(joinRequest) :
                  joinRequest[r].status = "REJECTED" => joinRequest'[r].status = "REJECTED"
<1>1. LedgerInv /\ Rooted /\ DecisionsTimely /\ [Next]_vars => [A]_vars
  <2> SUFFICES ASSUME LedgerInv, Rooted, DecisionsTimely, Next PROVE A  OBVIOUS
  <2>1. ASSUME NEW w \in Worker, Stays(w) PROVE A  BY <2>1 DEF Stays, tables
  <2>2. ASSUME NEW w \in Worker, NEW p \in Writes, Lands(w, p) PROVE A
    <3>1. Approvable(p, joinRequest)
      <4>1. Bare(p) => Approvable(p, joinRequest)  BY DEF Bare, Approvable
      <4>   QED  BY <2>2, <4>1 DEF Lands, DecisionsTimely
    <3>2. TypeOK /\ Land(p) /\ PlanKept(p, group, task, joinRequest)
      BY <2>2 DEF LedgerInv, OwnerInv, Lands
    <3>   QED  BY <3>1, <3>2, LandRejected
  <2>   QED  BY <2>1, <2>2, StepKinds
<1> HIDE DEF A
<1>2. Spec /\ []DecisionsApart => [][A]_vars
  BY <1>1, InitDecisions, StepDecisions, StaysRooted, LedgerInvariant, PTL DEF Spec
<1>   QED  BY <1>2 DEF A, RejectedIsFinal

-----------------------------------------------------------------------------
(* One worker *)

LEMMA OneApart ==
  ASSUME \A v, w \in Worker : v = w
  PROVE  FoundingApart /\ GrantsApart /\ AsksApart /\ DecisionsApart
  BY DEF FoundingApart, GrantsApart, AsksApart, DecisionsApart

\* Requests that are served one after the other keep all four.
THEOREM OneAfterTheOther ==
  ASSUME \A v, w \in Worker : v = w
  PROVE  Spec => /\ []AdminRoleComplete /\ []RolesGrantedOnce /\ []OnePendingRequest
                 /\ RejectedIsFinal
<1>1. [](FoundingApart /\ GrantsApart /\ AsksApart /\ DecisionsApart)
  BY OneApart, PTL
<1>   QED
  BY <1>1, OwnersKeepTheirRole, GrantedOnce, AsksOnce, RejectedForGood, PTL
=============================================================================
