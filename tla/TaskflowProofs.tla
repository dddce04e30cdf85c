--------------------------- MODULE TaskflowProofs ---------------------------
(***************************************************************************)
(* TypeOK and AdminRoleSound for any number of workers, users, groups and  *)
(* tasks: OwnerInv is inductive.                                           *)
(***************************************************************************)
EXTENDS Taskflow, TLAPS

-----------------------------------------------------------------------------
(* What a commit does to the rows *)

\* A column keeps its type when the staged values have it.
LEMMA UpdatedType ==
  ASSUME NEW K, NEW V, NEW old \in V, NEW k, NEW pairs \in SUBSET (K \X V)
  PROVE  Updated(pairs, k, old) \in V
<1>1. CASE \E x \in pairs : x[1] = k
  <2>1. (CHOOSE x \in pairs : x[1] = k) \in K \X V  BY <1>1
  <2>   QED  BY <1>1, <2>1 DEF Updated
<1>2. CASE ~\E x \in pairs : x[1] = k  BY <1>2 DEF Updated
<1>   QED  BY <1>1, <1>2

\* A column nobody staged a value for keeps its value.
LEMMA UpdatedUntouched ==
  ASSUME NEW pairs, NEW k, NEW old, ~\E x \in pairs : x[1] = k
  PROVE  Updated(pairs, k, old) = old
  BY DEF Updated

\* A group row keeps its type; it is never taken back, its owner never changes,
\* and it is created and closed only by the staged writes that say so.
LEMMA GroupAfterRow ==
  ASSUME TypeOK, NEW p \in Writes, PlanSound(p, group, task, joinRequest), NEW g \in Group
  PROVE  /\ GroupAfter(g, p) \in GroupRow
         /\ group[g].state # "absent" =>
              /\ GroupAfter(g, p).state = IF g \in p.grpOff THEN "inactive" ELSE group[g].state
              /\ GroupAfter(g, p).admin = group[g].admin
         /\ ~(\E n \in p.grpNew : n.id = g) /\ group[g].state = "absent" =>
              GroupAfter(g, p).state = "absent"
         /\ \A n \in p.grpNew : n.id = g =>
              GroupAfter(g, p).state = "active" /\ GroupAfter(g, p).admin = n.admin
<1>0. /\ group[g] \in GroupRow
      /\ group[g] = [state |-> group[g].state, admin |-> group[g].admin,
                     policy |-> group[g].policy, name |-> group[g].name]
  BY DEF TypeOK, GroupRow, AbsentGroup
<1>1. CASE \E n \in p.grpNew : n.id = g
  <2>1. PICK n \in p.grpNew : n.id = g  BY <1>1
  <2>2. (CHOOSE m \in p.grpNew : m.id = g) = n  BY <2>1 DEF PlanSound
  <2>3. GroupAfter(g, p) = [state |-> "active", admin |-> n.admin,
                            policy |-> n.policy, name |-> n.name]
    BY <1>1, <2>2 DEF GroupAfter
  <2>4. n \in [id : Group, admin : User, policy : Policy, name : Name]
    BY <2>1 DEF Writes
  <2>5. n.admin \in User /\ n.policy \in {"OPEN", "REQUEST"} /\ n.name \in Name
    BY <2>4, ConstantsAreDistinct
  <2>6. GroupAfter(g, p) \in GroupRow  BY <2>3, <2>5 DEF GroupRow
  <2>7. group[g].state = "absent"  BY <2>1 DEF PlanSound
  <2>8. \A m \in p.grpNew : m.id = g => m = n  BY <2>1 DEF PlanSound
  <2>   QED  BY <1>1, <2>1, <2>3, <2>6, <2>7, <2>8
<1>2. CASE ~\E n \in p.grpNew : n.id = g
  <2> DEFINE s == IF g \in p.grpOff THEN "inactive" ELSE group[g].state
             c == Updated(p.grpPolicy, g, group[g].policy)
             m == Updated(p.grpName, g, group[g].name)
  <2>1. GroupAfter(g, p) = [state |-> s, admin |-> group[g].admin, policy |-> c, name |-> m]
    <3>1. GroupAfter(g, p) = [group[g] EXCEPT !.state = s, !.policy = c, !.name = m]
      BY <1>0, <1>2 DEF GroupAfter
    <3> HIDE DEF s, c, m
    <3>   QED  BY <1>0, <3>1
  <2>2. CASE group[g] = AbsentGroup
    <3>1. /\ g \notin p.grpOff
          /\ ~\E x \in p.grpPolicy : x[1] = g
          /\ ~\E x \in p.grpName : x[1] = g
      BY <2>2 DEF PlanSound, AbsentGroup
    <3>2. s = group[g].state /\ c = group[g].policy /\ m = group[g].name
      BY <3>1, UpdatedUntouched
    <3>3. GroupAfter(g, p) = group[g]  BY <1>0, <2>1, <3>2
    <3>   QED  BY <3>3, <1>0, <1>2, <2>2, <3>1 DEF AbsentGroup
  <2>3. CASE group[g] # AbsentGroup
    <3>1. /\ group[g].state \in {"active", "inactive"}
          /\ group[g].admin \in User
          /\ group[g].policy \in {"OPEN", "REQUEST"}
          /\ group[g].name \in Name
      BY <1>0, <2>3 DEF GroupRow
    <3>2. c \in {"OPEN", "REQUEST"}
      <4>1. p.grpPolicy \in SUBSET (Group \X {"OPEN", "REQUEST"})
        BY ConstantsAreDistinct, ZenonT(60) DEF Writes
      <4>   QED  BY <3>1, <4>1, UpdatedType
    <3>3. m \in Name
      <4>1. p.grpName \in SUBSET (Group \X Name)  BY DEF Writes
      <4>   QED  BY <3>1, <4>1, UpdatedType
    <3> HIDE DEF c, m
    <3>4. GroupAfter(g, p) \in GroupRow  BY <2>1, <3>1, <3>2, <3>3 DEF GroupRow
    <3>   QED  BY <1>2, <2>1, <3>1, <3>4
  <2>   QED  BY <2>2, <2>3
<1>   QED  BY <1>1, <1>2

\* A task row keeps its type, and a task that exists is never taken back.
LEMMA TaskAfterRow ==
  ASSUME TypeOK, NEW p \in Writes, PlanSound(p, group, task, joinRequest), NEW t \in Task
  PROVE  /\ TaskAfter(t, p) \in TaskRow
         /\ task[t].state # "absent" => TaskAfter(t, p).state # "absent"
<1>0. /\ task[t] \in TaskRow
      /\ task[t] = [state |-> task[t].state, group |-> task[t].group,
                    title |-> task[t].title, status |-> task[t].status]
  BY DEF TypeOK, TaskRow, AbsentTask
<1>1. CASE \E n \in p.tskNew : n.id = t
  <2> DEFINE n == CHOOSE m \in p.tskNew : m.id = t
  <2>1. n \in p.tskNew  BY <1>1
  <2>2. TaskAfter(t, p) = [state |-> "active", group |-> n.group,
                           title |-> n.title, status |-> InitStatus]
    BY <1>1 DEF TaskAfter
  <2> HIDE DEF n
  <2>3. n \in [id : Task, group : Group, title : Title]  BY <2>1 DEF Writes
  <2>4. n.group \in Group /\ n.title \in Title /\ InitStatus \in Status
    BY <2>3, ConstantsAreDistinct
  <2>   QED  BY <2>2, <2>4 DEF TaskRow
<1>2. CASE ~\E n \in p.tskNew : n.id = t
  <2> DEFINE s == IF t \in p.tskOff THEN "inactive" ELSE task[t].state
             m == Updated(p.tskTitle, t, task[t].title)
             c == Updated(p.tskStatus, t, task[t].status)
  <2>1. TaskAfter(t, p) = [state |-> s, group |-> task[t].group, title |-> m, status |-> c]
    <3>1. TaskAfter(t, p) = [task[t] EXCEPT !.state = s, !.title = m, !.status = c]
      BY <1>0, <1>2 DEF TaskAfter
    <3> HIDE DEF s, c, m
    <3>   QED  BY <1>0, <3>1
  <2>2. CASE task[t] = AbsentTask
    <3>1. /\ t \notin p.tskOff
          /\ ~\E x \in p.tskTitle : x[1] = t
          /\ ~\E x \in p.tskStatus : x[1] = t
      BY <2>2 DEF PlanSound, AbsentTask
    <3>2. s = task[t].state /\ c = task[t].status /\ m = task[t].title
      BY <3>1, UpdatedUntouched
    <3>3. TaskAfter(t, p) = task[t]  BY <1>0, <2>1, <3>2
    <3>   QED  BY <3>3, <1>0
  <2>3. CASE task[t] # AbsentTask
    <3>1. /\ task[t].state \in {"active", "inactive"}
          /\ task[t].group \in Group
          /\ task[t].title \in Title
          /\ task[t].status \in Status
      BY <1>0, <2>3 DEF TaskRow
    <3>2. c \in Status
      <4>1. p.tskStatus \in SUBSET (Task \X Status)  BY DEF Writes
      <4>   QED  BY <3>1, <4>1, UpdatedType
    <3>3. m \in Title
      <4>1. p.tskTitle \in SUBSET (Task \X Title)  BY DEF Writes
      <4>   QED  BY <3>1, <4>1, UpdatedType
    <3> HIDE DEF c, m
    <3>   QED  BY <2>1, <3>1, <3>2, <3>3 DEF TaskRow
  <2>   QED  BY <2>2, <2>3
<1>   QED  BY <1>1, <1>2

\* The table of join requests keeps its type, only grows, and a request keeps
\* its task.
LEMMA RequestsAfterRows ==
  ASSUME TypeOK, NEW p \in Writes
  PROVE  /\ RequestsAfter(p) \in Seq(Request)
         /\ Len(RequestsAfter(p)) >= Len(joinRequest)
         /\ \A r \in 1..Len(joinRequest) : RequestsAfter(p)[r].task = joinRequest[r].task
<1> DEFINE decided == [r \in 1..Len(joinRequest) |->
                         [joinRequest[r] EXCEPT !.status = Updated(p.reqSet, r, @)]]
<1>1. joinRequest \in Seq(Request) /\ Len(joinRequest) \in Nat  BY DEF TypeOK
<1>2. \A r \in 1..Len(joinRequest) :
        decided[r] \in Request /\ decided[r].task = joinRequest[r].task
  <2> SUFFICES ASSUME NEW r \in 1..Len(joinRequest)
               PROVE  decided[r] \in Request /\ decided[r].task = joinRequest[r].task
      OBVIOUS
  <2>1. joinRequest[r] \in Request  BY <1>1
  <2>2. Updated(p.reqSet, r, joinRequest[r].status) \in Decision
    <3>1. p.reqSet \in SUBSET (Nat \X Decision)  BY DEF Writes
    <3>2. joinRequest[r].status \in Decision  BY <2>1 DEF Request
    <3>   QED  BY <3>1, <3>2, UpdatedType
  <2>3. decided[r] = [joinRequest[r] EXCEPT !.status = Updated(p.reqSet, r, @)]
    OBVIOUS
  <2> HIDE DEF decided
  <2>   QED  BY <2>1, <2>2, <2>3 DEF Request
<1>3. decided \in Seq(Request) /\ Len(decided) = Len(joinRequest)
  BY <1>1, <1>2
<1>4. CASE p.reqNew = {}
  <2>1. RequestsAfter(p) = decided  BY <1>4 DEF RequestsAfter
  <2> HIDE DEF decided
  <2>   QED  BY <1>1, <1>2, <1>3, <2>1
<1>5. CASE p.reqNew # {}
  <2> DEFINE q == CHOOSE q \in p.reqNew : TRUE
  <2>1. q \in Request  BY <1>5 DEF Writes
  <2>2. RequestsAfter(p) = Append(decided, q)  BY <1>5 DEF RequestsAfter
  <2> HIDE DEF decided, q
  <2>   QED  BY <1>1, <1>2, <1>3, <2>1, <2>2
<1>   QED  BY <1>4, <1>5

-----------------------------------------------------------------------------
(* A sound plan lands *)

\* Every table keeps its type.
LEMMA LandTypes ==
  ASSUME TypeOK, NEW p \in Writes, PlanSound(p, group, task, joinRequest), Land(p)
  PROVE  /\ group' \in [Group -> GroupRow]
         /\ membership' \subseteq User \X Group
         /\ userRole' \in [RoleRow -> Nat]
         /\ joinRequest' \in Seq(Request)
         /\ task' \in [Task -> TaskRow]
         /\ assignee' \subseteq User \X Task
         /\ outbox' \in [Group \cup Task -> SUBSET EventType]
<1>1. group' \in [Group -> GroupRow]  BY GroupAfterRow DEF Land
<1>2. membership' \subseteq User \X Group  BY DEF Land, TypeOK, Writes
<1>3. userRole' \in [RoleRow -> Nat]
  <2>1. \A r \in RoleRow : RoleAfter(r, p) \in Nat  BY DEF RoleAfter, TypeOK
  <2>   QED  BY <2>1 DEF Land
<1>4. joinRequest' \in Seq(Request)  BY RequestsAfterRows DEF Land
<1>5. task' \in [Task -> TaskRow]  BY TaskAfterRow DEF Land
<1>6. assignee' \subseteq User \X Task  BY DEF Land, TypeOK, Writes
<1>7. outbox' \in [Group \cup Task -> SUBSET EventType]
  <2>1. \A e \in Group \cup Task :
          outbox[e] \cup {k \in EventType : <<e, k>> \in p.out} \in SUBSET EventType
    BY DEF TypeOK
  <2>   QED  BY <2>1 DEF Land
<1>   QED  BY <1>1, <1>2, <1>3, <1>4, <1>5, <1>6, <1>7

\* Owners' roles stay sound.
LEMMA LandRoles ==
  ASSUME TypeOK, AdminRoleSound,
         NEW p \in Writes, PlanSound(p, group, task, joinRequest), Land(p)
  PROVE  AdminRoleSound'
<1> SUFFICES ASSUME NEW r \in RoleRow, r.kind = "GROUP_ADMIN", userRole'[r] > 0
             PROVE  /\ r = AdminRole(r.user, r.group)
                    /\ group'[r.group].state = "active" /\ group'[r.group].admin = r.user
                    /\ userRole'[r] = 1
  BY DEF AdminRoleSound, HasRole, MyGroup, ActiveGroup
<1>1. r.group \in Group /\ userRole[r] \in Nat  BY DEF RoleRow, TypeOK
<1>2. userRole'[r] = RoleAfter(r, p) /\ group'[r.group] = GroupAfter(r.group, p)
  BY <1>1 DEF Land
<1>3. userRole[r] > 0 =>
        /\ r = AdminRole(r.user, r.group)
        /\ group[r.group].state = "active" /\ group[r.group].admin = r.user
        /\ userRole[r] = 1
  BY DEF AdminRoleSound, HasRole, MyGroup, ActiveGroup
<1>4. CASE r \in p.roleIns
  <2>1. PICK n \in p.grpNew : n.id = r.group /\ n.admin = r.user
    BY <1>4 DEF PlanSound
  <2>2. r = AdminRole(r.user, r.group)  BY <1>4 DEF PlanSound
  <2>3. group[r.group].state = "absent"  BY <2>1 DEF PlanSound
  <2>4. userRole[r] = 0  BY <1>1, <1>3, <2>3
  <2>5. RoleAfter(r, p) = 1  BY <1>4, <2>4 DEF RoleAfter
  <2>6. GroupAfter(r.group, p).state = "active" /\ GroupAfter(r.group, p).admin = r.user
    BY <1>1, <2>1, GroupAfterRow
  <2>   QED  BY <1>2, <2>2, <2>5, <2>6
<1>5. CASE r \notin p.roleIns
  <2>1. userRole[r] > 0 /\ RoleAfter(r, p) = userRole[r] /\ r \notin p.roleDel
    BY <1>1, <1>2, <1>3, <1>5 DEF RoleAfter
  <2>2. r.group \notin p.grpOff  BY <1>3, <2>1 DEF PlanSound
  <2>3. /\ GroupAfter(r.group, p).state = "active"
        /\ GroupAfter(r.group, p).admin = r.user
    BY <1>1, <1>3, <2>1, <2>2, GroupAfterRow
  <2>   QED  BY <1>2, <1>3, <2>1, <2>3
<1>   QED  BY <1>4, <1>5

\* What another worker has staged stays sound, if the two share no group id.
LEMMA LandPlans ==
  ASSUME TypeOK, NEW p \in Writes, PlanSound(p, group, task, joinRequest), Land(p),
         NEW q \in Writes, PlanSound(q, group, task, joinRequest),
         \A m \in p.grpNew, n \in q.grpNew : m.id # n.id
  PROVE  PlanSound(q, group', task', joinRequest')
<1>1. \A g \in Group : group[g].state # "absent" =>
        group'[g].state # "absent" /\ group'[g].admin = group[g].admin
  <2>1. \A g \in Group : group'[g] = GroupAfter(g, p)  BY DEF Land
  <2>   QED  BY <2>1, GroupAfterRow
<1>2. \A t \in Task : task[t].state # "absent" => task'[t].state # "absent"
  BY TaskAfterRow DEF Land
<1>3. \A r \in Nat : r \in 1..Len(joinRequest) => r \in 1..Len(joinRequest')
  <2>1. Len(joinRequest) \in Nat /\ Len(joinRequest') \in Nat
    BY LandTypes DEF TypeOK
  <2>   QED  BY <2>1, RequestsAfterRows DEF Land
<1>4. \A g \in q.grpOff : g \in Group  BY DEF Writes
<1>5. \A g \in q.grpOff : /\ group'[g].state # "absent"
                           /\ AdminRole(group'[g].admin, g) \in q.roleDel
  BY <1>1, <1>4 DEF PlanSound
<1>6. \A x \in q.grpPolicy : group'[x[1]].state # "absent"
  <2>1. \A x \in q.grpPolicy : x[1] \in Group  BY DEF Writes
  <2>   QED  BY <1>1, <2>1 DEF PlanSound
<1>7. \A x \in q.grpName : group'[x[1]].state # "absent"
  <2>1. \A x \in q.grpName : x[1] \in Group  BY DEF Writes
  <2>   QED  BY <1>1, <2>1 DEF PlanSound
<1>8. \A n \in q.grpNew : group'[n.id].state = "absent"
  <2> SUFFICES ASSUME NEW n \in q.grpNew PROVE group'[n.id].state = "absent"
    OBVIOUS
  <2>1. n.id \in Group  BY DEF Writes
  <2>2. group[n.id].state = "absent"  BY DEF PlanSound
  <2>3. ~\E m \in p.grpNew : m.id = n.id  OBVIOUS
  <2>4. GroupAfter(n.id, p).state = "absent"  BY <2>1, <2>2, <2>3, GroupAfterRow
  <2>   QED  BY <2>1, <2>4 DEF Land
<1>9. /\ \A t \in q.tskOff : task'[t].state # "absent"
      /\ \A x \in q.tskTitle : task'[x[1]].state # "absent"
      /\ \A x \in q.tskStatus : task'[x[1]].state # "absent"
  <2>1. /\ \A t \in q.tskOff : t \in Task
        /\ \A x \in q.tskTitle : x[1] \in Task
        /\ \A x \in q.tskStatus : x[1] \in Task
    BY DEF Writes
  <2>   QED  BY <1>2, <2>1 DEF PlanSound
<1>10. \A x \in q.reqSet : x[1] \in 1..Len(joinRequest')
  <2>1. \A x \in q.reqSet : x[1] \in Nat  BY DEF Writes
  <2>   QED  BY <1>3, <2>1 DEF PlanSound
<1>   QED  BY <1>5, <1>6, <1>7, <1>8, <1>9, <1>10 DEF PlanSound


-----------------------------------------------------------------------------
(* The steps of the unit of work *)

\* A plan that hands out no id the other workers hold.
IdsFree(p) == \A n \in p.grpNew : \A v \in Worker : \A m \in tx[v].writes.grpNew : m.id # n.id

\* A worker with nothing staged is in order.
LEMMA IdleInOrder ==
  /\ NoWrites \in Writes /\ Idle \in Tx
  /\ \A grp, tsk, reqs : PlanSound(NoWrites, grp, tsk, reqs)
<1>1. NoWrites \in Writes  BY DEF NoWrites, Writes
<1>2. Idle \in Tx  BY <1>1 DEF Idle, Tx, Phase, RoleKind
<1>   QED  BY <1>1, <1>2 DEF PlanSound, NoWrites

\* A worker that moves on and leaves the tables alone keeps OwnerInv, if what
\* it stages then is typed, sound and disjoint from the others' ids.
LEMMA OwnStep ==
  ASSUME OwnerInv, UNCHANGED tables, NEW w \in Worker, NEW t \in Tx,
         tx' = [tx EXCEPT ![w] = t],
         PlanSound(t.writes, group, task, joinRequest),
         \A v \in Worker \ {w} : \A m \in tx[v].writes.grpNew, n \in t.writes.grpNew :
           m.id # n.id,
         t.phase \in {"flush", "inner", "innerCommit"} =>
           t.req \in 1..Len(joinRequest) /\ joinRequest[t.req].task # None
  PROVE  OwnerInv'
<1>1. tx \in [Worker -> Tx]  BY DEF OwnerInv, TypeOK
<1>2. tx'[w] = t /\ \A v \in Worker \ {w} : tx'[v] = tx[v]  BY <1>1
<1>3. TypeOK'  BY <1>1 DEF OwnerInv, TypeOK, tables
<1>4. AdminRoleSound'
  BY DEF OwnerInv, AdminRoleSound, HasRole, MyGroup, ActiveGroup, tables
<1>5. PlansSound'
  <2> SUFFICES ASSUME NEW v \in Worker
               PROVE  PlanSound(tx'[v].writes, group', task', joinRequest')
    BY DEF PlansSound
  <2>1. PlanSound(tx'[v].writes, group, task, joinRequest)
    BY <1>2 DEF OwnerInv, PlansSound
  <2>   QED  BY <2>1 DEF tables
<1>6. IdsDistinct'  BY <1>2 DEF OwnerInv, IdsDistinct
<1>7. NestedSound'  BY <1>2 DEF OwnerInv, NestedSound, tables
<1>   QED  BY <1>3, <1>4, <1>5, <1>6, <1>7 DEF OwnerInv

\* A request that has staged its writes.
LEMMA BeginStep ==
  ASSUME OwnerInv, NEW w \in Worker, NEW phase \in Phase, NEW t \in Tx,
         Begin(w, phase, t),
         PlanSound(t.writes, group, task, joinRequest), IdsFree(t.writes),
         phase \in {"flush", "inner", "innerCommit"} =>
           t.req \in 1..Len(joinRequest) /\ joinRequest[t.req].task # None
  PROVE  OwnerInv'
<1> DEFINE s == [t EXCEPT !.phase = phase]
<1>1. s \in Tx /\ s.writes = t.writes /\ s.req = t.req /\ s.phase = phase  BY DEF Tx
<1>2. tx' = [tx EXCEPT ![w] = s] /\ UNCHANGED tables  BY DEF Begin
<1> HIDE DEF s
<1>3. \A v \in Worker \ {w} : \A m \in tx[v].writes.grpNew, n \in s.writes.grpNew :
        m.id # n.id
  BY <1>1 DEF IdsFree
<1>   QED  BY <1>1, <1>2, <1>3, OwnStep

\* A worker that gives up.
LEMMA RollbackStep ==
  ASSUME OwnerInv, NEW w \in Worker, Rollback(w)
  PROVE  OwnerInv'
<1>1. Idle.writes = NoWrites /\ Idle.phase = "idle" /\ NoWrites.grpNew = {}
  BY DEF Idle, NoWrites
<1>   QED  BY <1>1, IdleInOrder, OwnStep DEF Rollback

\* A plan lands, and the worker goes on with a plan that was sound before.
LEMMA LandStep ==
  ASSUME OwnerInv, NEW w \in Worker, NEW p \in Writes, Land(p),
         PlanSound(p, group, task, joinRequest),
         \A v \in Worker \ {w} : \A m \in p.grpNew, n \in tx[v].writes.grpNew : m.id # n.id,
         NEW t \in Tx, tx' = [tx EXCEPT ![w] = t],
         PlanSound(t.writes, group, task, joinRequest),
         t.writes = NoWrites \/ (t.writes = tx[w].writes /\ p.grpNew = {}),
         t.phase \notin {"flush", "inner", "innerCommit"}
  PROVE  OwnerInv'
<1>0. TypeOK /\ AdminRoleSound  BY DEF OwnerInv
<1>1. tx \in [Worker -> Tx]  BY <1>0 DEF TypeOK
<1>2. tx'[w] = t /\ \A v \in Worker \ {w} : tx'[v] = tx[v]  BY <1>1
<1>3. \A v \in Worker : tx[v].writes \in Writes  BY <1>1 DEF Tx
<1>4. t.writes \in Writes  BY DEF Tx
<1>5. NoWrites.grpNew = {}  BY DEF NoWrites
<1>6. TypeOK'  BY <1>0, <1>1, LandTypes DEF TypeOK
<1>7. AdminRoleSound'  BY <1>0, LandRoles
<1>8. PlansSound'
  <2> SUFFICES ASSUME NEW v \in Worker
               PROVE  PlanSound(tx'[v].writes, group', task', joinRequest')
    BY DEF PlansSound
  <2>1. CASE v = w
    <3>1. \A m \in p.grpNew, n \in t.writes.grpNew : m.id # n.id  BY <1>5
    <3>2. PlanSound(t.writes, group', task', joinRequest')
      BY <1>0, <1>4, <3>1, LandPlans
    <3>   QED  BY <1>2, <2>1, <3>2
  <2>2. CASE v # w
    <3>1. PlanSound(tx[v].writes, group, task, joinRequest)  BY DEF OwnerInv, PlansSound
    <3>2. PlanSound(tx[v].writes, group', task', joinRequest')
      BY <1>0, <1>3, <2>2, <3>1, LandPlans
    <3>   QED  BY <1>2, <2>2, <3>2
  <2>   QED  BY <2>1, <2>2
<1>9. IdsDistinct'
  <2>1. t.writes.grpNew \subseteq tx[w].writes.grpNew  BY <1>5
  <2>   QED  BY <1>2, <2>1 DEF OwnerInv, IdsDistinct
<1>10. NestedSound'
  <2> SUFFICES ASSUME NEW v \in Worker, tx'[v].phase \in {"flush", "inner", "innerCommit"}
               PROVE  /\ tx'[v].req \in 1..Len(joinRequest')
                      /\ joinRequest'[tx'[v].req].task # None
    BY DEF NestedSound
  <2>1. v # w  BY <1>2
  <2>2. tx'[v] = tx[v]  BY <1>2, <2>1
  <2>3. tx[v].req \in 1..Len(joinRequest) /\ joinRequest[tx[v].req].task # None
    BY <2>2 DEF OwnerInv, NestedSound
  <2>4. joinRequest' = RequestsAfter(p)  BY DEF Land
  <2>5. Len(joinRequest) \in Nat /\ Len(joinRequest') \in Nat
    BY <1>0, <1>6 DEF TypeOK
  <2>   QED  BY <1>0, <2>2, <2>3, <2>4, <2>5, RequestsAfterRows
<1>   QED  BY <1>6, <1>7, <1>8, <1>9, <1>10 DEF OwnerInv


\* What OwnerInv says of one worker.
LEMMA WorkerFacts ==
  ASSUME OwnerInv, NEW w \in Worker
  PROVE  /\ tx \in [Worker -> Tx] /\ tx[w] \in Tx /\ tx[w].writes \in Writes
         /\ PlanSound(tx[w].writes, group, task, joinRequest)
         /\ \A v \in Worker \ {w} : \A m \in tx[v].writes.grpNew, n \in tx[w].writes.grpNew :
              m.id # n.id
  BY DEF OwnerInv, TypeOK, PlansSound, IdsDistinct, Tx

\* A worker that keeps its writes and request and only moves to another phase.
LEMMA PhaseStep ==
  ASSUME OwnerInv, UNCHANGED tables, NEW w \in Worker, NEW phase \in Phase,
         tx' = [tx EXCEPT ![w].phase = phase],
         phase \in {"flush", "inner", "innerCommit"} =>
           tx[w].phase \in {"flush", "inner", "innerCommit"}
  PROVE  OwnerInv'
<1> DEFINE t == [tx[w] EXCEPT !.phase = phase]
<1>1. /\ t \in Tx /\ t.writes = tx[w].writes /\ t.req = tx[w].req /\ t.phase = phase
  BY WorkerFacts DEF Tx
<1>2. tx' = [tx EXCEPT ![w] = t]  BY WorkerFacts
<1>3. t.phase \in {"flush", "inner", "innerCommit"} =>
        t.req \in 1..Len(joinRequest) /\ joinRequest[t.req].task # None
  BY <1>1 DEF OwnerInv, NestedSound
<1> HIDE DEF t
<1>4. PlanSound(t.writes, group, task, joinRequest)  BY <1>1, WorkerFacts
<1>5. \A v \in Worker \ {w} : \A m \in tx[v].writes.grpNew, n \in t.writes.grpNew :
        m.id # n.id
  BY <1>1, WorkerFacts
<1>   QED  BY <1>1, <1>2, <1>3, <1>4, <1>5, OwnStep

\* What a commit leaves the worker with.
LEMMA AfterCommitInOrder ==
  ASSUME OwnerInv, NEW w \in Worker
  PROVE  /\ AfterCommit(w) \in Tx
         /\ AfterCommit(w).writes = NoWrites
         /\ AfterCommit(w).phase \in {"idle", "dispatch"}
<1>1. tx[w].events \in Seq(Notice)  BY WorkerFacts DEF Tx
<1>2. Idle \in Tx /\ Idle.writes = NoWrites /\ Idle.phase = "idle"
  BY IdleInOrder DEF Idle
<1>   QED  BY <1>1, <1>2 DEF AfterCommit, Tx, Phase

LEMMA CommitStep ==
  ASSUME OwnerInv, NEW w \in Worker, Commit(w)
  PROVE  OwnerInv'
<1>1. CASE Conflict(tx[w].writes)  BY <1>1, RollbackStep DEF Commit
<1>2. CASE ~Conflict(tx[w].writes)
  <2>1. Land(tx[w].writes) /\ tx' = [tx EXCEPT ![w] = AfterCommit(w)]
    BY <1>2 DEF Commit
  <2>2. PlanSound(AfterCommit(w).writes, group, task, joinRequest)
    BY AfterCommitInOrder, IdleInOrder
  <2>3. \A v \in Worker \ {w} : \A m \in tx[w].writes.grpNew, n \in tx[v].writes.grpNew :
          m.id # n.id
    BY WorkerFacts
  <2>4. AfterCommit(w).phase \notin {"flush", "inner", "innerCommit"}
    BY AfterCommitInOrder
  <2>   QED  BY <2>1, <2>2, <2>3, <2>4, WorkerFacts, AfterCommitInOrder, LandStep
<1>   QED  BY <1>1, <1>2

LEMMA DispatchStep ==
  ASSUME OwnerInv, NEW w \in Worker, Dispatch(w)
  PROVE  OwnerInv'
<1> DEFINE t == [tx[w] EXCEPT !.events = Tail(@)]
<1>1. UNCHANGED tables /\ tx[w].phase = "dispatch"  BY DEF Dispatch
<1>2. CASE Len(tx[w].events) <= 1
  <2>1. tx' = [tx EXCEPT ![w] = Idle]  BY <1>2, WorkerFacts DEF Dispatch
  <2>   QED  BY <1>1, <2>1, RollbackStep DEF Rollback
<1>3. CASE ~(Len(tx[w].events) <= 1)
  <2>1. tx' = [tx EXCEPT ![w] = t]  BY <1>3, WorkerFacts DEF Dispatch
  <2>2. Tail(tx[w].events) \in Seq(Notice)  BY <1>3, WorkerFacts DEF Tx
  <2>3. t \in Tx /\ t.writes = tx[w].writes /\ t.phase = "dispatch"
    BY <1>1, <2>2, WorkerFacts DEF Tx
  <2> HIDE DEF t
  <2>4. PlanSound(t.writes, group, task, joinRequest)  BY <2>3, WorkerFacts
  <2>5. \A v \in Worker \ {w} : \A m \in tx[v].writes.grpNew, n \in t.writes.grpNew :
          m.id # n.id
    BY <2>3, WorkerFacts
  <2>   QED  BY <1>1, <2>1, <2>3, <2>4, <2>5, OwnStep
<1>   QED  BY <1>2, <1>3


LEMMA LookRemainingStep ==
  ASSUME OwnerInv, NEW w \in Worker, LookRemaining(w)
  PROVE  OwnerInv'
<1>1. PICK phase \in {"commit", "pickRole"} : tx' = [tx EXCEPT ![w].phase = phase]
  BY DEF LookRemaining
<1>2. phase \in Phase  BY DEF Phase
<1>   QED  BY <1>1, <1>2, PhaseStep DEF LookRemaining

LEMMA PickRoleStep ==
  ASSUME OwnerInv, NEW w \in Worker, PickRole(w)
  PROVE  OwnerInv'
<1>1. CASE tx' = [tx EXCEPT ![w].phase = "commit"]
  BY <1>1, PhaseStep DEF PickRole, Phase
<1>2. ASSUME NEW r \in RoleRow,
             tx' = [tx EXCEPT ![w] = TakingRole(w, r)]
      PROVE  OwnerInv'
  <2> DEFINE p == [tx[w].writes EXCEPT !.roleDel = tx[w].writes.roleDel \cup {r}]
             t == TakingRole(w, r)
  <2>1. p \in Writes
    <3> DEFINE taken == tx[w].writes.roleDel \cup {r}
    <3>1. taken \in SUBSET RoleRow  BY WorkerFacts DEF Writes
    <3> HIDE DEF taken
    <3>2. [tx[w].writes EXCEPT !.roleDel = taken] \in Writes
      BY <3>1, WorkerFacts, SMTT(30) DEF Writes
    <3>   QED  BY <3>2 DEF taken
  <2>2. PlanSound(p, group, task, joinRequest)
    <3>1. PlanSound(tx[w].writes, group, task, joinRequest)  BY WorkerFacts
    <3>2. /\ p.grpOff = tx[w].writes.grpOff       /\ p.grpPolicy = tx[w].writes.grpPolicy
          /\ p.grpName = tx[w].writes.grpName     /\ p.grpNew = tx[w].writes.grpNew
          /\ p.roleIns = tx[w].writes.roleIns     /\ p.tskOff = tx[w].writes.tskOff
          /\ p.tskTitle = tx[w].writes.tskTitle   /\ p.tskStatus = tx[w].writes.tskStatus
          /\ p.reqSet = tx[w].writes.reqSet
          /\ tx[w].writes.roleDel \subseteq p.roleDel
      BY WorkerFacts DEF Writes
    <3> HIDE DEF p
    <3>   QED  BY <3>1, <3>2 DEF PlanSound
  <2>3. p.grpNew = tx[w].writes.grpNew  BY WorkerFacts DEF Writes
  <2>4. t = [tx[w] EXCEPT !.phase = "commit", !.writes = p]  BY DEF TakingRole
  <2> HIDE DEF p
  <2>5. t \in Tx /\ t.writes = p /\ t.phase = "commit"
    BY <2>1, <2>4, WorkerFacts DEF Tx, Phase
  <2> HIDE DEF t
  <2>6. \A v \in Worker \ {w} : \A m \in tx[v].writes.grpNew, n \in t.writes.grpNew :
          m.id # n.id
    BY <2>3, <2>5, WorkerFacts
  <2>   QED  BY <1>2, <2>2, <2>5, <2>6, OwnStep DEF PickRole, t
<1>   QED  BY <1>1, <1>2 DEF PickRole

LEMMA MachineryStep ==
  ASSUME OwnerInv, NEW w \in Worker, Machinery(w)
  PROVE  OwnerInv'
<1>1. CASE Fail(w)  BY <1>1, RollbackStep DEF Fail
<1>   QED
  BY <1>1, CommitStep, DispatchStep, LookRemainingStep, PickRoleStep DEF Machinery

-----------------------------------------------------------------------------
(* The nested assignment of a group approval *)

LEMMA FlushApprovalStep ==
  ASSUME OwnerInv, NEW w \in Worker, FlushApproval(w)
  PROVE  OwnerInv'
<1>1. CASE Rollback(w)  BY <1>1, RollbackStep
<1>2. CASE ~Rollback(w)
  <2>1. PICK phase \in {"inner", "outerCommit"} : tx' = [tx EXCEPT ![w].phase = phase]
    BY <1>2 DEF FlushApproval
  <2>2. phase \in Phase  BY DEF Phase
  <2>3. UNCHANGED tables /\ tx[w].phase = "flush"  BY <1>2 DEF FlushApproval
  <2>   QED  BY <2>1, <2>2, <2>3, PhaseStep
<1>   QED  BY <1>1, <1>2

LEMMA InnerCheckStep ==
  ASSUME OwnerInv, NEW w \in Worker, InnerCheck(w)
  PROVE  OwnerInv'
<1>1. CASE Rollback(w)  BY <1>1, RollbackStep
<1>2. CASE tx' = [tx EXCEPT ![w].phase = "innerCommit"] /\ UNCHANGED tables
  BY <1>2, PhaseStep DEF InnerCheck, Phase
<1>   QED  BY <1>1, <1>2 DEF InnerCheck

\* The assignment a plan of its own consists of.
LEMMA AssignWritesInOrder ==
  ASSUME NEW t \in Task, NEW v \in User
  PROVE  /\ AssignWrites(t, v) \in Writes
         /\ AssignWrites(t, v).grpNew = {}
         /\ \A grp, tsk, reqs : PlanSound(AssignWrites(t, v), grp, tsk, reqs)
<1>1. AssignWrites(t, v) \in Writes  BY IdleInOrder DEF AssignWrites, Writes
<1>2. /\ AssignWrites(t, v).grpNew = {}    /\ AssignWrites(t, v).grpOff = {}
      /\ AssignWrites(t, v).grpPolicy = {} /\ AssignWrites(t, v).grpName = {}
      /\ AssignWrites(t, v).roleIns = {}   /\ AssignWrites(t, v).tskOff = {}
      /\ AssignWrites(t, v).tskTitle = {}  /\ AssignWrites(t, v).tskStatus = {}
      /\ AssignWrites(t, v).reqSet = {}
  BY DEF AssignWrites, NoWrites
<1>   QED  BY <1>1, <1>2 DEF PlanSound

LEMMA InnerCommitStep ==
  ASSUME OwnerInv, NEW w \in Worker, InnerCommit(w)
  PROVE  OwnerInv'
<1> DEFINE r == joinRequest[tx[w].req]
           p == AssignWrites(r.task, r.user)
           t == [tx[w] EXCEPT !.phase = "outerCommit"]
<1>1. r.task \in Task /\ r.user \in User
  <2>1. tx[w].req \in 1..Len(joinRequest) /\ r.task # None
    BY DEF OwnerInv, NestedSound, InnerCommit
  <2>2. r \in Request  BY <2>1 DEF OwnerInv, TypeOK
  <2>   QED  BY <2>1, <2>2 DEF Request
<1>2. CASE Conflict(p)  BY <1>2, RollbackStep DEF InnerCommit
<1>3. CASE ~Conflict(p)
  <2>1. Land(p) /\ tx' = [tx EXCEPT ![w].phase = "outerCommit"]
    BY <1>3 DEF InnerCommit
  <2>2. p \in Writes /\ p.grpNew = {} /\ PlanSound(p, group, task, joinRequest)
    BY <1>1, AssignWritesInOrder
  <2> HIDE DEF r, p
  <2>3. t \in Tx /\ t.writes = tx[w].writes /\ t.phase = "outerCommit"
    BY WorkerFacts DEF Tx, Phase
  <2>4. tx' = [tx EXCEPT ![w] = t]  BY <2>1, WorkerFacts
  <2> HIDE DEF t
  <2>5. PlanSound(t.writes, group, task, joinRequest)  BY <2>3, WorkerFacts
  <2>6. t.phase \notin {"flush", "inner", "innerCommit"}  BY <2>3
  <2>7. \A v \in Worker \ {w} : \A m \in p.grpNew, n \in tx[v].writes.grpNew : m.id # n.id
    BY <2>2
  <2>   QED  BY <2>1, <2>2, <2>3, <2>4, <2>5, <2>6, <2>7, LandStep
<1>   QED  BY <1>2, <1>3


-----------------------------------------------------------------------------
(* The requests: what each stages is typed and sound *)

\* A plan that changes no group, task or decision and makes nobody an owner.
Quiet(p) ==
  /\ p.grpOff = {} /\ p.grpPolicy = {} /\ p.grpName = {} /\ p.grpNew = {}
  /\ p.tskOff = {} /\ p.tskTitle = {} /\ p.tskStatus = {} /\ p.reqSet = {}
  /\ \A r \in p.roleIns : r.kind # "GROUP_ADMIN"

LEMMA QuietPlan ==
  ASSUME NEW p, Quiet(p)
  PROVE  PlanSound(p, group, task, joinRequest) /\ IdsFree(p)
  BY DEF Quiet, PlanSound, IdsFree

\* Requests that wait for a commit or for the clean-up.
LEMMA StageStep ==
  ASSUME OwnerInv, NEW w \in Worker, NEW phase \in {"commit", "remaining"}, NEW t \in Tx,
         Begin(w, phase, t), PlanSound(t.writes, group, task, joinRequest), IdsFree(t.writes)
  PROVE  OwnerInv'
  BY BeginStep DEF Phase

\* What a request leaves in its unit of work is typed: its writes alone, with
\* events, or with a clean-up to come.
LEMMA WritesTx ==
  ASSUME NEW p \in Writes
  PROVE  [Idle EXCEPT !.writes = p] \in Tx /\ [Idle EXCEPT !.writes = p].writes = p
  BY IdleInOrder DEF Tx

LEMMA TellingTx ==
  ASSUME NEW p \in Writes, NEW es \in Seq(Notice)
  PROVE  /\ [Idle EXCEPT !.writes = p, !.events = es] \in Tx
         /\ [Idle EXCEPT !.writes = p, !.events = es].writes = p
  BY IdleInOrder DEF Tx

LEMMA LeavingTx ==
  ASSUME NEW p \in Writes, NEW v \in User, NEW k \in RoleKind
  PROVE  /\ [Idle EXCEPT !.subject = v, !.kind = k, !.writes = p] \in Tx
         /\ [Idle EXCEPT !.subject = v, !.kind = k, !.writes = p].writes = p
  BY IdleInOrder DEF Tx

LEMMA TellTyped ==
  ASSUME NEW kind \in NoticeKind, NEW to \in User, NEW r \in Nat
  PROVE  <<Tell(kind, to, r)>> \in Seq(Notice)
<1>1. Tell(kind, to, r) \in Notice  BY DEF Tell, Notice
<1>   QED  BY <1>1

\* An active group has an owner.
LEMMA ActiveOwner ==
  ASSUME TypeOK, NEW g \in Group, ActiveGroup(g)
  PROVE  group[g].admin \in User
  BY DEF TypeOK, GroupRow, AbsentGroup, ActiveGroup

LEMMA GrantMemberTyped ==
  ASSUME NEW u \in User, NEW g \in Group
  PROVE  /\ GrantMember(u, g) \in SUBSET RoleRow
         /\ \A r \in GrantMember(u, g) : r.kind # "GROUP_ADMIN"
<1>1. MemberRole(u, g) \in RoleRow /\ MemberRole(u, g).kind = "MEMBER"
  BY DEF MemberRole, RoleRow, RoleKind
<1>   QED  BY <1>1 DEF GrantMember

LEMMA CreateMyGroupStep ==
  ASSUME OwnerInv, NEW w \in Worker, NEW u \in User, NEW g \in Group, NEW n \in Name,
         NEW pol \in Policy, CreateMyGroup(w, u, g, n, pol)
  PROVE  OwnerInv'
<1> DEFINE row == [id |-> g, admin |-> u, policy |-> pol, name |-> n]
           p == [NoWrites EXCEPT !.grpNew = {row}, !.memIns = {<<u, g>>},
                                 !.roleIns = {AdminRole(u, g)}, !.out = {<<g, "CREATED">>}]
<1>1. p \in Writes
  <2> DEFINE new == {row}  in == {<<u, g>>}  role == {AdminRole(u, g)}  out == {<<g, "CREATED">>}
  <2>1. new \in SUBSET [id : Group, admin : User, policy : Policy, name : Name]  OBVIOUS
  <2>2. in \in SUBSET (User \X Group)  OBVIOUS
  <2>3. role \in SUBSET RoleRow  BY DEF AdminRole, RoleRow, RoleKind
  <2>4. out \in SUBSET ((Group \cup Task) \X EventType)  BY DEF EventType
  <2> HIDE DEF new, in, role, out
  <2>5. [NoWrites EXCEPT !.grpNew = new, !.memIns = in, !.roleIns = role, !.out = out] \in Writes
    BY <2>1, <2>2, <2>3, <2>4, IdleInOrder, ZenonT(60) DEF Writes
  <2>   QED  BY <2>5 DEF new, in, role, out
<1>2. /\ p.grpNew = {row} /\ p.roleIns = {AdminRole(u, g)}
      /\ p.grpOff = {} /\ p.grpPolicy = {} /\ p.grpName = {} /\ p.tskOff = {}
      /\ p.tskTitle = {} /\ p.tskStatus = {} /\ p.reqSet = {}
  BY DEF NoWrites
<1>3. Begin(w, "commit", [Idle EXCEPT !.writes = p]) /\ FreshGroup(g)
  BY DEF CreateMyGroup
<1> HIDE DEF p
<1>4. PlanSound(p, group, task, joinRequest)
  <2>1. group[row.id].state = "absent"  BY <1>3 DEF FreshGroup
  <2>2. AdminRole(u, g).user = u /\ AdminRole(u, g).group = g  BY DEF AdminRole
  <2>   QED  BY <1>2, <2>1, <2>2 DEF PlanSound
<1>5. IdsFree(p)  BY <1>2, <1>3 DEF IdsFree, FreshGroup
<1>6. [Idle EXCEPT !.writes = p] \in Tx /\ [Idle EXCEPT !.writes = p].writes = p
  BY <1>1, WritesTx
<1>   QED  BY <1>3, <1>4, <1>5, <1>6, StageStep

LEMMA UpdateMyGroupStep ==
  ASSUME OwnerInv, NEW w \in Worker, NEW u \in User, NEW g \in Group, NEW n \in Name,
         NEW pol \in Policy, UpdateMyGroup(w, u, g, n, pol)
  PROVE  OwnerInv'
<1> DEFINE names == {<<g, n>>} \ {<<g, group[g].name>>}
           policies == {<<g, pol>>} \ {<<g, group[g].policy>>}
           out == {<<g, "UPDATED">>}
           p == [NoWrites EXCEPT !.grpName = names, !.grpPolicy = policies, !.out = out]
           t == [Idle EXCEPT !.writes = p]
<1>1. Begin(w, "commit", t) /\ group[g].state = "active"
  BY DEF UpdateMyGroup, MyGroup, ActiveGroup
<1>2. /\ names \in SUBSET (Group \X Name) /\ policies \in SUBSET (Group \X Policy)
      /\ out \in SUBSET ((Group \cup Task) \X EventType)
      /\ \A x \in names : x[1] = g
      /\ \A x \in policies : x[1] = g
  BY DEF EventType
<1> HIDE DEF names, policies, out
<1>3. p \in Writes  BY <1>2, IdleInOrder, ZenonT(60) DEF Writes
<1>4. /\ p.grpName = names /\ p.grpPolicy = policies
      /\ p.roleIns = {} /\ p.grpOff = {} /\ p.grpNew = {} /\ p.tskOff = {}
      /\ p.tskTitle = {} /\ p.tskStatus = {} /\ p.reqSet = {}
  BY DEF NoWrites
<1> HIDE DEF p
<1>5. PlanSound(p, group, task, joinRequest) /\ IdsFree(p)
  BY <1>1, <1>2, <1>4 DEF PlanSound, IdsFree
<1>6. t \in Tx /\ t.writes = p  BY <1>3, WritesTx
<1>   QED  BY <1>1, <1>5, <1>6, StageStep

LEMMA DeleteMyGroupStep ==
  ASSUME OwnerInv, NEW w \in Worker, NEW u \in User, NEW g \in Group, DeleteMyGroup(w, u, g)
  PROVE  OwnerInv'
<1> DEFINE off == {g}
           role == {AdminRole(u, g)}
           out == {<<g, "DELETED">>}
           p == [NoWrites EXCEPT !.grpOff = off, !.roleDel = role, !.out = out]
           t == [Idle EXCEPT !.subject = u, !.kind = "GROUP_ADMIN", !.writes = p]
<1>1. Begin(w, "remaining", t) /\ group[g].state = "active" /\ group[g].admin = u
  BY DEF DeleteMyGroup, MyGroup, ActiveGroup
<1>2. /\ off \in SUBSET Group /\ role \in SUBSET RoleRow
      /\ out \in SUBSET ((Group \cup Task) \X EventType)
      /\ \A h \in off : h = g
      /\ AdminRole(u, g) \in role
  BY DEF AdminRole, RoleRow, RoleKind, EventType
<1> HIDE DEF off, role, out
<1>3. p \in Writes  BY <1>2, IdleInOrder, ZenonT(60) DEF Writes
<1>4. /\ p.grpOff = off /\ p.roleDel = role
      /\ p.roleIns = {} /\ p.grpNew = {} /\ p.grpName = {} /\ p.grpPolicy = {}
      /\ p.tskOff = {} /\ p.tskTitle = {} /\ p.tskStatus = {} /\ p.reqSet = {}
  BY DEF NoWrites
<1> HIDE DEF p
<1>5. PlanSound(p, group, task, joinRequest) /\ IdsFree(p)
  BY <1>1, <1>2, <1>4 DEF PlanSound, IdsFree
<1>6. t \in Tx /\ t.writes = p  BY <1>3, LeavingTx DEF RoleKind
<1>   QED  BY <1>1, <1>5, <1>6, StageStep

LEMMA AddMemberToGroupStep ==
  ASSUME OwnerInv, NEW w \in Worker, NEW u \in User, NEW g \in Group, NEW v \in User,
         AddMemberToGroup(w, u, g, v)
  PROVE  OwnerInv'
<1> DEFINE in == {<<v, g>>}
           es == <<Tell("group_invite", v, 0)>>
           p == [NoWrites EXCEPT !.memIns = in]
           t == [Idle EXCEPT !.writes = p, !.events = es]
<1>1. Begin(w, "commit", t)  BY DEF AddMemberToGroup
<1>2. in \in SUBSET (User \X Group) /\ es \in Seq(Notice)
  BY TellTyped DEF NoticeKind
<1> HIDE DEF in, es
<1>3. p \in Writes /\ Quiet(p)  BY <1>2, IdleInOrder DEF Writes, Quiet, NoWrites
<1> HIDE DEF p
<1>4. t \in Tx /\ t.writes = p  BY <1>2, <1>3, TellingTx
<1>   QED  BY <1>1, <1>3, <1>4, QuietPlan, StageStep

LEMMA LeaveGroupStep ==
  ASSUME OwnerInv, NEW w \in Worker, NEW g \in Group, NEW v \in User, LeaveGroup(w, g, v)
  PROVE  OwnerInv'
<1> DEFINE gone == {<<v, g>>}
           p == [NoWrites EXCEPT !.memDel = gone]
           t == [Idle EXCEPT !.subject = v, !.kind = "MEMBER", !.writes = p]
<1>1. Begin(w, "remaining", t)  BY DEF LeaveGroup
<1>2. gone \in SUBSET (User \X Group)  OBVIOUS
<1> HIDE DEF gone
<1>3. p \in Writes /\ Quiet(p)  BY <1>2, IdleInOrder DEF Writes, Quiet, NoWrites
<1> HIDE DEF p
<1>4. t \in Tx /\ t.writes = p  BY <1>3, LeavingTx DEF RoleKind
<1>   QED  BY <1>1, <1>3, <1>4, QuietPlan, StageStep

\* A request to join, for a group (None) or one of its tasks.
LEMMA AskStep ==
  ASSUME OwnerInv, NEW w \in Worker, NEW u \in User, NEW g \in Group,
         NEW for \in Task \cup {None}, NEW to \in User,
         Begin(w, "commit", [Idle EXCEPT
           !.writes = [NoWrites EXCEPT !.reqNew =
              {[user |-> u, group |-> g, task |-> for, status |-> "PENDING"]}],
           !.events = <<Tell("created", to, 0)>>])
  PROVE  OwnerInv'
<1> DEFINE new == {[user |-> u, group |-> g, task |-> for, status |-> "PENDING"]}
           es == <<Tell("created", to, 0)>>
           p == [NoWrites EXCEPT !.reqNew = new]
           t == [Idle EXCEPT !.writes = p, !.events = es]
<1>1. Begin(w, "commit", t)  OBVIOUS
<1>2. new \in SUBSET Request /\ es \in Seq(Notice)
  BY TellTyped DEF NoticeKind, Request, Decision
<1> HIDE DEF new, es
<1>3. p \in Writes /\ Quiet(p)  BY <1>2, IdleInOrder DEF Writes, Quiet, NoWrites
<1> HIDE DEF p
<1>4. t \in Tx /\ t.writes = p  BY <1>2, <1>3, TellingTx
<1>   QED  BY <1>1, <1>3, <1>4, QuietPlan, StageStep

LEMMA JoinGroupStep ==
  ASSUME OwnerInv, NEW w \in Worker, NEW u \in User, NEW g \in Group, JoinGroup(w, u, g)
  PROVE  OwnerInv'
<1>1. group[g].admin \in User  BY ActiveOwner DEF JoinGroup, OwnerInv
<1>2. CASE JoinGroupOpen(w, u, g)
  <2> DEFINE in == {<<u, g>>}
             es == <<Tell("group_join", group[g].admin, 0)>>
             role == GrantMember(u, g)
             p == [NoWrites EXCEPT !.memIns = in, !.roleIns = role]
             t == [Idle EXCEPT !.writes = p, !.events = es]
  <2>1. Begin(w, "commit", t)  BY <1>2 DEF JoinGroupOpen
  <2>2. /\ in \in SUBSET (User \X Group) /\ es \in Seq(Notice)
        /\ role \in SUBSET RoleRow /\ \A r \in role : r.kind # "GROUP_ADMIN"
    BY <1>1, TellTyped, GrantMemberTyped DEF NoticeKind
  <2> HIDE DEF in, es, role
  <2>3. p \in Writes /\ Quiet(p)  BY <2>2, IdleInOrder, ZenonT(60) DEF Writes, Quiet, NoWrites
  <2> HIDE DEF p
  <2>4. t \in Tx /\ t.writes = p  BY <2>2, <2>3, TellingTx
  <2>   QED  BY <2>1, <2>3, <2>4, QuietPlan, StageStep
<1>3. CASE JoinGroupByRequest(w, u, g)
  BY <1>1, <1>3, AskStep DEF JoinGroupByRequest
<1>   QED  BY <1>2, <1>3 DEF JoinGroup

LEMMA ApproveJoinRequestStep ==
  ASSUME OwnerInv, NEW w \in Worker, NEW u \in User, NEW r \in 1..Len(joinRequest),
         ApproveJoinRequest(w, u, r)
  PROVE  OwnerInv'
<1> DEFINE v == joinRequest[r].user
           g == joinRequest[r].group
           in == {<<v, g>>}
           role == GrantMember(v, g)
           set == {<<r, "APPROVED">>}
           es == <<Tell("approved", v, r)>>
           p == [NoWrites EXCEPT !.reqSet = set, !.memIns = in, !.roleIns = role]
           t == [Idle EXCEPT !.actor = u, !.req = r, !.writes = p, !.events = es]
           phase == IF joinRequest[r].task = None THEN "commit" ELSE "flush"
<1>1. Begin(w, phase, t)  BY DEF ApproveJoinRequest, ApproveWrites
<1>2. joinRequest[r] \in Request /\ r \in Nat  BY DEF OwnerInv, TypeOK
<1>3. v \in User /\ g \in Group  BY <1>2 DEF Request
<1> HIDE DEF v, g
<1>4. /\ in \in SUBSET (User \X Group) /\ es \in Seq(Notice)
      /\ role \in SUBSET RoleRow /\ \A x \in role : x.kind # "GROUP_ADMIN"
      /\ set \in SUBSET (Nat \X Decision) /\ \A x \in set : x[1] = r
  BY <1>2, <1>3, TellTyped, GrantMemberTyped DEF NoticeKind, Decision
<1>5. phase \in Phase /\ (phase \in {"flush", "inner", "innerCommit"} => joinRequest[r].task # None)
  BY DEF Phase
<1> HIDE DEF in, role, set, es, phase
<1>6. p \in Writes  BY <1>4, IdleInOrder, ZenonT(60) DEF Writes
<1>7. /\ p.reqSet = set /\ p.roleIns = role /\ p.grpNew = {}
      /\ p.grpOff = {} /\ p.grpName = {} /\ p.grpPolicy = {}
      /\ p.tskOff = {} /\ p.tskTitle = {} /\ p.tskStatus = {}
  BY DEF NoWrites
<1> HIDE DEF p
<1>8. PlanSound(p, group, task, joinRequest) /\ IdsFree(p)
  BY <1>4, <1>7 DEF PlanSound, IdsFree
<1>9. t \in Tx /\ t.writes = p /\ t.req = r
  <2>1. r \in Nat /\ es \in Seq(Notice)  BY <1>2, <1>4
  <2>   QED  BY <1>6, <2>1, IdleInOrder DEF Tx
<1> HIDE DEF t
<1>   QED  BY <1>1, <1>5, <1>8, <1>9, BeginStep

\* A rejection, by either route.
LEMMA RejectStep ==
  ASSUME OwnerInv, NEW w \in Worker, NEW r \in 1..Len(joinRequest),
         Begin(w, "commit", [Idle EXCEPT
           !.writes = [NoWrites EXCEPT !.reqSet =
                         {<<r, "REJECTED">>} \ {<<r, joinRequest[r].status>>}],
           !.events = <<Tell("rejected", joinRequest[r].user, r)>>])
  PROVE  OwnerInv'
<1> DEFINE set == {<<r, "REJECTED">>} \ {<<r, joinRequest[r].status>>}
           es == <<Tell("rejected", joinRequest[r].user, r)>>
           p == [NoWrites EXCEPT !.reqSet = set]
           t == [Idle EXCEPT !.writes = p, !.events = es]
<1>1. Begin(w, "commit", t)  OBVIOUS
<1>2. joinRequest[r] \in Request /\ r \in Nat  BY DEF OwnerInv, TypeOK
<1>3. /\ es \in Seq(Notice)
      /\ set \in SUBSET (Nat \X Decision) /\ \A x \in set : x[1] = r
  BY <1>2, TellTyped DEF NoticeKind, Decision, Request
<1> HIDE DEF set, es
<1>4. p \in Writes  BY <1>3, IdleInOrder, ZenonT(60) DEF Writes
<1>5. /\ p.reqSet = set /\ p.roleIns = {} /\ p.grpNew = {}
      /\ p.grpOff = {} /\ p.grpName = {} /\ p.grpPolicy = {}
      /\ p.tskOff = {} /\ p.tskTitle = {} /\ p.tskStatus = {}
  BY DEF NoWrites
<1> HIDE DEF p
<1>6. PlanSound(p, group, task, joinRequest) /\ IdsFree(p)
  BY <1>3, <1>5 DEF PlanSound, IdsFree
<1>7. t \in Tx /\ t.writes = p  BY <1>3, <1>4, TellingTx
<1>   QED  BY <1>1, <1>6, <1>7, StageStep

LEMMA GroupRequestStep ==
  ASSUME OwnerInv, NEW w \in Worker, GroupStep(w)
  PROVE  OwnerInv'
<1>1. CASE \E u \in User, g \in Group : \E n \in Name, pol \in Policy :
             CreateMyGroup(w, u, g, n, pol) \/ UpdateMyGroup(w, u, g, n, pol)
  BY <1>1, CreateMyGroupStep, UpdateMyGroupStep
<1>2. CASE \E u \in User, g \in Group : DeleteMyGroup(w, u, g)
  BY <1>2, DeleteMyGroupStep
<1>3. CASE \E u \in User, g \in Group, v \in User : AddMemberToGroup(w, u, g, v)
  BY <1>3, AddMemberToGroupStep
<1>4. CASE \E u \in User, g \in Group, v \in User : RemoveMemberFromGroup(w, u, g, v)
  BY <1>4, LeaveGroupStep DEF RemoveMemberFromGroup
<1>5. CASE \E u \in User, g \in Group : ExitGroup(w, u, g)
  BY <1>5, LeaveGroupStep DEF ExitGroup
<1>6. CASE \E u \in User, g \in Group : JoinGroup(w, u, g)
  BY <1>6, JoinGroupStep
<1>7. CASE \E u \in User : \E r \in 1..Len(joinRequest) : ApproveJoinRequest(w, u, r)
  BY <1>7, ApproveJoinRequestStep
<1>8. CASE \E u \in User : \E r \in 1..Len(joinRequest) : RejectJoinRequest(w, u, r)
  BY <1>8, RejectStep DEF RejectJoinRequest
<1>   QED  BY <1>1, <1>2, <1>3, <1>4, <1>5, <1>6, <1>7, <1>8 DEF GroupStep

\* An active task belongs to a group.
LEMMA ActiveTaskGroup ==
  ASSUME TypeOK, NEW t \in Task, ActiveTask(t)
  PROVE  task[t].group \in Group
  BY DEF TypeOK, TaskRow, AbsentTask, ActiveTask

LEMMA CreateTaskForGroupStep ==
  ASSUME OwnerInv, NEW w \in Worker, NEW u \in User, NEW g \in Group, NEW t \in Task,
         NEW title \in Title, CreateTaskForGroup(w, u, g, t, title)
  PROVE  OwnerInv'
<1> DEFINE new == {[id |-> t, group |-> g, title |-> title]}
           role == {AssigneeRole(u, g, t)} \cup GrantMember(u, g)
           asg == {<<u, t>>}
           in == {<<u, g>>} \ membership
           out == {<<t, "CREATED">>}
           p == [NoWrites EXCEPT !.tskNew = new, !.roleIns = role, !.asgIns = asg,
                                 !.memIns = in, !.out = out]
           s == [Idle EXCEPT !.writes = p]
<1>1. Begin(w, "commit", s)  BY DEF CreateTaskForGroup
<1>2. role \in SUBSET RoleRow /\ \A r \in role : r.kind # "GROUP_ADMIN"
  <2>1. AssigneeRole(u, g, t) \in RoleRow /\ AssigneeRole(u, g, t).kind = "ASSIGNEE"
    BY DEF AssigneeRole, RoleRow, RoleKind
  <2>   QED  BY <2>1, GrantMemberTyped
<1>3. /\ new \in SUBSET [id : Task, group : Group, title : Title]
      /\ asg \in SUBSET (User \X Task) /\ in \in SUBSET (User \X Group)
      /\ out \in SUBSET ((Group \cup Task) \X EventType)
  BY DEF EventType
<1> HIDE DEF new, role, asg, in, out
<1>4. p \in Writes  BY <1>2, <1>3, IdleInOrder, ZenonT(60) DEF Writes
<1>5. Quiet(p)  BY <1>2 DEF Quiet, NoWrites
<1> HIDE DEF p
<1>6. s \in Tx /\ s.writes = p  BY <1>4, WritesTx
<1>   QED  BY <1>1, <1>5, <1>6, QuietPlan, StageStep


\* An assignment, by invitation or by joining an open group's task.
LEMMA AssignStep ==
  ASSUME OwnerInv, NEW w \in Worker, NEW t \in Task, NEW v \in User, NEW es \in Seq(Notice),
         \/ Begin(w, "commit", [Idle EXCEPT !.writes = AssignWrites(t, v), !.events = es])
         \/ Begin(w, "commit", [Idle EXCEPT !.writes = AssignWrites(t, v)])
  PROVE  OwnerInv'
<1> DEFINE p == AssignWrites(t, v)
           s1 == [Idle EXCEPT !.writes = p, !.events = es]
           s2 == [Idle EXCEPT !.writes = p]
<1>1. /\ p \in Writes /\ p.grpNew = {} /\ PlanSound(p, group, task, joinRequest)
  BY AssignWritesInOrder
<1>2. Begin(w, "commit", s1) \/ Begin(w, "commit", s2)  OBVIOUS
<1> HIDE DEF p
<1>3. IdsFree(p)  BY <1>1 DEF IdsFree
<1>4. s1 \in Tx /\ s1.writes = p  BY <1>1, TellingTx
<1>5. s2 \in Tx /\ s2.writes = p  BY <1>1, WritesTx
<1>6. CASE Begin(w, "commit", s1)  BY <1>1, <1>3, <1>4, <1>6, StageStep
<1>7. CASE Begin(w, "commit", s2)  BY <1>1, <1>3, <1>5, <1>7, StageStep
<1>   QED  BY <1>2, <1>6, <1>7

LEMMA AddUserToTaskStep ==
  ASSUME OwnerInv, NEW w \in Worker, NEW u \in User, NEW t \in Task, NEW v \in User,
         AddUserToTask(w, u, t, v)
  PROVE  OwnerInv'
<1>1. <<Tell("task_invite", v, 0)>> \in Seq(Notice)  BY TellTyped DEF NoticeKind
<1>   QED  BY <1>1, AssignStep DEF AddUserToTask

LEMMA UpdateMyTaskStep ==
  ASSUME OwnerInv, NEW w \in Worker, NEW u \in User, NEW t \in Task, NEW title \in Title,
         NEW c \in Status, NEW off \in BOOLEAN, UpdateMyTask(w, u, t, title, c, off)
  PROVE  OwnerInv'
<1> DEFINE titles == {<<t, title>>} \ {<<t, task[t].title>>}
           statuses == {<<t, c>>} \ {<<t, task[t].status>>}
           offs == IF off THEN {t} ELSE {}
           out == {<<t, "UPDATED">>}
           p == [NoWrites EXCEPT !.tskTitle = titles, !.tskStatus = statuses,
                                 !.tskOff = offs, !.out = out]
           s == [Idle EXCEPT !.writes = p]
<1>1. Begin(w, "commit", s) /\ task[t].state = "active"
  BY DEF UpdateMyTask, TaskAccess, TaskAccessVia, ActiveTask
<1>2. /\ titles \in SUBSET (Task \X Title) /\ statuses \in SUBSET (Task \X Status)
      /\ offs \in SUBSET Task /\ out \in SUBSET ((Group \cup Task) \X EventType)
      /\ \A x \in titles : x[1] = t
      /\ \A x \in statuses : x[1] = t
      /\ \A x \in offs : x = t
  BY DEF EventType
<1> HIDE DEF titles, statuses, offs, out
<1>3. p \in Writes  BY <1>2, IdleInOrder, ZenonT(60) DEF Writes
<1>4. /\ p.tskTitle = titles /\ p.tskStatus = statuses /\ p.tskOff = offs
      /\ p.roleIns = {} /\ p.grpOff = {} /\ p.grpNew = {} /\ p.grpName = {}
      /\ p.grpPolicy = {} /\ p.reqSet = {}
  BY DEF NoWrites
<1> HIDE DEF p
<1>5. PlanSound(p, group, task, joinRequest) /\ IdsFree(p)
  BY <1>1, <1>2, <1>4 DEF PlanSound, IdsFree
<1>6. s \in Tx /\ s.writes = p  BY <1>3, WritesTx
<1>   QED  BY <1>1, <1>5, <1>6, StageStep

LEMMA DeleteMyTaskStep ==
  ASSUME OwnerInv, NEW w \in Worker, NEW u \in User, NEW t \in Task, DeleteMyTask(w, u, t)
  PROVE  OwnerInv'
<1> DEFINE offs == {t}
           out == {<<t, "DELETED">>}
           p == [NoWrites EXCEPT !.tskOff = offs, !.out = out]
           s == [Idle EXCEPT !.writes = p]
<1>1. Begin(w, "commit", s) /\ task[t].state = "active"
  BY DEF DeleteMyTask, TaskAccess, TaskAccessVia, ActiveTask
<1>2. /\ offs \in SUBSET Task /\ out \in SUBSET ((Group \cup Task) \X EventType)
      /\ \A x \in offs : x = t
  BY DEF EventType
<1> HIDE DEF offs, out
<1>3. p \in Writes  BY <1>2, IdleInOrder, ZenonT(60) DEF Writes
<1>4. /\ p.tskOff = offs /\ p.tskTitle = {} /\ p.tskStatus = {} /\ p.roleIns = {}
      /\ p.grpOff = {} /\ p.grpNew = {} /\ p.grpName = {} /\ p.grpPolicy = {}
      /\ p.reqSet = {}
  BY DEF NoWrites
<1> HIDE DEF p
<1>5. PlanSound(p, group, task, joinRequest) /\ IdsFree(p)
  BY <1>1, <1>2, <1>4 DEF PlanSound, IdsFree
<1>6. s \in Tx /\ s.writes = p  BY <1>3, WritesTx
<1>   QED  BY <1>1, <1>5, <1>6, StageStep

LEMMA UpdateStatusTaskStep ==
  ASSUME OwnerInv, NEW w \in Worker, NEW u \in User, NEW t \in Task, NEW c \in Status,
         UpdateStatusTask(w, u, t, c)
  PROVE  OwnerInv'
<1> DEFINE statuses == {<<t, c>>}
           out == {<<t, "UPDATED">>}
           p == [NoWrites EXCEPT !.tskStatus = statuses, !.out = out]
           s == [Idle EXCEPT !.writes = p]
<1>1. Begin(w, "commit", s) /\ task[t].state = "active"
  BY DEF UpdateStatusTask, ActiveTask
<1>2. /\ statuses \in SUBSET (Task \X Status)
      /\ out \in SUBSET ((Group \cup Task) \X EventType)
      /\ \A x \in statuses : x[1] = t
  BY DEF EventType
<1> HIDE DEF statuses, out
<1>3. p \in Writes  BY <1>2, IdleInOrder, ZenonT(60) DEF Writes
<1>4. /\ p.tskStatus = statuses /\ p.tskOff = {} /\ p.tskTitle = {} /\ p.roleIns = {}
      /\ p.grpOff = {} /\ p.grpNew = {} /\ p.grpName = {} /\ p.grpPolicy = {}
      /\ p.reqSet = {}
  BY DEF NoWrites
<1> HIDE DEF p
<1>5. PlanSound(p, group, task, joinRequest) /\ IdsFree(p)
  BY <1>1, <1>2, <1>4 DEF PlanSound, IdsFree
<1>6. s \in Tx /\ s.writes = p  BY <1>3, WritesTx
<1>   QED  BY <1>1, <1>5, <1>6, StageStep

LEMMA LeaveTaskStep ==
  ASSUME OwnerInv, NEW w \in Worker, NEW t \in Task, NEW v \in User, LeaveTask(w, t, v)
  PROVE  OwnerInv'
<1> DEFINE gone == {<<v, t>>}
           p == [NoWrites EXCEPT !.asgDel = gone]
           s == [Idle EXCEPT !.subject = v, !.kind = "ASSIGNEE", !.writes = p]
<1>1. Begin(w, "remaining", s)  BY DEF LeaveTask
<1>2. gone \in SUBSET (User \X Task)  OBVIOUS
<1> HIDE DEF gone
<1>3. p \in Writes /\ Quiet(p)  BY <1>2, IdleInOrder DEF Writes, Quiet, NoWrites
<1> HIDE DEF p
<1>4. s \in Tx /\ s.writes = p  BY <1>3, LeavingTx DEF RoleKind
<1>   QED  BY <1>1, <1>3, <1>4, QuietPlan, StageStep

LEMMA JoinTaskStep ==
  ASSUME OwnerInv, NEW w \in Worker, NEW u \in User, NEW t \in Task, JoinTask(w, u, t)
  PROVE  OwnerInv'
<1>1. task[t].group \in Group  BY ActiveTaskGroup DEF JoinTask, OwnerInv
<1>2. group[task[t].group].admin \in User  BY <1>1, ActiveOwner DEF JoinTask, OwnerInv
<1>3. CASE JoinTaskOpen(w, u, t)
  <2>1. <<>> \in Seq(Notice)  OBVIOUS
  <2>   QED  BY <1>3, <2>1, AssignStep DEF JoinTaskOpen
<1>4. CASE JoinTaskByRequest(w, u, t)
  BY <1>1, <1>2, <1>4, AskStep DEF JoinTaskByRequest
<1>   QED  BY <1>3, <1>4 DEF JoinTask

LEMMA ApproveTaskJoinRequestStep ==
  ASSUME OwnerInv, NEW w \in Worker, NEW u \in User, NEW r \in 1..Len(joinRequest),
         ApproveTaskJoinRequest(w, u, r)
  PROVE  OwnerInv'
<1> DEFINE v == joinRequest[r].user
           t == joinRequest[r].task
           in == {<<v, task[t].group>>} \ membership
           asg == {<<v, t>>}
           set == {<<r, "APPROVED">>}
           es == (IF in = {} THEN <<>> ELSE <<Tell("group_join", v, 0)>>)
                   \o <<Tell("approved", v, r)>>
           p == [NoWrites EXCEPT !.reqSet = set, !.memIns = in, !.asgIns = asg]
           s == [Idle EXCEPT !.writes = p, !.events = es]
<1>1. Begin(w, "commit", s)  BY DEF ApproveTaskJoinRequest
<1>2. joinRequest[r] \in Request /\ r \in Nat  BY DEF OwnerInv, TypeOK
<1>3. v \in User /\ t \in Task /\ task[t].group \in Group
  <2>1. v \in User /\ t \in Task
    BY <1>2 DEF Request, ApproveTaskJoinRequest, OpenTaskRequest
  <2>   QED
    BY <2>1, ActiveTaskGroup DEF OwnerInv, ApproveTaskJoinRequest, OpenTaskRequest
<1> HIDE DEF v, t
<1>4. /\ in \in SUBSET (User \X Group) /\ asg \in SUBSET (User \X Task)
      /\ set \in SUBSET (Nat \X Decision) /\ \A x \in set : x[1] = r
  BY <1>2, <1>3 DEF Decision
<1>5. es \in Seq(Notice)
  <2>1. /\ <<Tell("group_join", v, 0)>> \in Seq(Notice)
        /\ <<Tell("approved", v, r)>> \in Seq(Notice)
    BY <1>2, <1>3, TellTyped DEF NoticeKind
  <2>2. (IF in = {} THEN <<>> ELSE <<Tell("group_join", v, 0)>>) \in Seq(Notice)
    BY <2>1
  <2>   QED  BY <2>1, <2>2
<1> HIDE DEF in, asg, set, es
<1>6. p \in Writes  BY <1>4, IdleInOrder, ZenonT(60) DEF Writes
<1>7. /\ p.reqSet = set /\ p.roleIns = {} /\ p.grpNew = {}
      /\ p.grpOff = {} /\ p.grpName = {} /\ p.grpPolicy = {}
      /\ p.tskOff = {} /\ p.tskTitle = {} /\ p.tskStatus = {}
  BY DEF NoWrites
<1> HIDE DEF p
<1>8. PlanSound(p, group, task, joinRequest) /\ IdsFree(p)
  BY <1>4, <1>7 DEF PlanSound, IdsFree
<1>9. s \in Tx /\ s.writes = p  BY <1>5, <1>6, TellingTx
<1>   QED  BY <1>1, <1>8, <1>9, StageStep

LEMMA TaskRequestStep ==
  ASSUME OwnerInv, NEW w \in Worker, TaskStep(w)
  PROVE  OwnerInv'
<1>1. CASE \E u \in User, t \in Task : \E g \in Group, title \in Title :
             CreateTaskForGroup(w, u, g, t, title)
  BY <1>1, CreateTaskForGroupStep
<1>2. CASE \E u \in User, t \in Task : \E title \in Title, c \in Status, off \in BOOLEAN :
             UpdateMyTask(w, u, t, title, c, off)
  BY <1>2, UpdateMyTaskStep
<1>3. CASE \E u \in User, t \in Task : DeleteMyTask(w, u, t)
  BY <1>3, DeleteMyTaskStep
<1>4. CASE \E u \in User, t \in Task : \E c \in Status : UpdateStatusTask(w, u, t, c)
  BY <1>4, UpdateStatusTaskStep
<1>5. CASE \E u \in User, t \in Task, v \in User : AddUserToTask(w, u, t, v)
  BY <1>5, AddUserToTaskStep
<1>6. CASE \E u \in User, t \in Task, v \in User : RemoveUserFromTask(w, u, t, v)
  BY <1>6, LeaveTaskStep DEF RemoveUserFromTask
<1>7. CASE \E u \in User, t \in Task : ExitTask(w, u, t)
  BY <1>7, LeaveTaskStep DEF ExitTask
<1>8. CASE \E u \in User, t \in Task : JoinTask(w, u, t)
  BY <1>8, JoinTaskStep
<1>9. CASE \E u \in User : \E r \in 1..Len(joinRequest) : ApproveTaskJoinRequest(w, u, r)
  BY <1>9, ApproveTaskJoinRequestStep
<1>10. CASE \E u \in User : \E r \in 1..Len(joinRequest) : RejectTaskJoinRequest(w, u, r)
  BY <1>10, RejectStep DEF RejectTaskJoinRequest
<1>11. CASE FlushApproval(w) \/ InnerCheck(w) \/ InnerCommit(w)
  BY <1>11, FlushApprovalStep, InnerCheckStep, InnerCommitStep
<1>   QED
  BY <1>1, <1>2, <1>3, <1>4, <1>5, <1>6, <1>7, <1>8, <1>9, <1>10, <1>11 DEF TaskStep

-----------------------------------------------------------------------------
(* The theorems *)

\* The empty database with idle workers is in order.
LEMMA InitInOrder == Init => OwnerInv
<1> SUFFICES ASSUME Init PROVE OwnerInv  OBVIOUS
<1>1. \A w \in Worker : tx[w] = Idle  BY DEF Init
<1>2. Idle.writes = NoWrites /\ Idle.phase = "idle" /\ NoWrites.grpNew = {}
  BY DEF Idle, NoWrites
<1>3. TypeOK  BY IdleInOrder DEF Init, TypeOK, GroupRow, TaskRow
<1>4. AdminRoleSound  BY DEF Init, AdminRoleSound, HasRole
<1>5. PlansSound  BY <1>1, <1>2, IdleInOrder DEF PlansSound
<1>6. IdsDistinct  BY <1>1, <1>2 DEF IdsDistinct
<1>7. NestedSound  BY <1>1, <1>2 DEF NestedSound
<1>   QED  BY <1>3, <1>4, <1>5, <1>6, <1>7 DEF OwnerInv

\* Every request and every step of the unit of work keeps OwnerInv.
LEMMA StepInOrder == OwnerInv /\ [Next]_vars => OwnerInv'
<1> SUFFICES ASSUME OwnerInv, [Next]_vars PROVE OwnerInv'  OBVIOUS
<1>1. CASE Next
  BY <1>1, MachineryStep, GroupRequestStep, TaskRequestStep DEF Next
<1>2. CASE UNCHANGED vars
  BY <1>2 DEF vars, tables, OwnerInv, TypeOK, AdminRoleSound, HasRole, MyGroup, ActiveGroup,
              PlansSound, IdsDistinct, NestedSound
<1>   QED  BY <1>1, <1>2

\* OwnerInv holds in every reachable state, however requests overlap.
THEOREM OwnerInvariant == Spec => []OwnerInv
  BY InitInOrder, StepInOrder, PTL DEF Spec

\* The tables and the units of work keep their types.
THEOREM TypesHold == Spec => []TypeOK
<1>1. OwnerInv => TypeOK  BY DEF OwnerInv
<1>   QED  BY <1>1, OwnerInvariant, PTL

\* A GROUP_ADMIN role always belongs to the owner of an active group: neither
\* the clean-up, nor a second deletion of the group, nor a failure between the
\* steps of a deletion leaves one behind (delete_my_group).
THEOREM NoStrayAdminRole == Spec => []AdminRoleSound
<1>1. OwnerInv => AdminRoleSound  BY DEF OwnerInv
<1>   QED  BY <1>1, OwnerInvariant, PTL

=====
