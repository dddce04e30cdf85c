----------------------------- MODULE LedgerProofs -----------------------------
(***************************************************************************)
(* What a unit of work promises to the outside, for any number of workers, *)
(* users, groups and tasks: its outbox rows say what it did, its           *)
(* notifications are true, an approval delivers, and every commit is one   *)
(* step of GroupLedger.  All four rest on what a plan may contain.         *)
(***************************************************************************)
EXTENDS TaskflowProofs, SequenceTheorems

-----------------------------------------------------------------------------
(* What a plan is *)

\* The outbox rows of a plan are about what the plan does, and about all of it.
Tells(p) ==
  /\ \A g \in Group :
       /\ <<g, "CREATED">> \in p.out <=> \E n \in p.grpNew : n.id = g
       /\ <<g, "DELETED">> \in p.out <=> g \in p.grpOff
  /\ \A t \in Task :
       /\ <<t, "CREATED">> \in p.out <=> \E n \in p.tskNew : n.id = t
       /\ <<t, "DELETED">> \in p.out => t \in p.tskOff
       /\ t \in p.tskOff => <<t, "UPDATED">> \in p.out \/ <<t, "DELETED">> \in p.out

\* A request for a task is a request for the task's group.
Placed(q, tsk) == q.task # None => tsk[q.task].state # "absent" /\ tsk[q.task].group = q.group

\* A plan does one thing to the ledger: it founds a group with its owner as a
\* member, closes one, lets at most one user in, or out, asks, or decides.
Founds(p) ==
  /\ \E n \in [id : Group, admin : User, policy : Policy, name : Name] :
       p.grpNew = {n} /\ p.memIns = {<<n.admin, n.id>>}
  /\ p.grpOff = {} /\ p.memDel = {} /\ p.reqNew = {} /\ p.reqSet = {}
Closes(p) ==
  /\ \E g \in Group : p.grpOff = {g}
  /\ p.grpNew = {} /\ p.memIns = {} /\ p.memDel = {} /\ p.reqNew = {} /\ p.reqSet = {}
Enters(p, grp) ==
  /\ \/ p.memIns = {}
     \/ \E u \in User, g \in Group : p.memIns = {<<u, g>>} /\ grp[g].state # "absent"
  /\ p.grpNew = {} /\ p.grpOff = {} /\ p.memDel = {} /\ p.reqNew = {} /\ p.reqSet = {}
Leaves(p) ==
  /\ \E u \in User, g \in Group : p.memDel = {<<u, g>>}
  /\ p.grpNew = {} /\ p.grpOff = {} /\ p.memIns = {} /\ p.reqNew = {} /\ p.reqSet = {}
Asks(p, grp, tsk) ==
  /\ \E q \in Request : /\ p.reqNew = {q} /\ q.status = "PENDING"
                        /\ grp[q.group].state # "absent" /\ Placed(q, tsk)
  /\ p.grpNew = {} /\ p.grpOff = {} /\ p.memIns = {} /\ p.memDel = {} /\ p.reqSet = {}

\* An approval brings what was asked: the membership, or the assignment with
\* the membership of the task's group where it is missing.
Admits(p, q) ==
  LET member == <<q.user, q.group>> IN
  \/ p.memIns = {member}
  \/ q.task # None /\ p.memIns \subseteq {member} /\ <<q.user, q.task>> \in p.asgIns
Decides(p, reqs) ==
  /\ \E r \in 1..Len(reqs) :
       \/ p.reqSet = {<<r, "REJECTED">>} /\ p.memIns = {}
       \/ p.reqSet = {<<r, "APPROVED">>} /\ Admits(p, reqs[r])
  /\ p.grpNew = {} /\ p.grpOff = {} /\ p.memDel = {} /\ p.reqNew = {}

LedgerPlan(p, grp, tsk, reqs) ==
  \/ Founds(p) \/ Closes(p) \/ Enters(p, grp) \/ Leaves(p)
  \/ Asks(p, grp, tsk) \/ Decides(p, reqs)

\* A task id that was handed out is still unused.
FreshTasks(p, tsk) == \A n \in p.tskNew : tsk[n.id].state = "absent"

PlanKept(p, grp, tsk, reqs) ==
  Tells(p) /\ FreshTasks(p, tsk) /\ LedgerPlan(p, grp, tsk, reqs)

\* A decision a worker is to tell of was made, or the worker is making it; it
\* has nothing staged any more when it tells.
EventsKept(t, reqs) ==
  /\ t.phase = "dispatch" => t.writes = NoWrites
  /\ \A i \in 1..Len(t.events) : t.events[i].kind \in {"approved", "rejected"} =>
       /\ t.events[i].req \in 1..Len(reqs)
       /\ \/ reqs[t.events[i].req].status # "PENDING"
          \/ \E x \in t.writes.reqSet : x[1] = t.events[i].req

WorkerKept(t, grp, tsk, reqs) == PlanKept(t.writes, grp, tsk, reqs) /\ EventsKept(t, reqs)

WorkersKept == \A w \in Worker : WorkerKept(tx[w], group, task, joinRequest)
TaskIdsDistinct ==
  \A v, w \in Worker : \A m \in tx[v].writes.tskNew, n \in tx[w].writes.tskNew :
    v # w => m.id # n.id
RequestsPlaced == \A r \in 1..Len(joinRequest) : Placed(joinRequest[r], task)

LedgerInv == OwnerInv /\ WorkersKept /\ TaskIdsDistinct /\ RequestsPlaced /\ OutboxFaithful

-----------------------------------------------------------------------------
(* What a commit does to the rows, in the terms of the ledger *)

\* A task that exists keeps its group and is withdrawn only by a plan that
\* says so; a new one is there, and active.
LEMMA TaskAfterState ==
  ASSUME TypeOK, NEW p \in Writes, PlanSound(p, group, task, joinRequest),
         FreshTasks(p, task), NEW t \in Task
  PROVE  /\ task[t].state # "absent" =>
              /\ TaskAfter(t, p).state = IF t \in p.tskOff THEN "inactive" ELSE task[t].state
              /\ TaskAfter(t, p).group = task[t].group
         /\ ~(\E n \in p.tskNew : n.id = t) /\ task[t].state = "absent" =>
              TaskAfter(t, p).state = "absent"
         /\ (\E n \in p.tskNew : n.id = t) =>
              task[t].state = "absent" /\ TaskAfter(t, p).state = "active"
<1>0. /\ task[t] \in TaskRow
      /\ task[t] = [state |-> task[t].state, group |-> task[t].group,
                    title |-> task[t].title, status |-> task[t].status]
  BY DEF TypeOK, TaskRow, AbsentTask
<1>1. CASE \E n \in p.tskNew : n.id = t
  <2>1. TaskAfter(t, p).state = "active"  BY <1>1 DEF TaskAfter
  <2>2. task[t].state = "absent"  BY <1>1 DEF FreshTasks
  <2>   QED  BY <1>1, <2>1, <2>2
<1>2. CASE ~\E n \in p.tskNew : n.id = t
  <2> DEFINE s == IF t \in p.tskOff THEN "inactive" ELSE task[t].state
             m == Updated(p.tskTitle, t, task[t].title)
             c == Updated(p.tskStatus, t, task[t].status)
  <2>1. TaskAfter(t, p) = [state |-> s, group |-> task[t].group, title |-> m, status |-> c]
    <3>1. TaskAfter(t, p) = [task[t] EXCEPT !.state = s, !.title = m, !.status = c]
      BY <1>0, <1>2 DEF TaskAfter
    <3> HIDE DEF s, c, m
    <3>   QED  BY <1>0, <3>1
  <2>2. TaskAfter(t, p).state = s /\ TaskAfter(t, p).group = task[t].group
    <3> HIDE DEF s, c, m
    <3>   QED  BY <2>1
  <2>3. task[t].state = "absent" => s = "absent"  BY DEF PlanSound
  <2> HIDE DEF m, c
  <2>   QED  BY <1>2, <2>2, <2>3
<1>   QED  BY <1>1, <1>2

\* A decided request keeps everything but its status.
LEMMA DecidedRow ==
  ASSUME TypeOK, NEW p \in Writes, NEW r \in 1..Len(joinRequest)
  PROVE  RequestsAfter(p)[r] =
           [joinRequest[r] EXCEPT !.status = Updated(p.reqSet, r, joinRequest[r].status)]
<1> DEFINE decided == [i \in 1..Len(joinRequest) |->
                         [joinRequest[i] EXCEPT !.status = Updated(p.reqSet, i, @)]]
<1>1. joinRequest \in Seq(Request) /\ Len(joinRequest) \in Nat  BY DEF TypeOK
<1>2. decided[r] = [joinRequest[r] EXCEPT !.status = Updated(p.reqSet, r, joinRequest[r].status)]
  OBVIOUS
<1>3. CASE p.reqNew = {}
  <2>1. RequestsAfter(p) = decided  BY <1>3 DEF RequestsAfter
  <2> HIDE DEF decided
  <2>   QED  BY <1>2, <2>1
<1>4. CASE p.reqNew # {}
  <2> DEFINE q == CHOOSE q \in p.reqNew : TRUE
  <2>1. RequestsAfter(p) = Append(decided, q)  BY <1>4 DEF RequestsAfter
  <2>2. decided \in Seq(Request) /\ Len(decided) = Len(joinRequest)
    <3>1. \A i \in 1..Len(joinRequest) : decided[i] \in Request
      <4> SUFFICES ASSUME NEW i \in 1..Len(joinRequest) PROVE decided[i] \in Request
        OBVIOUS
      <4>1. joinRequest[i] \in Request  BY <1>1
      <4>2. Updated(p.reqSet, i, joinRequest[i].status) \in Decision
        <5>1. p.reqSet \in SUBSET (Nat \X Decision)  BY DEF Writes
        <5>2. joinRequest[i].status \in Decision  BY <4>1 DEF Request
        <5>   QED  BY <5>1, <5>2, UpdatedType
      <4>3. decided[i] = [joinRequest[i] EXCEPT !.status = Updated(p.reqSet, i, @)]
        OBVIOUS
      <4> HIDE DEF decided
      <4>   QED  BY <4>1, <4>2, <4>3 DEF Request
    <3>   QED  BY <1>1, <3>1
  <2>3. q \in Request  BY <1>4 DEF Writes
  <2> HIDE DEF decided, q
  <2>4. Append(decided, q)[r] = decided[r]  BY <1>1, <2>2, <2>3
  <2>   QED  BY <1>2, <2>1, <2>4
<1>   QED  BY <1>3, <1>4

LEMMA RequestKeeps ==
  ASSUME TypeOK, NEW p \in Writes, Land(p), NEW r \in 1..Len(joinRequest)
  PROVE  /\ r \in 1..Len(joinRequest')
         /\ joinRequest'[r].user = joinRequest[r].user
         /\ joinRequest'[r].group = joinRequest[r].group
         /\ joinRequest'[r].task = joinRequest[r].task
         /\ joinRequest'[r].status = Updated(p.reqSet, r, joinRequest[r].status)
<1>1. joinRequest' = RequestsAfter(p)  BY DEF Land
<1>2. Len(joinRequest) \in Nat /\ Len(joinRequest') \in Nat /\ joinRequest[r] \in Request
  BY <1>1, RequestsAfterRows DEF TypeOK
<1>3. r \in 1..Len(joinRequest')  BY <1>1, <1>2, RequestsAfterRows
<1>4. joinRequest'[r] =
        [joinRequest[r] EXCEPT !.status = Updated(p.reqSet, r, joinRequest[r].status)]
  BY <1>1, DecidedRow
<1>   QED  BY <1>2, <1>3, <1>4 DEF Request

\* Groups and tasks come into being and go exactly by what the plan says.
LEMMA LandStates ==
  ASSUME TypeOK, NEW p \in Writes, PlanSound(p, group, task, joinRequest),
         FreshTasks(p, task), Land(p)
  PROVE  /\ \A g \in Group :
              /\ group'[g].state # "absent" <=>
                   group[g].state # "absent" \/ \E n \in p.grpNew : n.id = g
              /\ group'[g].state = "inactive" <=> group[g].state = "inactive" \/ g \in p.grpOff
              /\ group[g].state # "absent" => group'[g].admin = group[g].admin
         /\ \A t \in Task :
              /\ task'[t].state # "absent" <=>
                   task[t].state # "absent" \/ \E n \in p.tskNew : n.id = t
              /\ task'[t].state = "inactive" <=> task[t].state = "inactive" \/ t \in p.tskOff
              /\ task[t].state # "absent" => task'[t].group = task[t].group
<1>1. ASSUME NEW g \in Group
      PROVE  /\ group'[g].state # "absent" <=>
                   group[g].state # "absent" \/ \E n \in p.grpNew : n.id = g
             /\ group'[g].state = "inactive" <=> group[g].state = "inactive" \/ g \in p.grpOff
             /\ group[g].state # "absent" => group'[g].admin = group[g].admin
  <2>1. group'[g] = GroupAfter(g, p)  BY DEF Land
  <2>2. \A n \in p.grpNew : group[n.id].state = "absent"  BY DEF PlanSound
  <2>3. g \in p.grpOff => group[g].state # "absent"  BY DEF PlanSound
  <2>   QED  BY <2>1, <2>2, <2>3, GroupAfterRow
<1>2. ASSUME NEW t \in Task
      PROVE  /\ task'[t].state # "absent" <=>
                   task[t].state # "absent" \/ \E n \in p.tskNew : n.id = t
             /\ task'[t].state = "inactive" <=> task[t].state = "inactive" \/ t \in p.tskOff
             /\ task[t].state # "absent" => task'[t].group = task[t].group
  <2>1. task'[t] = TaskAfter(t, p)  BY DEF Land
  <2>2. t \in p.tskOff => task[t].state # "absent"  BY DEF PlanSound
  <2>   QED  BY <2>1, <2>2, TaskAfterState
<1>   QED  BY <1>1, <1>2

-----------------------------------------------------------------------------
(* A kept plan lands *)

\* The outbox stays faithful.
LEMMA LandOutbox ==
  ASSUME TypeOK, OutboxFaithful, NEW p \in Writes, PlanSound(p, group, task, joinRequest),
         FreshTasks(p, task), Tells(p), Land(p)
  PROVE  OutboxFaithful'
<1>1. \A e \in Group \cup Task, k \in EventType :
        k \in outbox'[e] <=> k \in outbox[e] \/ <<e, k>> \in p.out
  BY DEF Land
<1>2. ASSUME NEW g \in Group
      PROVE  /\ "CREATED" \in outbox'[g] <=> group'[g].state # "absent"
             /\ "DELETED" \in outbox'[g] <=> group'[g].state = "inactive"
  <2>1. \A k \in EventType : k \in outbox'[g] <=> k \in outbox[g] \/ <<g, k>> \in p.out
    BY <1>1
  <2>2. /\ "CREATED" \in outbox[g] <=> group[g].state # "absent"
        /\ "DELETED" \in outbox[g] <=> group[g].state = "inactive"
    BY DEF OutboxFaithful
  <2>3. /\ <<g, "CREATED">> \in p.out <=> \E n \in p.grpNew : n.id = g
        /\ <<g, "DELETED">> \in p.out <=> g \in p.grpOff
    BY DEF Tells
  <2>   QED  BY <2>1, <2>2, <2>3, LandStates DEF EventType
<1>3. ASSUME NEW t \in Task
      PROVE  /\ "CREATED" \in outbox'[t] <=> task'[t].state # "absent"
             /\ "DELETED" \in outbox'[t] => task'[t].state = "inactive"
             /\ task'[t].state = "inactive" => outbox'[t] \cap {"UPDATED", "DELETED"} # {}
  <2>1. \A k \in EventType : k \in outbox'[t] <=> k \in outbox[t] \/ <<t, k>> \in p.out
    BY <1>1
  <2>2. /\ "CREATED" \in outbox[t] <=> task[t].state # "absent"
        /\ "DELETED" \in outbox[t] => task[t].state = "inactive"
        /\ task[t].state = "inactive" => outbox[t] \cap {"UPDATED", "DELETED"} # {}
    BY DEF OutboxFaithful
  <2>3. /\ <<t, "CREATED">> \in p.out <=> \E n \in p.tskNew : n.id = t
        /\ <<t, "DELETED">> \in p.out => t \in p.tskOff
        /\ t \in p.tskOff => <<t, "UPDATED">> \in p.out \/ <<t, "DELETED">> \in p.out
    BY DEF Tells
  <2>   QED  BY <2>1, <2>2, <2>3, LandStates DEF EventType
<1>   QED  BY <1>2, <1>3 DEF OutboxFaithful

\* No plan takes a decision back, and none makes a request undecided.
LEMMA DecisionsOnly ==
  ASSUME NEW p, LedgerPlan(p, group, task, joinRequest)
  PROVE  \A x \in p.reqSet : x[2] \in {"APPROVED", "REJECTED"}
  BY DEF LedgerPlan, Founds, Closes, Enters, Leaves, Asks, Decides

LEMMA StaysDecided ==
  ASSUME TypeOK, NEW p \in Writes, LedgerPlan(p, group, task, joinRequest), Land(p),
         NEW r \in 1..Len(joinRequest),
         joinRequest[r].status # "PENDING" \/ \E x \in p.reqSet : x[1] = r
  PROVE  joinRequest'[r].status # "PENDING"
<1>1. joinRequest'[r].status = Updated(p.reqSet, r, joinRequest[r].status)
  BY RequestKeeps
<1>   QED  BY <1>1, DecisionsOnly DEF Updated

\* What another worker has staged, and what it is to tell, stays as it was.
LEMMA LandKept ==
  ASSUME TypeOK, NEW p \in Writes, PlanSound(p, group, task, joinRequest),
         PlanKept(p, group, task, joinRequest), Land(p),
         NEW t \in Tx, WorkerKept(t, group, task, joinRequest),
         \A m \in p.tskNew, n \in t.writes.tskNew : m.id # n.id
  PROVE  WorkerKept(t, group', task', joinRequest')
<1> DEFINE q == t.writes
<1>1. q \in Writes /\ PlanKept(q, group, task, joinRequest) /\ EventsKept(t, joinRequest)
  BY DEF WorkerKept, Tx
<1> HIDE DEF q
<1>2. \A g \in Group : group[g].state # "absent" => group'[g].state # "absent"
  BY LandStates DEF PlanKept
<1>3. \A s \in Task : task[s].state # "absent" =>
        task'[s].state # "absent" /\ task'[s].group = task[s].group
  BY LandStates DEF PlanKept
<1>4. FreshTasks(q, task')
  <2> SUFFICES ASSUME NEW n \in q.tskNew PROVE task'[n.id].state = "absent"
    BY DEF FreshTasks
  <2>1. n.id \in Task  BY <1>1 DEF Writes
  <2>2. task[n.id].state = "absent"  BY <1>1 DEF PlanKept, FreshTasks
  <2>3. ~\E m \in p.tskNew : m.id = n.id  BY DEF q
  <2>   QED  BY <2>1, <2>2, <2>3, LandStates DEF PlanKept
<1>5. LedgerPlan(q, group', task', joinRequest')
  <2>1. CASE Founds(q) \/ Closes(q) \/ Leaves(q)  BY <2>1 DEF LedgerPlan
  <2>2. CASE Enters(q, group)
    <3>1. Enters(q, group')  BY <2>2, <1>2 DEF Enters
    <3>   QED  BY <3>1 DEF LedgerPlan
  <2>3. CASE Asks(q, group, task)
    <3>1. PICK a \in Request : /\ q.reqNew = {a} /\ a.status = "PENDING"
                               /\ group[a.group].state # "absent" /\ Placed(a, task)
      BY <2>3 DEF Asks
    <3>2. a.group \in Group /\ a.task \in Task \cup {None}  BY DEF Request
    <3>3. group'[a.group].state # "absent" /\ Placed(a, task')
      BY <3>1, <3>2, <1>2, <1>3 DEF Placed
    <3>4. Asks(q, group', task')  BY <2>3, <3>1, <3>3 DEF Asks
    <3>   QED  BY <3>4 DEF LedgerPlan
  <2>4. CASE Decides(q, joinRequest)
    <3>1. PICK r \in 1..Len(joinRequest) :
            \/ q.reqSet = {<<r, "REJECTED">>} /\ q.memIns = {}
            \/ q.reqSet = {<<r, "APPROVED">>} /\ Admits(q, joinRequest[r])
      BY <2>4 DEF Decides
    <3>2. r \in 1..Len(joinRequest')  BY RequestKeeps
    <3>3. Admits(q, joinRequest[r]) => Admits(q, joinRequest'[r])
      BY RequestKeeps DEF Admits
    <3>4. Decides(q, joinRequest')  BY <2>4, <3>1, <3>2, <3>3 DEF Decides
    <3>   QED  BY <3>4 DEF LedgerPlan
  <2>   QED  BY <1>1, <2>1, <2>2, <2>3, <2>4 DEF PlanKept, LedgerPlan
<1>6. EventsKept(t, joinRequest')
  <2>1. t.phase = "dispatch" => t.writes = NoWrites  BY <1>1 DEF EventsKept
  <2>2. ASSUME NEW i \in 1..Len(t.events), t.events[i].kind \in {"approved", "rejected"}
        PROVE  /\ t.events[i].req \in 1..Len(joinRequest')
               /\ \/ joinRequest'[t.events[i].req].status # "PENDING"
                  \/ \E x \in t.writes.reqSet : x[1] = t.events[i].req
    <3>1. /\ t.events[i].req \in 1..Len(joinRequest)
          /\ \/ joinRequest[t.events[i].req].status # "PENDING"
             \/ \E x \in t.writes.reqSet : x[1] = t.events[i].req
      BY <1>1, <2>2 DEF EventsKept
    <3>2. LedgerPlan(p, group, task, joinRequest)  BY DEF PlanKept
    <3>   QED  BY <3>1, <3>2, RequestKeeps, StaysDecided
  <2>   QED  BY <2>1, <2>2 DEF EventsKept
<1>   QED  BY <1>1, <1>4, <1>5, <1>6 DEF WorkerKept, PlanKept, q

\* The table of requests has one row more, or as many as before.
LEMMA RequestsGrow ==
  ASSUME TypeOK, NEW p, Land(p)
  PROVE  /\ p.reqNew = {} => Len(joinRequest') = Len(joinRequest)
         /\ \A a : p.reqNew = {a} =>
              /\ Len(joinRequest') = Len(joinRequest) + 1
              /\ joinRequest'[Len(joinRequest) + 1] = a
<1> DEFINE decided == [i \in 1..Len(joinRequest) |->
                         [joinRequest[i] EXCEPT !.status = Updated(p.reqSet, i, @)]]
<1>1. Len(joinRequest) \in Nat /\ joinRequest \in Seq(Request)  BY DEF TypeOK
<1>2. Len(decided) = Len(joinRequest)  BY <1>1
<1>3. CASE p.reqNew = {}
  <2>1. joinRequest' = decided  BY <1>3 DEF Land, RequestsAfter
  <2> HIDE DEF decided
  <2>   QED  BY <1>2, <1>3, <2>1
<1>4. ASSUME NEW a, p.reqNew = {a}
      PROVE  /\ Len(joinRequest') = Len(joinRequest) + 1
             /\ joinRequest'[Len(joinRequest) + 1] = a
  <2>1. (CHOOSE q \in p.reqNew : TRUE) = a  BY <1>4
  <2>2. joinRequest' = Append(decided, a)  BY <1>4, <2>1 DEF Land, RequestsAfter
  <2>3. \E S : decided \in Seq(S)
    <3> DEFINE S == {decided[i] : i \in 1..Len(joinRequest)}
    <3>1. decided \in [1..Len(joinRequest) -> S]  OBVIOUS
    <3> HIDE DEF decided, S
    <3>2. decided \in Seq(S)  BY <1>1, <3>1
    <3>   QED  BY <3>2
  <2> HIDE DEF decided
  <2>   QED  BY <1>1, <1>2, <2>2, <2>3
<1>   QED  BY <1>3, <1>4

\* A request for a task stays placed, a new one is placed by its plan.
LEMMA LandPlaced ==
  ASSUME TypeOK, RequestsPlaced, NEW p \in Writes, PlanSound(p, group, task, joinRequest),
         PlanKept(p, group, task, joinRequest), Land(p)
  PROVE  RequestsPlaced'
<1>1. \A s \in Task : task[s].state # "absent" =>
        task'[s].state # "absent" /\ task'[s].group = task[s].group
  BY LandStates DEF PlanKept
<1>2. Len(joinRequest) \in Nat /\ joinRequest \in Seq(Request)  BY DEF TypeOK
<1>3. ASSUME NEW q \in Request, Placed(q, task) PROVE Placed(q, task')
  BY <1>1, <1>3 DEF Placed, Request
<1>4. ASSUME NEW r \in 1..Len(joinRequest) PROVE Placed(joinRequest'[r], task')
  <2>1. joinRequest[r] \in Request /\ Placed(joinRequest[r], task)
    BY <1>2 DEF RequestsPlaced
  <2>2. Placed(joinRequest[r], task')  BY <1>3, <2>1
  <2>   QED  BY <2>2, RequestKeeps DEF Placed
<1>5. CASE p.reqNew = {}
  <2>1. Len(joinRequest') = Len(joinRequest)  BY <1>5, RequestsGrow
  <2>   QED  BY <1>4, <2>1 DEF RequestsPlaced
<1>6. CASE p.reqNew # {}
  <2>1. Asks(p, group, task)
    BY <1>6 DEF PlanKept, LedgerPlan, Founds, Closes, Enters, Leaves, Decides
  <2>2. PICK a \in Request : p.reqNew = {a} /\ Placed(a, task)  BY <2>1 DEF Asks
  <2>3. Placed(a, task')  BY <1>3, <2>2
  <2>5. Len(joinRequest') = Len(joinRequest) + 1 /\ joinRequest'[Len(joinRequest) + 1] = a
    BY <2>2, RequestsGrow
  <2>6. \A r \in 1..Len(joinRequest') : r \in 1..Len(joinRequest) \/ r = Len(joinRequest) + 1
    BY <1>2, <2>5
  <2>   QED  BY <1>4, <2>3, <2>5, <2>6 DEF RequestsPlaced
<1>   QED  BY <1>5, <1>6

-----------------------------------------------------------------------------
(* The steps of the unit of work *)

\* A plan that hands out no task id the other workers hold.
TaskIdsFree(p) == \A n \in p.tskNew : \A v \in Worker : \A m \in tx[v].writes.tskNew : m.id # n.id

LEMMA LedgerWorker ==
  ASSUME LedgerInv, NEW w \in Worker
  PROVE  /\ OwnerInv /\ TypeOK /\ tx \in [Worker -> Tx] /\ tx[w] \in Tx /\ tx[w].writes \in Writes
         /\ PlanSound(tx[w].writes, group, task, joinRequest)
         /\ WorkerKept(tx[w], group, task, joinRequest)
         /\ PlanKept(tx[w].writes, group, task, joinRequest)
         /\ EventsKept(tx[w], joinRequest)
         /\ \A v \in Worker \ {w} : \A m \in tx[v].writes.tskNew, n \in tx[w].writes.tskNew :
              m.id # n.id
  BY WorkerFacts DEF LedgerInv, OwnerInv, WorkersKept, WorkerKept, TaskIdsDistinct

\* A worker with nothing staged and nothing to tell.
LEMMA NothingKept ==
  /\ \A grp, tsk, reqs : PlanKept(NoWrites, grp, tsk, reqs)
  /\ \A grp, tsk, reqs : WorkerKept(Idle, grp, tsk, reqs)
<1>1. /\ NoWrites.tskNew = {} /\ NoWrites.grpNew = {} /\ NoWrites.grpOff = {}
      /\ NoWrites.tskOff = {} /\ NoWrites.out = {} /\ NoWrites.memIns = {}
      /\ NoWrites.memDel = {} /\ NoWrites.reqNew = {} /\ NoWrites.reqSet = {}
  BY DEF NoWrites
<1>2. \A grp, tsk, reqs : PlanKept(NoWrites, grp, tsk, reqs)
  BY <1>1 DEF PlanKept, Tells, FreshTasks, LedgerPlan, Enters
<1>3. Idle.writes = NoWrites /\ Idle.phase = "idle" /\ Len(Idle.events) = 0  BY DEF Idle
<1>   QED  BY <1>2, <1>3 DEF WorkerKept, EventsKept

\* A worker that moves on and leaves the tables alone.
LEMMA OwnStepKept ==
  ASSUME LedgerInv, OwnerInv', UNCHANGED tables, NEW w \in Worker, NEW t,
         tx' = [tx EXCEPT ![w] = t],
         WorkerKept(t, group, task, joinRequest),
         \A v \in Worker \ {w} : \A m \in tx[v].writes.tskNew, n \in t.writes.tskNew : m.id # n.id
  PROVE  LedgerInv'
<1>1. tx'[w] = t /\ \A v \in Worker \ {w} : tx'[v] = tx[v]  BY LedgerWorker
<1>2. WorkersKept'
  <2> SUFFICES ASSUME NEW v \in Worker
               PROVE  WorkerKept(tx'[v], group', task', joinRequest')
    BY DEF WorkersKept
  <2>1. WorkerKept(tx'[v], group, task, joinRequest)  BY <1>1, LedgerWorker
  <2>   QED  BY <2>1 DEF tables
<1>3. TaskIdsDistinct'  BY <1>1 DEF LedgerInv, TaskIdsDistinct
<1>4. RequestsPlaced' /\ OutboxFaithful'
  BY DEF LedgerInv, RequestsPlaced, OutboxFaithful, tables
<1>   QED  BY <1>2, <1>3, <1>4 DEF LedgerInv

\* A worker that goes on without a new task id.
LEMMA SameIdsKept ==
  ASSUME LedgerInv, OwnerInv', UNCHANGED tables, NEW w \in Worker, NEW t,
         tx' = [tx EXCEPT ![w] = t], WorkerKept(t, group, task, joinRequest),
         t.writes.tskNew = tx[w].writes.tskNew
  PROVE  LedgerInv'
<1>1. \A v \in Worker \ {w} : \A m \in tx[v].writes.tskNew, n \in t.writes.tskNew : m.id # n.id
  BY LedgerWorker
<1>   QED  BY <1>1, OwnStepKept

LEMMA RollbackKept ==
  ASSUME LedgerInv, OwnerInv', NEW w \in Worker, Rollback(w)
  PROVE  LedgerInv'
<1>1. Idle.writes.tskNew = {}  BY DEF Idle, NoWrites
<1>   QED  BY <1>1, NothingKept, OwnStepKept DEF Rollback

\* A plan lands, and the worker goes on.
LEMMA LandStepKept ==
  ASSUME LedgerInv, OwnerInv', NEW w \in Worker, NEW p \in Writes, Land(p),
         PlanSound(p, group, task, joinRequest), PlanKept(p, group, task, joinRequest),
         NEW t, tx' = [tx EXCEPT ![w] = t],
         WorkerKept(t, group', task', joinRequest'),
         p.tskNew \subseteq tx[w].writes.tskNew, t.writes.tskNew \subseteq tx[w].writes.tskNew
  PROVE  LedgerInv'
<1>0. TypeOK /\ tx \in [Worker -> Tx]  BY LedgerWorker
<1>1. tx'[w] = t /\ \A v \in Worker \ {w} : tx'[v] = tx[v]  BY <1>0
<1>2. WorkersKept'
  <2> SUFFICES ASSUME NEW v \in Worker
               PROVE  WorkerKept(tx'[v], group', task', joinRequest')
    BY DEF WorkersKept
  <2>1. CASE v = w  BY <1>1, <2>1
  <2>2. CASE v # w
    <3>1. \A m \in p.tskNew, n \in tx[v].writes.tskNew : m.id # n.id
      BY <2>2 DEF LedgerInv, TaskIdsDistinct
    <3>2. tx[v] \in Tx /\ WorkerKept(tx[v], group, task, joinRequest)  BY LedgerWorker
    <3>   QED  BY <1>0, <1>1, <2>2, <3>1, <3>2, LandKept
  <2>   QED  BY <2>1, <2>2
<1>3. TaskIdsDistinct'  BY <1>1 DEF LedgerInv, TaskIdsDistinct
<1>4. RequestsPlaced' /\ OutboxFaithful'
  BY <1>0, LandPlaced, LandOutbox DEF LedgerInv, PlanKept
<1>   QED  BY <1>2, <1>3, <1>4 DEF LedgerInv

\* What is left to tell after a commit is true.
LEMMA AfterCommitKept ==
  ASSUME LedgerInv, NEW w \in Worker, Land(tx[w].writes)
  PROVE  WorkerKept(AfterCommit(w), group', task', joinRequest')
<1>1. CASE tx[w].events = <<>>  BY <1>1, NothingKept DEF AfterCommit
<1>2. CASE tx[w].events # <<>>
  <2> DEFINE t == AfterCommit(w)
  <2>1. t.writes = NoWrites /\ t.events = tx[w].events
    BY <1>2 DEF AfterCommit, Idle
  <2> HIDE DEF t
  <2>2. ASSUME NEW i \in 1..Len(t.events), t.events[i].kind \in {"approved", "rejected"}
        PROVE  /\ t.events[i].req \in 1..Len(joinRequest')
               /\ joinRequest'[t.events[i].req].status # "PENDING"
    <3>1. /\ t.events[i].req \in 1..Len(joinRequest)
          /\ \/ joinRequest[t.events[i].req].status # "PENDING"
             \/ \E x \in tx[w].writes.reqSet : x[1] = t.events[i].req
      BY <2>1, <2>2, LedgerWorker DEF EventsKept
    <3>2. TypeOK /\ tx[w].writes \in Writes
          /\ LedgerPlan(tx[w].writes, group, task, joinRequest)
      BY LedgerWorker DEF PlanKept
    <3>   QED  BY <3>1, <3>2, RequestKeeps, StaysDecided
  <2>3. EventsKept(t, joinRequest')  BY <2>1, <2>2 DEF EventsKept
  <2>   QED  BY <2>1, <2>3, NothingKept DEF WorkerKept, t
<1>   QED  BY <1>1, <1>2

LEMMA CommitKept ==
  ASSUME LedgerInv, OwnerInv', NEW w \in Worker, Commit(w)
  PROVE  LedgerInv'
<1>1. CASE Conflict(tx[w].writes)  BY <1>1, RollbackKept DEF Commit
<1>2. CASE ~Conflict(tx[w].writes)
  <2>1. Land(tx[w].writes) /\ tx' = [tx EXCEPT ![w] = AfterCommit(w)]
    BY <1>2 DEF Commit
  <2>2. AfterCommit(w).writes.tskNew = {}
    BY LedgerWorker, AfterCommitInOrder DEF NoWrites
  <2>   QED  BY <2>1, <2>2, LedgerWorker, AfterCommitKept, LandStepKept
<1>   QED  BY <1>1, <1>2

\* Telling one thing less, or moving to another phase with the same plan.
LEMMA DispatchKept ==
  ASSUME LedgerInv, OwnerInv', NEW w \in Worker, Dispatch(w)
  PROVE  LedgerInv'
<1> DEFINE t == [tx[w] EXCEPT !.events = Tail(@)]
<1>1. UNCHANGED tables /\ tx[w].phase = "dispatch"  BY DEF Dispatch
<1>2. CASE Len(tx[w].events) <= 1
  <2>1. tx' = [tx EXCEPT ![w] = Idle]  BY <1>2, LedgerWorker DEF Dispatch
  <2>   QED  BY <1>1, <2>1, RollbackKept DEF Rollback
<1>3. CASE ~(Len(tx[w].events) <= 1)
  <2>1. tx' = [tx EXCEPT ![w] = t]  BY <1>3, LedgerWorker DEF Dispatch
  <2>2. tx[w].events \in Seq(Notice) /\ tx[w].events # <<>>  BY <1>3, LedgerWorker DEF Tx
  <2>3. t.writes = tx[w].writes /\ t.phase = "dispatch" /\ t.events = Tail(tx[w].events)
    BY <1>1, LedgerWorker DEF Tx
  <2> HIDE DEF t
  <2>4. \A i \in 1..Len(t.events) :
          i + 1 \in 1..Len(tx[w].events) /\ t.events[i] = tx[w].events[i + 1]
    BY <2>2, <2>3
  <2>5. WorkerKept(t, group, task, joinRequest)
    <3>1. t.writes = NoWrites  BY <1>1, <2>3, LedgerWorker DEF EventsKept
    <3>2. EventsKept(t, joinRequest)  BY <2>3, <2>4, <3>1, LedgerWorker DEF EventsKept
    <3>   QED  BY <3>2, <2>3, LedgerWorker DEF WorkerKept
  <2>   QED  BY <1>1, <2>1, <2>3, <2>5, SameIdsKept
<1>   QED  BY <1>2, <1>3

LEMMA PhaseKept ==
  ASSUME LedgerInv, OwnerInv', UNCHANGED tables, NEW w \in Worker, NEW phase,
         phase # "dispatch", tx' = [tx EXCEPT ![w].phase = phase]
  PROVE  LedgerInv'
<1> DEFINE t == [tx[w] EXCEPT !.phase = phase]
<1>1. t.writes = tx[w].writes /\ t.events = tx[w].events /\ t.phase = phase
  BY LedgerWorker DEF Tx
<1>2. tx' = [tx EXCEPT ![w] = t]  BY LedgerWorker
<1> HIDE DEF t
<1>3. WorkerKept(t, group, task, joinRequest)  BY <1>1, LedgerWorker DEF WorkerKept, EventsKept
<1>   QED  BY <1>1, <1>2, <1>3, SameIdsKept

LEMMA LookRemainingKept ==
  ASSUME LedgerInv, OwnerInv', NEW w \in Worker, LookRemaining(w)
  PROVE  LedgerInv'
<1>1. PICK phase \in {"commit", "pickRole"} : tx' = [tx EXCEPT ![w].phase = phase]
  BY DEF LookRemaining
<1>   QED  BY <1>1, PhaseKept DEF LookRemaining

\* The clean-up adds a role row to delete, which the ledger does not see.
LEMMA PickRoleKept ==
  ASSUME LedgerInv, OwnerInv', NEW w \in Worker, PickRole(w)
  PROVE  LedgerInv'
<1>1. CASE tx' = [tx EXCEPT ![w].phase = "commit"]
  BY <1>1, PhaseKept DEF PickRole
<1>2. ASSUME NEW r \in RoleRow, tx' = [tx EXCEPT ![w] = TakingRole(w, r)]
      PROVE  LedgerInv'
  <2> DEFINE q == tx[w].writes
             p == [q EXCEPT !.roleDel = q.roleDel \cup {r}]
             t == TakingRole(w, r)
  <2>1. /\ p.out = q.out       /\ p.grpNew = q.grpNew /\ p.grpOff = q.grpOff
        /\ p.tskNew = q.tskNew /\ p.tskOff = q.tskOff /\ p.memIns = q.memIns
        /\ p.memDel = q.memDel /\ p.asgIns = q.asgIns /\ p.reqNew = q.reqNew
        /\ p.reqSet = q.reqSet
    BY LedgerWorker DEF Writes
  <2>2. t = [tx[w] EXCEPT !.phase = "commit", !.writes = p]  BY DEF TakingRole
  <2>3. PlanKept(q, group, task, joinRequest)  BY LedgerWorker
  <2> HIDE DEF p
  <2>4. t.writes = p /\ t.phase = "commit" /\ t.events = tx[w].events
    BY <2>2, LedgerWorker DEF Tx
  <2> HIDE DEF t
  <2>5. EventsKept(t, joinRequest)  BY <2>1, <2>4, LedgerWorker DEF EventsKept
  <2> HIDE DEF q
  <2>6. Tells(p) /\ FreshTasks(p, task)  BY <2>1, <2>3 DEF PlanKept, Tells, FreshTasks
  <2>7. LedgerPlan(p, group, task, joinRequest)
    <3>1. LedgerPlan(q, group, task, joinRequest)  BY <2>3 DEF PlanKept
    <3>   QED
      BY <2>1, <3>1 DEF LedgerPlan, Founds, Closes, Enters, Leaves, Asks, Decides, Admits
  <2>8. WorkerKept(t, group, task, joinRequest)
    BY <2>4, <2>5, <2>6, <2>7 DEF WorkerKept, PlanKept
  <2>9. t.writes.tskNew = tx[w].writes.tskNew  BY <2>1, <2>4 DEF q
  <2>10. UNCHANGED tables  BY DEF PickRole
  <2>   QED  BY <1>2, <2>8, <2>9, <2>10, SameIdsKept DEF t
<1>   QED  BY <1>1, <1>2 DEF PickRole

LEMMA MachineryKept ==
  ASSUME LedgerInv, OwnerInv', NEW w \in Worker, Machinery(w)
  PROVE  LedgerInv'
<1>1. CASE Fail(w)  BY <1>1, RollbackKept DEF Fail
<1>   QED
  BY <1>1, CommitKept, DispatchKept, LookRemainingKept, PickRoleKept DEF Machinery

-----------------------------------------------------------------------------
(* The requests *)

\* A plan that says nothing to the outbox because it need not.
Silent(p) == p.out = {} /\ p.grpNew = {} /\ p.grpOff = {} /\ p.tskNew = {} /\ p.tskOff = {}

LEMMA SilentPlan ==
  ASSUME NEW p, Silent(p), LedgerPlan(p, group, task, joinRequest)
  PROVE  PlanKept(p, group, task, joinRequest) /\ TaskIdsFree(p)
  BY DEF Silent, PlanKept, Tells, FreshTasks, TaskIdsFree

\* A request that has staged a kept plan, with true events to come.
LEMMA StageKept ==
  ASSUME LedgerInv, OwnerInv', NEW w \in Worker, NEW phase \in {"commit", "remaining", "flush"},
         NEW t, Begin(w, phase, t), NEW p, NEW es,
         [t EXCEPT !.phase = phase].writes = p, [t EXCEPT !.phase = phase].events = es,
         [t EXCEPT !.phase = phase].phase = phase,
         PlanKept(p, group, task, joinRequest), TaskIdsFree(p),
         \A i \in 1..Len(es) : es[i].kind \in {"approved", "rejected"} =>
           /\ es[i].req \in 1..Len(joinRequest)
           /\ \/ joinRequest[es[i].req].status # "PENDING"
              \/ \E x \in p.reqSet : x[1] = es[i].req
  PROVE  LedgerInv'
<1> DEFINE s == [t EXCEPT !.phase = phase]
<1>1. tx' = [tx EXCEPT ![w] = s] /\ UNCHANGED tables  BY DEF Begin
<1>2. s.writes = p /\ s.events = es /\ s.phase = phase  OBVIOUS
<1> HIDE DEF s
<1>3. WorkerKept(s, group, task, joinRequest)  BY <1>2 DEF WorkerKept, EventsKept
<1>4. \A v \in Worker \ {w} : \A m \in tx[v].writes.tskNew, n \in s.writes.tskNew : m.id # n.id
  BY <1>2 DEF TaskIdsFree
<1>   QED  BY <1>1, <1>3, <1>4, OwnStepKept

\* The forms a request leaves its unit of work in.
LEMMA StageWritesKept ==
  ASSUME LedgerInv, OwnerInv', NEW w \in Worker, NEW p,
         Begin(w, "commit", [Idle EXCEPT !.writes = p]),
         PlanKept(p, group, task, joinRequest), TaskIdsFree(p)
  PROVE  LedgerInv'
<1> DEFINE t == [Idle EXCEPT !.writes = p]
<1>1. /\ [t EXCEPT !.phase = "commit"].writes = p
      /\ [t EXCEPT !.phase = "commit"].events = <<>>
      /\ [t EXCEPT !.phase = "commit"].phase = "commit"
  BY DEF Idle
<1> HIDE DEF t
<1>2. Begin(w, "commit", t)  BY DEF t
<1>   QED  BY <1>1, <1>2, StageKept

LEMMA StageTellingKept ==
  ASSUME LedgerInv, OwnerInv', NEW w \in Worker, NEW p, NEW es,
         Begin(w, "commit", [Idle EXCEPT !.writes = p, !.events = es]),
         PlanKept(p, group, task, joinRequest), TaskIdsFree(p),
         \A i \in 1..Len(es) : es[i].kind \in {"approved", "rejected"} =>
           /\ es[i].req \in 1..Len(joinRequest)
           /\ \/ joinRequest[es[i].req].status # "PENDING"
              \/ \E x \in p.reqSet : x[1] = es[i].req
  PROVE  LedgerInv'
<1> DEFINE t == [Idle EXCEPT !.writes = p, !.events = es]
<1>1. /\ [t EXCEPT !.phase = "commit"].writes = p
      /\ [t EXCEPT !.phase = "commit"].events = es
      /\ [t EXCEPT !.phase = "commit"].phase = "commit"
  BY DEF Idle
<1> HIDE DEF t
<1>2. Begin(w, "commit", t)  BY DEF t
<1>   QED  BY <1>1, <1>2, StageKept

LEMMA StageLeavingKept ==
  ASSUME LedgerInv, OwnerInv', NEW w \in Worker, NEW v, NEW k, NEW p,
         Begin(w, "remaining", [Idle EXCEPT !.subject = v, !.kind = k, !.writes = p]),
         PlanKept(p, group, task, joinRequest), TaskIdsFree(p)
  PROVE  LedgerInv'
<1> DEFINE t == [Idle EXCEPT !.subject = v, !.kind = k, !.writes = p]
<1>1. /\ [t EXCEPT !.phase = "remaining"].writes = p
      /\ [t EXCEPT !.phase = "remaining"].events = <<>>
      /\ [t EXCEPT !.phase = "remaining"].phase = "remaining"
  BY DEF Idle
<1> HIDE DEF t
<1>2. Begin(w, "remaining", t)  BY DEF t
<1>   QED  BY <1>1, <1>2, StageKept

LEMMA CreateMyGroupKept ==
  ASSUME LedgerInv, OwnerInv', NEW w \in Worker, NEW u \in User, NEW g \in Group, NEW n \in Name,
         NEW pol \in Policy, CreateMyGroup(w, u, g, n, pol)
  PROVE  LedgerInv'
<1> DEFINE row == [id |-> g, admin |-> u, policy |-> pol, name |-> n]
           p == [NoWrites EXCEPT !.grpNew = {row}, !.memIns = {<<u, g>>},
                                 !.roleIns = {AdminRole(u, g)}, !.out = {<<g, "CREATED">>}]
<1>1. Begin(w, "commit", [Idle EXCEPT !.writes = p])  BY DEF CreateMyGroup
<1>2. /\ p.grpNew = {row} /\ p.memIns = {<<u, g>>} /\ p.out = {<<g, "CREATED">>}
      /\ p.grpOff = {} /\ p.tskNew = {} /\ p.tskOff = {} /\ p.memDel = {}
      /\ p.reqNew = {} /\ p.reqSet = {}
  BY DEF NoWrites
<1> HIDE DEF p
<1>3. /\ row \in [id : Group, admin : User, policy : Policy, name : Name]
      /\ row.id = g /\ row.admin = u
  OBVIOUS
<1> HIDE DEF row
<1>4. Tells(p)  BY <1>2, <1>3, ConstantsAreDistinct DEF Tells
<1>5. LedgerPlan(p, group, task, joinRequest)
  <2>1. Founds(p)  BY <1>2, <1>3 DEF Founds
  <2>   QED  BY <2>1 DEF LedgerPlan
<1>6. PlanKept(p, group, task, joinRequest) /\ TaskIdsFree(p)
  BY <1>2, <1>4, <1>5 DEF PlanKept, FreshTasks, TaskIdsFree
<1>   QED  BY <1>1, <1>6, StageWritesKept

LEMMA UpdateMyGroupKept ==
  ASSUME LedgerInv, OwnerInv', NEW w \in Worker, NEW u \in User, NEW g \in Group, NEW n \in Name,
         NEW pol \in Policy, UpdateMyGroup(w, u, g, n, pol)
  PROVE  LedgerInv'
<1> DEFINE names == {<<g, n>>} \ {<<g, group[g].name>>}
           policies == {<<g, pol>>} \ {<<g, group[g].policy>>}
           p == [NoWrites EXCEPT !.grpName = names, !.grpPolicy = policies,
                                 !.out = {<<g, "UPDATED">>}]
<1>1. Begin(w, "commit", [Idle EXCEPT !.writes = p])  BY DEF UpdateMyGroup
<1> HIDE DEF names, policies
<1>2. /\ p.out = {<<g, "UPDATED">>} /\ p.grpNew = {} /\ p.memIns = {}
      /\ p.grpOff = {} /\ p.tskNew = {} /\ p.tskOff = {} /\ p.memDel = {}
      /\ p.reqNew = {} /\ p.reqSet = {}
  BY DEF NoWrites
<1> HIDE DEF p
<1>3. Tells(p)  BY <1>2 DEF Tells
<1>4. LedgerPlan(p, group, task, joinRequest)  BY <1>2 DEF LedgerPlan, Enters
<1>5. PlanKept(p, group, task, joinRequest) /\ TaskIdsFree(p)
  BY <1>2, <1>3, <1>4 DEF PlanKept, FreshTasks, TaskIdsFree
<1>   QED  BY <1>1, <1>5, StageWritesKept

LEMMA DeleteMyGroupKept ==
  ASSUME LedgerInv, OwnerInv', NEW w \in Worker, NEW u \in User, NEW g \in Group,
         DeleteMyGroup(w, u, g)
  PROVE  LedgerInv'
<1> DEFINE role == {AdminRole(u, g)}
           p == [NoWrites EXCEPT !.grpOff = {g}, !.roleDel = role, !.out = {<<g, "DELETED">>}]
<1>1. Begin(w, "remaining", [Idle EXCEPT !.subject = u, !.kind = "GROUP_ADMIN", !.writes = p])
  BY DEF DeleteMyGroup
<1> HIDE DEF role
<1>2. /\ p.out = {<<g, "DELETED">>} /\ p.grpOff = {g} /\ p.grpNew = {} /\ p.memIns = {}
      /\ p.tskNew = {} /\ p.tskOff = {} /\ p.memDel = {} /\ p.reqNew = {} /\ p.reqSet = {}
  BY DEF NoWrites
<1> HIDE DEF p
<1>3. Tells(p)  BY <1>2, ConstantsAreDistinct DEF Tells
<1>4. LedgerPlan(p, group, task, joinRequest)  BY <1>2 DEF LedgerPlan, Closes
<1>5. PlanKept(p, group, task, joinRequest) /\ TaskIdsFree(p)
  BY <1>2, <1>3, <1>4 DEF PlanKept, FreshTasks, TaskIdsFree
<1>   QED  BY <1>1, <1>5, StageLeavingKept

LEMMA AddMemberToGroupKept ==
  ASSUME LedgerInv, OwnerInv', NEW w \in Worker, NEW u \in User, NEW g \in Group, NEW v \in User,
         AddMemberToGroup(w, u, g, v)
  PROVE  LedgerInv'
<1> DEFINE p == [NoWrites EXCEPT !.memIns = {<<v, g>>}]
           es == <<Tell("group_invite", v, 0)>>
<1>1. /\ Begin(w, "commit", [Idle EXCEPT !.writes = p, !.events = es])
      /\ group[g].state # "absent"
  BY DEF AddMemberToGroup, MyGroup, ActiveGroup
<1>2. p.memIns = {<<v, g>>} /\ Silent(p) /\ p.memDel = {} /\ p.reqNew = {} /\ p.reqSet = {}
  BY DEF NoWrites, Silent
<1>3. \A i \in 1..Len(es) : es[i].kind \notin {"approved", "rejected"}  BY DEF Tell
<1> HIDE DEF p, es
<1>4. LedgerPlan(p, group, task, joinRequest)  BY <1>1, <1>2 DEF LedgerPlan, Enters, Silent
<1>   QED  BY <1>1, <1>2, <1>3, <1>4, SilentPlan, StageTellingKept

LEMMA LeaveGroupKept ==
  ASSUME LedgerInv, OwnerInv', NEW w \in Worker, NEW g \in Group, NEW v \in User,
         LeaveGroup(w, g, v)
  PROVE  LedgerInv'
<1> DEFINE p == [NoWrites EXCEPT !.memDel = {<<v, g>>}]
<1>1. Begin(w, "remaining", [Idle EXCEPT !.subject = v, !.kind = "MEMBER", !.writes = p])
  BY DEF LeaveGroup
<1>2. p.memDel = {<<v, g>>} /\ Silent(p) /\ p.memIns = {} /\ p.reqNew = {} /\ p.reqSet = {}
  BY DEF NoWrites, Silent
<1> HIDE DEF p
<1>3. LedgerPlan(p, group, task, joinRequest)  BY <1>2 DEF LedgerPlan, Leaves, Silent
<1>   QED  BY <1>1, <1>2, <1>3, SilentPlan, StageLeavingKept

\* A request to join, for a group (None) or one of its tasks.
LEMMA AskKept ==
  ASSUME LedgerInv, OwnerInv', NEW w \in Worker, NEW u \in User, NEW g \in Group,
         NEW for \in Task \cup {None}, NEW to, ActiveGroup(g),
         for # None => ActiveTask(for) /\ task[for].group = g,
         Begin(w, "commit", [Idle EXCEPT
           !.writes = [NoWrites EXCEPT !.reqNew =
              {[user |-> u, group |-> g, task |-> for, status |-> "PENDING"]}],
           !.events = <<Tell("created", to, 0)>>])
  PROVE  LedgerInv'
<1> DEFINE q == [user |-> u, group |-> g, task |-> for, status |-> "PENDING"]
           p == [NoWrites EXCEPT !.reqNew = {q}]
           es == <<Tell("created", to, 0)>>
<1>1. Begin(w, "commit", [Idle EXCEPT !.writes = p, !.events = es])  OBVIOUS
<1>2. p.reqNew = {q} /\ Silent(p) /\ p.memIns = {} /\ p.memDel = {} /\ p.reqSet = {}
  BY DEF NoWrites, Silent
<1>3. \A i \in 1..Len(es) : es[i].kind \notin {"approved", "rejected"}  BY DEF Tell
<1>4. q \in Request /\ q.status = "PENDING" /\ group[q.group].state # "absent" /\ Placed(q, task)
  BY DEF Request, Decision, Placed, ActiveGroup, ActiveTask
<1> HIDE DEF p, q, es
<1>5. LedgerPlan(p, group, task, joinRequest)
  <2>1. Asks(p, group, task)  BY <1>2, <1>4 DEF Asks, Silent
  <2>   QED  BY <2>1 DEF LedgerPlan
<1>   QED  BY <1>1, <1>2, <1>3, <1>5, SilentPlan, StageTellingKept

LEMMA JoinGroupKept ==
  ASSUME LedgerInv, OwnerInv', NEW w \in Worker, NEW u \in User, NEW g \in Group,
         JoinGroup(w, u, g)
  PROVE  LedgerInv'
<1>1. CASE JoinGroupOpen(w, u, g)
  <2> DEFINE role == GrantMember(u, g)
             p == [NoWrites EXCEPT !.memIns = {<<u, g>>}, !.roleIns = role]
             es == <<Tell("group_join", group[g].admin, 0)>>
  <2>1. Begin(w, "commit", [Idle EXCEPT !.writes = p, !.events = es])
    BY <1>1 DEF JoinGroupOpen
  <2>2. group[g].state # "absent"  BY DEF JoinGroup, ActiveGroup
  <2> HIDE DEF role
  <2>3. p.memIns = {<<u, g>>} /\ Silent(p) /\ p.memDel = {} /\ p.reqNew = {} /\ p.reqSet = {}
    BY DEF NoWrites, Silent
  <2>4. \A i \in 1..Len(es) : es[i].kind \notin {"approved", "rejected"}  BY DEF Tell
  <2> HIDE DEF p, es
  <2>5. LedgerPlan(p, group, task, joinRequest)  BY <2>2, <2>3 DEF LedgerPlan, Enters, Silent
  <2>   QED  BY <2>1, <2>3, <2>4, <2>5, SilentPlan, StageTellingKept
<1>2. CASE JoinGroupByRequest(w, u, g)
  BY <1>2, AskKept DEF JoinGroupByRequest, JoinGroup
<1>   QED  BY <1>1, <1>2 DEF JoinGroup

\* Events of one notification about a request the plan decides.
LEMMA TellsOfOwnDecision ==
  ASSUME NEW r \in 1..Len(joinRequest), NEW kind, NEW to, NEW p,
         joinRequest[r].status # "PENDING" \/ \E x \in p.reqSet : x[1] = r,
         NEW i \in 1..Len(<<Tell(kind, to, r)>>)
  PROVE  /\ <<Tell(kind, to, r)>>[i].req \in 1..Len(joinRequest)
         /\ \/ joinRequest[<<Tell(kind, to, r)>>[i].req].status # "PENDING"
            \/ \E x \in p.reqSet : x[1] = <<Tell(kind, to, r)>>[i].req
<1>1. <<Tell(kind, to, r)>>[i].req = r  BY DEF Tell
<1> HIDE DEF Tell
<1>   QED  BY <1>1

LEMMA ApproveJoinRequestKept ==
  ASSUME LedgerInv, OwnerInv', NEW w \in Worker, NEW u \in User, NEW r \in 1..Len(joinRequest),
         ApproveJoinRequest(w, u, r)
  PROVE  LedgerInv'
<1> DEFINE v == joinRequest[r].user
           g == joinRequest[r].group
           role == GrantMember(v, g)
           p == [NoWrites EXCEPT !.reqSet = {<<r, "APPROVED">>}, !.memIns = {<<v, g>>},
                                 !.roleIns = role]
           es == <<Tell("approved", v, r)>>
           t == [Idle EXCEPT !.actor = u, !.req = r, !.writes = p, !.events = es]
           phase == IF joinRequest[r].task = None THEN "commit" ELSE "flush"
<1>1. Begin(w, phase, t) /\ phase \in {"commit", "remaining", "flush"}
  BY DEF ApproveJoinRequest, ApproveWrites
<1> HIDE DEF role, phase
<1>2. /\ p.reqSet = {<<r, "APPROVED">>} /\ p.memIns = {<<v, g>>}
      /\ Silent(p) /\ p.memDel = {} /\ p.reqNew = {}
  BY DEF NoWrites, Silent
<1> HIDE DEF p
<1>3. \E x \in p.reqSet : x[1] = r  BY <1>2
<1>4. \A i \in 1..Len(es) :
        /\ es[i].req \in 1..Len(joinRequest)
        /\ \/ joinRequest[es[i].req].status # "PENDING"
           \/ \E x \in p.reqSet : x[1] = es[i].req
  BY <1>3, TellsOfOwnDecision
<1>5. LedgerPlan(p, group, task, joinRequest)
  BY <1>2 DEF LedgerPlan, Decides, Admits, Silent
<1> HIDE DEF es, v, g
<1>6. /\ [t EXCEPT !.phase = phase].writes = p /\ [t EXCEPT !.phase = phase].events = es
      /\ [t EXCEPT !.phase = phase].phase = phase
  BY DEF Idle
<1> HIDE DEF t
<1>7. PlanKept(p, group, task, joinRequest) /\ TaskIdsFree(p)  BY <1>2, <1>5, SilentPlan
<1>   QED  BY <1>1, <1>4, <1>6, <1>7, StageKept

\* A rejection, by either route.
LEMMA RejectKept ==
  ASSUME LedgerInv, OwnerInv', NEW w \in Worker, NEW r \in 1..Len(joinRequest),
         Begin(w, "commit", [Idle EXCEPT
           !.writes = [NoWrites EXCEPT !.reqSet =
                         {<<r, "REJECTED">>} \ {<<r, joinRequest[r].status>>}],
           !.events = <<Tell("rejected", joinRequest[r].user, r)>>])
  PROVE  LedgerInv'
<1> DEFINE set == {<<r, "REJECTED">>} \ {<<r, joinRequest[r].status>>}
           es == <<Tell("rejected", joinRequest[r].user, r)>>
           p == [NoWrites EXCEPT !.reqSet = set]
<1>1. Begin(w, "commit", [Idle EXCEPT !.writes = p, !.events = es])  OBVIOUS
<1>2. set = {<<r, "REJECTED">>} \/ (set = {} /\ joinRequest[r].status = "REJECTED")
  OBVIOUS
<1> HIDE DEF set
<1>3. p.reqSet = set /\ Silent(p) /\ p.memIns = {} /\ p.memDel = {} /\ p.reqNew = {}
  BY DEF NoWrites, Silent
<1> HIDE DEF p
<1>4. joinRequest[r].status # "PENDING" \/ \E x \in p.reqSet : x[1] = r
  <2>1. <<r, "REJECTED">>[1] = r  OBVIOUS
  <2>2. CASE set = {<<r, "REJECTED">>}  BY <1>3, <2>1, <2>2
  <2>   QED  BY <1>2, <2>2
<1>5. \A i \in 1..Len(es) :
        /\ es[i].req \in 1..Len(joinRequest)
        /\ \/ joinRequest[es[i].req].status # "PENDING"
           \/ \E x \in p.reqSet : x[1] = es[i].req
  BY <1>4, TellsOfOwnDecision
<1>6. LedgerPlan(p, group, task, joinRequest)
  BY <1>2, <1>3 DEF LedgerPlan, Decides, Enters, Silent
<1> HIDE DEF es
<1>7. PlanKept(p, group, task, joinRequest) /\ TaskIdsFree(p)  BY <1>3, <1>6, SilentPlan
<1>   QED  BY <1>1, <1>5, <1>7, StageTellingKept

LEMMA GroupRequestKept ==
  ASSUME LedgerInv, OwnerInv', NEW w \in Worker, GroupStep(w)
  PROVE  LedgerInv'
<1>1. CASE \E u \in User, g \in Group : \E n \in Name, pol \in Policy :
             CreateMyGroup(w, u, g, n, pol) \/ UpdateMyGroup(w, u, g, n, pol)
  BY <1>1, CreateMyGroupKept, UpdateMyGroupKept
<1>2. CASE \E u \in User, g \in Group : DeleteMyGroup(w, u, g)
  BY <1>2, DeleteMyGroupKept
<1>3. CASE \E u \in User, g \in Group, v \in User : AddMemberToGroup(w, u, g, v)
  BY <1>3, AddMemberToGroupKept
<1>4. CASE \E u \in User, g \in Group, v \in User : RemoveMemberFromGroup(w, u, g, v)
  BY <1>4, LeaveGroupKept DEF RemoveMemberFromGroup
<1>5. CASE \E u \in User, g \in Group : ExitGroup(w, u, g)
  BY <1>5, LeaveGroupKept DEF ExitGroup
<1>6. CASE \E u \in User, g \in Group : JoinGroup(w, u, g)
  BY <1>6, JoinGroupKept
<1>7. CASE \E u \in User : \E r \in 1..Len(joinRequest) : ApproveJoinRequest(w, u, r)
  BY <1>7, ApproveJoinRequestKept
<1>8. CASE \E u \in User : \E r \in 1..Len(joinRequest) : RejectJoinRequest(w, u, r)
  BY <1>8, RejectKept DEF RejectJoinRequest
<1>   QED  BY <1>1, <1>2, <1>3, <1>4, <1>5, <1>6, <1>7, <1>8 DEF GroupStep

LEMMA CreateTaskForGroupKept ==
  ASSUME LedgerInv, OwnerInv', NEW w \in Worker, NEW u \in User, NEW g \in Group, NEW t \in Task,
         NEW title \in Title, CreateTaskForGroup(w, u, g, t, title)
  PROVE  LedgerInv'
<1> DEFINE new == [id |-> t, group |-> g, title |-> title]
           role == {AssigneeRole(u, g, t)} \cup GrantMember(u, g)
           in == {<<u, g>>} \ membership
           p == [NoWrites EXCEPT !.tskNew = {new}, !.roleIns = role, !.asgIns = {<<u, t>>},
                                 !.memIns = in, !.out = {<<t, "CREATED">>}]
<1>1. Begin(w, "commit", [Idle EXCEPT !.writes = p]) /\ FreshTask(t)
      /\ group[g].state # "absent"
  BY DEF CreateTaskForGroup, AdminGroups, ActiveGroup
<1>2. in = {<<u, g>>} \/ in = {}  OBVIOUS
<1> HIDE DEF role, in
<1>3. /\ p.tskNew = {new} /\ p.memIns = in /\ p.out = {<<t, "CREATED">>}
      /\ p.grpNew = {} /\ p.grpOff = {} /\ p.tskOff = {} /\ p.memDel = {}
      /\ p.reqNew = {} /\ p.reqSet = {}
  BY DEF NoWrites
<1>4. new.id = t  OBVIOUS
<1> HIDE DEF p, new
<1>5. Tells(p)  BY <1>3, <1>4, ConstantsAreDistinct DEF Tells
<1>6. FreshTasks(p, task) /\ TaskIdsFree(p)
  BY <1>1, <1>3, <1>4 DEF FreshTasks, TaskIdsFree, FreshTask
<1>7. LedgerPlan(p, group, task, joinRequest)
  BY <1>1, <1>2, <1>3 DEF LedgerPlan, Enters
<1>8. PlanKept(p, group, task, joinRequest)  BY <1>5, <1>6, <1>7 DEF PlanKept
<1>   QED  BY <1>1, <1>6, <1>8, StageWritesKept

\* An assignment is nothing to the ledger and nothing to the outbox.
LEMMA AssignWritesKept ==
  ASSUME NEW t, NEW v
  PROVE  /\ PlanKept(AssignWrites(t, v), group, task, joinRequest)
         /\ TaskIdsFree(AssignWrites(t, v))
         /\ AssignWrites(t, v).tskNew = {}
<1> DEFINE p == AssignWrites(t, v)
<1>1. Silent(p) /\ p.memIns = {} /\ p.memDel = {} /\ p.reqNew = {} /\ p.reqSet = {}
  BY DEF AssignWrites, NoWrites, Silent
<1> HIDE DEF p
<1>2. LedgerPlan(p, group, task, joinRequest)  BY <1>1 DEF LedgerPlan, Enters, Silent
<1>3. PlanKept(p, group, task, joinRequest) /\ TaskIdsFree(p)  BY <1>1, <1>2, SilentPlan
<1>   QED  BY <1>1, <1>3 DEF p, Silent

LEMMA AddUserToTaskKept ==
  ASSUME LedgerInv, OwnerInv', NEW w \in Worker, NEW u \in User, NEW t \in Task, NEW v \in User,
         AddUserToTask(w, u, t, v)
  PROVE  LedgerInv'
<1> DEFINE es == <<Tell("task_invite", v, 0)>>
           p == AssignWrites(t, v)
<1>1. Begin(w, "commit", [Idle EXCEPT !.writes = p, !.events = es])  BY DEF AddUserToTask
<1>2. \A i \in 1..Len(es) : es[i].kind \notin {"approved", "rejected"}  BY DEF Tell
<1>3. PlanKept(p, group, task, joinRequest) /\ TaskIdsFree(p)  BY AssignWritesKept
<1> HIDE DEF es, p
<1>   QED  BY <1>1, <1>2, <1>3, StageTellingKept

LEMMA UpdateMyTaskKept ==
  ASSUME LedgerInv, OwnerInv', NEW w \in Worker, NEW u \in User, NEW t \in Task,
         NEW title \in Title, NEW c \in Status, NEW off \in BOOLEAN,
         UpdateMyTask(w, u, t, title, c, off)
  PROVE  LedgerInv'
<1> DEFINE titles == {<<t, title>>} \ {<<t, task[t].title>>}
           statuses == {<<t, c>>} \ {<<t, task[t].status>>}
           offs == IF off THEN {t} ELSE {}
           p == [NoWrites EXCEPT !.tskTitle = titles, !.tskStatus = statuses,
                                 !.tskOff = offs, !.out = {<<t, "UPDATED">>}]
<1>1. Begin(w, "commit", [Idle EXCEPT !.writes = p])  BY DEF UpdateMyTask
<1>2. offs \subseteq {t}  OBVIOUS
<1> HIDE DEF titles, statuses, offs
<1>3. /\ p.tskOff = offs /\ p.out = {<<t, "UPDATED">>}
      /\ p.grpNew = {} /\ p.grpOff = {} /\ p.tskNew = {} /\ p.memIns = {} /\ p.memDel = {}
      /\ p.reqNew = {} /\ p.reqSet = {}
  BY DEF NoWrites
<1> HIDE DEF p
<1>4. Tells(p)  BY <1>2, <1>3, ConstantsAreDistinct DEF Tells
<1>5. LedgerPlan(p, group, task, joinRequest)  BY <1>3 DEF LedgerPlan, Enters
<1>6. PlanKept(p, group, task, joinRequest) /\ TaskIdsFree(p)
  BY <1>3, <1>4, <1>5 DEF PlanKept, FreshTasks, TaskIdsFree
<1>   QED  BY <1>1, <1>6, StageWritesKept

LEMMA DeleteMyTaskKept ==
  ASSUME LedgerInv, OwnerInv', NEW w \in Worker, NEW u \in User, NEW t \in Task,
         DeleteMyTask(w, u, t)
  PROVE  LedgerInv'
<1> DEFINE p == [NoWrites EXCEPT !.tskOff = {t}, !.out = {<<t, "DELETED">>}]
<1>1. Begin(w, "commit", [Idle EXCEPT !.writes = p])  BY DEF DeleteMyTask
<1>2. /\ p.tskOff = {t} /\ p.out = {<<t, "DELETED">>}
      /\ p.grpNew = {} /\ p.grpOff = {} /\ p.tskNew = {} /\ p.memIns = {} /\ p.memDel = {}
      /\ p.reqNew = {} /\ p.reqSet = {}
  BY DEF NoWrites
<1> HIDE DEF p
<1>3. Tells(p)  BY <1>2, ConstantsAreDistinct DEF Tells
<1>4. LedgerPlan(p, group, task, joinRequest)  BY <1>2 DEF LedgerPlan, Enters
<1>5. PlanKept(p, group, task, joinRequest) /\ TaskIdsFree(p)
  BY <1>2, <1>3, <1>4 DEF PlanKept, FreshTasks, TaskIdsFree
<1>   QED  BY <1>1, <1>5, StageWritesKept

LEMMA UpdateStatusTaskKept ==
  ASSUME LedgerInv, OwnerInv', NEW w \in Worker, NEW u \in User, NEW t \in Task,
         NEW c \in Status, UpdateStatusTask(w, u, t, c)
  PROVE  LedgerInv'
<1> DEFINE p == [NoWrites EXCEPT !.tskStatus = {<<t, c>>}, !.out = {<<t, "UPDATED">>}]
<1>1. Begin(w, "commit", [Idle EXCEPT !.writes = p])  BY DEF UpdateStatusTask
<1>2. /\ p.tskOff = {} /\ p.out = {<<t, "UPDATED">>}
      /\ p.grpNew = {} /\ p.grpOff = {} /\ p.tskNew = {} /\ p.memIns = {} /\ p.memDel = {}
      /\ p.reqNew = {} /\ p.reqSet = {}
  BY DEF NoWrites
<1> HIDE DEF p
<1>3. Tells(p)  BY <1>2, ConstantsAreDistinct DEF Tells
<1>4. LedgerPlan(p, group, task, joinRequest)  BY <1>2 DEF LedgerPlan, Enters
<1>5. PlanKept(p, group, task, joinRequest) /\ TaskIdsFree(p)
  BY <1>2, <1>3, <1>4 DEF PlanKept, FreshTasks, TaskIdsFree
<1>   QED  BY <1>1, <1>5, StageWritesKept

LEMMA LeaveTaskKept ==
  ASSUME LedgerInv, OwnerInv', NEW w \in Worker, NEW t \in Task, NEW v \in User,
         LeaveTask(w, t, v)
  PROVE  LedgerInv'
<1> DEFINE p == [NoWrites EXCEPT !.asgDel = {<<v, t>>}]
<1>1. Begin(w, "remaining", [Idle EXCEPT !.subject = v, !.kind = "ASSIGNEE", !.writes = p])
  BY DEF LeaveTask
<1>2. Silent(p) /\ p.memIns = {} /\ p.memDel = {} /\ p.reqNew = {} /\ p.reqSet = {}
  BY DEF NoWrites, Silent
<1> HIDE DEF p
<1>3. LedgerPlan(p, group, task, joinRequest)  BY <1>2 DEF LedgerPlan, Enters, Silent
<1>   QED  BY <1>1, <1>2, <1>3, SilentPlan, StageLeavingKept

LEMMA JoinTaskKept ==
  ASSUME LedgerInv, OwnerInv', NEW w \in Worker, NEW u \in User, NEW t \in Task,
         JoinTask(w, u, t)
  PROVE  LedgerInv'
<1>1. CASE JoinTaskOpen(w, u, t)
  BY <1>1, AssignWritesKept, StageWritesKept DEF JoinTaskOpen
<1>2. CASE JoinTaskByRequest(w, u, t)
  <2>1. task[t].group \in Group
    BY ActiveTaskGroup DEF JoinTask, LedgerInv, OwnerInv
  <2>   QED  BY <1>2, <2>1, AskKept DEF JoinTaskByRequest, JoinTask
<1>   QED  BY <1>1, <1>2 DEF JoinTask

LEMMA ApproveTaskJoinRequestKept ==
  ASSUME LedgerInv, OwnerInv', NEW w \in Worker, NEW u \in User, NEW r \in 1..Len(joinRequest),
         ApproveTaskJoinRequest(w, u, r)
  PROVE  LedgerInv'
<1> DEFINE v == joinRequest[r].user
           t == joinRequest[r].task
           in == {<<v, task[t].group>>} \ membership
           first == IF in = {} THEN <<>> ELSE <<Tell("group_join", v, 0)>>
           last == <<Tell("approved", v, r)>>
           es == first \o last
           p == [NoWrites EXCEPT !.reqSet = {<<r, "APPROVED">>}, !.memIns = in,
                                 !.asgIns = {<<v, t>>}]
<1>1. Begin(w, "commit", [Idle EXCEPT !.writes = p, !.events = es])
  BY DEF ApproveTaskJoinRequest
<1>2. t # None /\ task[t].group = joinRequest[r].group
  BY DEF ApproveTaskJoinRequest, OpenTaskRequest, LedgerInv, RequestsPlaced, Placed
<1>3. in \subseteq {<<v, joinRequest[r].group>>}  BY <1>2
<1>4. \A i \in 1..Len(es) : \/ es[i].kind = "group_join"
                            \/ es[i].kind = "approved" /\ es[i].req = r
  BY DEF Tell
<1> HIDE DEF in, es
<1>5. /\ p.reqSet = {<<r, "APPROVED">>} /\ p.memIns = in /\ p.asgIns = {<<v, t>>}
      /\ Silent(p) /\ p.memDel = {} /\ p.reqNew = {}
  BY DEF NoWrites, Silent
<1> HIDE DEF p
<1>6. LedgerPlan(p, group, task, joinRequest)
  <2>1. Admits(p, joinRequest[r])  BY <1>2, <1>3, <1>5 DEF Admits
  <2>2. Decides(p, joinRequest)  BY <1>5, <2>1 DEF Decides, Silent
  <2>   QED  BY <2>2 DEF LedgerPlan
<1>7. \E x \in p.reqSet : x[1] = r  BY <1>5
<1>8. PlanKept(p, group, task, joinRequest) /\ TaskIdsFree(p)  BY <1>5, <1>6, SilentPlan
<1>   QED  BY <1>1, <1>4, <1>7, <1>8, StageTellingKept

-----------------------------------------------------------------------------
(* The nested assignment *)

LEMMA FlushApprovalKept ==
  ASSUME LedgerInv, OwnerInv', NEW w \in Worker, FlushApproval(w)
  PROVE  LedgerInv'
<1>1. CASE Rollback(w)  BY <1>1, RollbackKept
<1>2. CASE ~Rollback(w)
  <2>1. PICK phase \in {"inner", "outerCommit"} : tx' = [tx EXCEPT ![w].phase = phase]
    BY <1>2 DEF FlushApproval
  <2>2. UNCHANGED tables  BY <1>2 DEF FlushApproval
  <2>   QED  BY <2>1, <2>2, PhaseKept
<1>   QED  BY <1>1, <1>2

LEMMA InnerCheckKept ==
  ASSUME LedgerInv, OwnerInv', NEW w \in Worker, InnerCheck(w)
  PROVE  LedgerInv'
<1>1. CASE Rollback(w)  BY <1>1, RollbackKept
<1>2. CASE tx' = [tx EXCEPT ![w].phase = "innerCommit"] /\ UNCHANGED tables
  BY <1>2, PhaseKept
<1>   QED  BY <1>1, <1>2 DEF InnerCheck

\* The assignment lands while the approval is still staged.
LEMMA InnerCommitKept ==
  ASSUME LedgerInv, OwnerInv', NEW w \in Worker, InnerCommit(w)
  PROVE  LedgerInv'
<1> DEFINE r == joinRequest[tx[w].req]
           p == AssignWrites(r.task, r.user)
           t == [tx[w] EXCEPT !.phase = "outerCommit"]
<1>1. r.task \in Task /\ r.user \in User
  <2>1. tx[w].req \in 1..Len(joinRequest) /\ r.task # None
    BY DEF LedgerInv, OwnerInv, NestedSound, InnerCommit
  <2>2. r \in Request  BY <2>1 DEF LedgerInv, OwnerInv, TypeOK
  <2>   QED  BY <2>1, <2>2 DEF Request
<1>2. CASE Conflict(p)  BY <1>2, RollbackKept DEF InnerCommit
<1>3. CASE ~Conflict(p)
  <2>1. Land(p) /\ tx' = [tx EXCEPT ![w].phase = "outerCommit"]
    BY <1>3 DEF InnerCommit
  <2>2. p \in Writes /\ PlanSound(p, group, task, joinRequest)
    BY <1>1, AssignWritesInOrder
  <2>3. PlanKept(p, group, task, joinRequest) /\ p.tskNew = {}  BY AssignWritesKept
  <2> HIDE DEF r, p
  <2>4. /\ t \in Tx /\ t.writes = tx[w].writes /\ t.phase = "outerCommit"
        /\ t.events = tx[w].events
    BY LedgerWorker DEF Tx, Phase
  <2>5. tx' = [tx EXCEPT ![w] = t]  BY <2>1, LedgerWorker
  <2> HIDE DEF t
  <2>6. WorkerKept(t, group, task, joinRequest)
    BY <2>4, LedgerWorker DEF WorkerKept, EventsKept
  <2>7. TypeOK /\ \A m \in p.tskNew, n \in t.writes.tskNew : m.id # n.id
    BY <2>3, LedgerWorker
  <2>8. WorkerKept(t, group', task', joinRequest')
    BY <2>1, <2>2, <2>3, <2>4, <2>6, <2>7, LandKept
  <2>9. p.tskNew \subseteq tx[w].writes.tskNew /\ t.writes.tskNew \subseteq tx[w].writes.tskNew
    BY <2>3, <2>4
  <2>   QED  BY <2>1, <2>2, <2>3, <2>5, <2>8, <2>9, LandStepKept
<1>   QED  BY <1>2, <1>3

LEMMA TaskRequestKept ==
  ASSUME LedgerInv, OwnerInv', NEW w \in Worker, TaskStep(w)
  PROVE  LedgerInv'
<1>1. CASE \E u \in User, t \in Task : \E g \in Group, title \in Title :
             CreateTaskForGroup(w, u, g, t, title)
  BY <1>1, CreateTaskForGroupKept
<1>2. CASE \E u \in User, t \in Task : \E title \in Title, c \in Status, off \in BOOLEAN :
             UpdateMyTask(w, u, t, title, c, off)
  BY <1>2, UpdateMyTaskKept
<1>3. CASE \E u \in User, t \in Task : DeleteMyTask(w, u, t)
  BY <1>3, DeleteMyTaskKept
<1>4. CASE \E u \in User, t \in Task : \E c \in Status : UpdateStatusTask(w, u, t, c)
  BY <1>4, UpdateStatusTaskKept
<1>5. CASE \E u \in User, t \in Task, v \in User : AddUserToTask(w, u, t, v)
  BY <1>5, AddUserToTaskKept
<1>6. CASE \E u \in User, t \in Task, v \in User : RemoveUserFromTask(w, u, t, v)
  BY <1>6, LeaveTaskKept DEF RemoveUserFromTask
<1>7. CASE \E u \in User, t \in Task : ExitTask(w, u, t)
  BY <1>7, LeaveTaskKept DEF ExitTask
<1>8. CASE \E u \in User, t \in Task : JoinTask(w, u, t)
  BY <1>8, JoinTaskKept
<1>9. CASE \E u \in User : \E r \in 1..Len(joinRequest) : ApproveTaskJoinRequest(w, u, r)
  BY <1>9, ApproveTaskJoinRequestKept
<1>10. CASE \E u \in User : \E r \in 1..Len(joinRequest) : RejectTaskJoinRequest(w, u, r)
  BY <1>10, RejectKept DEF RejectTaskJoinRequest
<1>11. CASE FlushApproval(w) \/ InnerCheck(w) \/ InnerCommit(w)
  BY <1>11, FlushApprovalKept, InnerCheckKept, InnerCommitKept
<1>   QED
  BY <1>1, <1>2, <1>3, <1>4, <1>5, <1>6, <1>7, <1>8, <1>9, <1>10, <1>11 DEF TaskStep

-----------------------------------------------------------------------------
(* The invariant *)

LEMMA InitKept == Init => LedgerInv
<1> SUFFICES ASSUME Init PROVE LedgerInv  OBVIOUS
<1>1. OwnerInv  BY InitInOrder
<1>2. \A w \in Worker : tx[w] = Idle  BY DEF Init
<1>3. Idle.writes.tskNew = {}  BY DEF Idle, NoWrites
<1>4. WorkersKept  BY <1>2, NothingKept DEF WorkersKept
<1>5. TaskIdsDistinct  BY <1>2, <1>3 DEF TaskIdsDistinct
<1>6. RequestsPlaced  BY DEF Init, RequestsPlaced
<1>7. OutboxFaithful  BY DEF Init, OutboxFaithful, AbsentGroup, AbsentTask
<1>   QED  BY <1>1, <1>4, <1>5, <1>6, <1>7 DEF LedgerInv

LEMMA StepKept == LedgerInv /\ [Next]_vars => LedgerInv'
<1> SUFFICES ASSUME LedgerInv, [Next]_vars PROVE LedgerInv'  OBVIOUS
<1>1. OwnerInv'  BY StepInOrder DEF LedgerInv
<1>2. CASE Next
  BY <1>1, <1>2, MachineryKept, GroupRequestKept, TaskRequestKept DEF Next
<1>3. CASE UNCHANGED vars
  <2>1. UNCHANGED <<group, task, joinRequest, outbox, tx>>  BY <1>3 DEF vars, tables
  <2>2. WorkersKept'
    <3> SUFFICES ASSUME NEW w \in Worker
                 PROVE  WorkerKept(tx'[w], group', task', joinRequest')
      BY DEF WorkersKept
    <3>   QED  BY <2>1, LedgerWorker
  <2>3. TaskIdsDistinct' /\ RequestsPlaced' /\ OutboxFaithful'
    BY <2>1 DEF LedgerInv, TaskIdsDistinct, RequestsPlaced, OutboxFaithful
  <2>   QED  BY <1>1, <2>2, <2>3 DEF LedgerInv
<1>   QED  BY <1>2, <1>3

\* What is staged, and what is to be told, stays in step with the tables.
THEOREM LedgerInvariant == Spec => []LedgerInv
  BY InitKept, StepKept, PTL DEF Spec

\* The outbox has exactly the events of what was committed, whatever commits
\* interleave and fail (the outbox row is added in the transaction it is about).
THEOREM OutboxTellsTruth == Spec => []OutboxFaithful
<1>1. LedgerInv => OutboxFaithful  BY DEF LedgerInv
<1>   QED  BY <1>1, LedgerInvariant, PTL

\* A notification of a decision is only on its way once the decision is
\* committed, and nothing takes it back to PENDING.
THEOREM NoticesAreTrue == Spec => []NoticesTellTruth
<1>1. LedgerInv => NoticesTellTruth
  <2> SUFFICES ASSUME LedgerInv, NEW w \in Worker, tx[w].phase = "dispatch",
                      NEW i \in 1..Len(tx[w].events),
                      tx[w].events[i].kind \in {"approved", "rejected"}
               PROVE  joinRequest[tx[w].events[i].req].status # "PENDING"
    BY DEF NoticesTellTruth
  <2>1. tx[w].writes = NoWrites /\ NoWrites.reqSet = {}
    BY LedgerWorker DEF EventsKept, NoWrites
  <2>   QED  BY <2>1, LedgerWorker DEF EventsKept
<1>   QED  BY <1>1, LedgerInvariant, PTL

-----------------------------------------------------------------------------
(* Approvals and the ledger *)

\* The tables move only when a plan lands, and none does that collides: what a
\* worker has staged, or an assignment.
LEMMA TablesMove ==
  ASSUME LedgerInv, Next
  PROVE  \/ UNCHANGED tables
         \/ \E p \in Writes : /\ Land(p) /\ ~Conflict(p)
                              /\ PlanSound(p, group, task, joinRequest)
                              /\ PlanKept(p, group, task, joinRequest)
                              /\ p.reqSet = {} \/ \E w \in Worker : p = tx[w].writes
<1>1. PICK w \in Worker : Machinery(w) \/ TaskStep(w) \/ GroupStep(w)  BY DEF Next
<1>2. CASE Machinery(w)
  <2>1. CASE Commit(w)
    <3>1. UNCHANGED tables \/ (Land(tx[w].writes) /\ ~Conflict(tx[w].writes))
      BY <2>1 DEF Commit, Rollback
    <3>   QED  BY <3>1, LedgerWorker
  <2>2. CASE Dispatch(w) \/ Fail(w) \/ LookRemaining(w) \/ PickRole(w)
    BY <2>2 DEF Dispatch, Fail, Rollback, LookRemaining, PickRole
  <2>   QED  BY <1>2, <2>1, <2>2 DEF Machinery
<1>3. CASE GroupStep(w)
  <2>1. \A u, g, n, pol : CreateMyGroup(w, u, g, n, pol) \/ UpdateMyGroup(w, u, g, n, pol) =>
          UNCHANGED tables
    BY DEF CreateMyGroup, UpdateMyGroup, Begin
  <2>2. \A u, g : DeleteMyGroup(w, u, g) \/ ExitGroup(w, u, g) => UNCHANGED tables
    BY DEF DeleteMyGroup, ExitGroup, LeaveGroup, Begin
  <2>3. \A u, g, v : AddMemberToGroup(w, u, g, v) \/ RemoveMemberFromGroup(w, u, g, v) =>
          UNCHANGED tables
    BY DEF AddMemberToGroup, RemoveMemberFromGroup, LeaveGroup, Begin
  <2>4. \A u, g : JoinGroup(w, u, g) => UNCHANGED tables
    BY DEF JoinGroup, JoinGroupOpen, JoinGroupByRequest, Begin
  <2>5. \A u, r : ApproveJoinRequest(w, u, r) \/ RejectJoinRequest(w, u, r) => UNCHANGED tables
    BY DEF ApproveJoinRequest, RejectJoinRequest, Begin
  <2> HIDE DEF tables
  <2>   QED  BY <1>3, <2>1, <2>2, <2>3, <2>4, <2>5, Zenon DEF GroupStep
<1>4. CASE TaskStep(w)
  <2>1. CASE InnerCommit(w)
    <3> DEFINE r == joinRequest[tx[w].req]
               p == AssignWrites(r.task, r.user)
    <3>1. UNCHANGED tables \/ (Land(p) /\ ~Conflict(p))  BY <2>1 DEF InnerCommit, Rollback
    <3>2. r.task \in Task /\ r.user \in User
      <4>1. tx[w].req \in 1..Len(joinRequest) /\ r.task # None
        BY <2>1 DEF LedgerInv, OwnerInv, NestedSound, InnerCommit
      <4>2. r \in Request  BY <4>1 DEF LedgerInv, OwnerInv, TypeOK
      <4>   QED  BY <4>1, <4>2 DEF Request
    <3>3. p.reqSet = {}  BY DEF AssignWrites, NoWrites
    <3>   QED  BY <3>1, <3>2, <3>3, AssignWritesInOrder, AssignWritesKept
  <2>2. CASE FlushApproval(w) \/ InnerCheck(w)
    BY <2>2 DEF FlushApproval, InnerCheck, Rollback
  <2>3. \A u, g, t, title : CreateTaskForGroup(w, u, g, t, title) => UNCHANGED tables
    BY DEF CreateTaskForGroup, Begin
  <2>4. \A u, t, title, c, off : UpdateMyTask(w, u, t, title, c, off) => UNCHANGED tables
    BY DEF UpdateMyTask, Begin
  <2>5. \A u, t, c : UpdateStatusTask(w, u, t, c) => UNCHANGED tables
    BY DEF UpdateStatusTask, Begin
  <2>6. \A u, t, v : AddUserToTask(w, u, t, v) \/ RemoveUserFromTask(w, u, t, v) =>
          UNCHANGED tables
    BY DEF AddUserToTask, RemoveUserFromTask, LeaveTask, Begin
  <2>7. \A u, t : DeleteMyTask(w, u, t) \/ ExitTask(w, u, t) \/ JoinTask(w, u, t) =>
          UNCHANGED tables
    BY DEF DeleteMyTask, ExitTask, LeaveTask, JoinTask, JoinTaskOpen, JoinTaskByRequest, Begin
  <2>8. \A u, r : ApproveTaskJoinRequest(w, u, r) \/ RejectTaskJoinRequest(w, u, r) =>
          UNCHANGED tables
    BY DEF ApproveTaskJoinRequest, RejectTaskJoinRequest, Begin
  <2>9. CASE ~(InnerCommit(w) \/ FlushApproval(w) \/ InnerCheck(w))
    BY <1>4, <2>3, <2>4, <2>5, <2>6, <2>7, <2>8, <2>9, Zenon DEF TaskStep
  <2>   QED  BY <2>1, <2>2, <2>9
<1>   QED  BY <1>1, <1>2, <1>3, <1>4

\* The request an approval is committed for gets what it asked for, then.
LEMMA LandDelivers ==
  ASSUME LedgerInv, NEW p \in Writes, Land(p), ~Conflict(p),
         PlanKept(p, group, task, joinRequest), NEW r \in 1..Len(joinRequest),
         joinRequest[r].status # "APPROVED", joinRequest'[r].status = "APPROVED"
  PROVE  \/ <<joinRequest[r].user, joinRequest[r].group>> \in membership' \ membership
         \/ <<joinRequest[r].user, joinRequest[r].task>> \in assignee'
<1>1. joinRequest'[r].status = Updated(p.reqSet, r, joinRequest[r].status)
  BY RequestKeeps DEF LedgerInv, OwnerInv
<1>2. PICK x \in p.reqSet : x[1] = r /\ x[2] = "APPROVED"  BY <1>1 DEF Updated
<1>3. Decides(p, joinRequest)
  BY <1>2 DEF PlanKept, LedgerPlan, Founds, Closes, Enters, Leaves, Asks
<1>4. PICK q \in 1..Len(joinRequest) :
        \/ p.reqSet = {<<q, "REJECTED">>}
        \/ p.reqSet = {<<q, "APPROVED">>} /\ Admits(p, joinRequest[q])
  BY <1>3 DEF Decides
<1>5. Admits(p, joinRequest[r])  BY <1>2, <1>4
<1>6. p.memIns \cap membership = {} /\ p.memIns \subseteq membership' /\ p.asgIns \subseteq assignee'
  BY DEF Conflict, Land
<1>   QED  BY <1>5, <1>6 DEF Admits

\* An approval delivers in the commit that records it, whatever else is going on.
THEOREM ApprovalsDeliver == Spec => ApprovalDelivers
<1> DEFINE A == \A r \in 1..Len(joinRequest) :
                  /\ joinRequest[r].status # "APPROVED"
                  /\ joinRequest'[r].status = "APPROVED"
                  => \/ <<joinRequest[r].user, joinRequest[r].group>> \in membership' \ membership
                     \/ <<joinRequest[r].user, joinRequest[r].task>> \in assignee'
<1>1. LedgerInv /\ [Next]_vars => [A]_vars
  <2> SUFFICES ASSUME LedgerInv, Next PROVE A  OBVIOUS
  <2>1. CASE UNCHANGED tables  BY <2>1 DEF tables
  <2>2. CASE ~UNCHANGED tables  BY <2>2, TablesMove, LandDelivers
  <2>   QED  BY <2>1, <2>2
<1> HIDE DEF A
<1>2. Spec => [][A]_vars  BY <1>1, LedgerInvariant, PTL DEF Spec
<1>   QED  BY <1>2 DEF A, ApprovalDelivers

-----------------------------------------------------------------------------
(* The refinement of GroupLedger *)

\* The ledger's variables, as the tables have them.
Owners == [g \in Group |-> group[g].admin]
Closed == {g \in Group : group[g].state = "inactive"}
Entry(q) == [user |-> q.user, group |-> q.group, forTask |-> q.task # None, status |-> q.status]
EntriesOf(reqs) == [r \in 1..Len(reqs) |-> Entry(reqs[r])]
Entries == EntriesOf(joinRequest)
LedgerEntry == [user : User, group : Group, forTask : BOOLEAN, status : Decision]

LEMMA EntryTyped ==
  ASSUME NEW q \in Request
  PROVE  Entry(q) \in LedgerEntry
<1>1. (q.task # None) \in BOOLEAN  OBVIOUS
<1>   QED  BY <1>1 DEF Entry, LedgerEntry, Request

LEMMA EntriesTyped ==
  ASSUME NEW reqs \in Seq(Request)
  PROVE  /\ EntriesOf(reqs) \in Seq(LedgerEntry) /\ Len(EntriesOf(reqs)) = Len(reqs)
         /\ \A r \in 1..Len(reqs) : EntriesOf(reqs)[r] = Entry(reqs[r])
<1>1. Len(reqs) \in Nat /\ \A r \in 1..Len(reqs) : reqs[r] \in Request  OBVIOUS
<1>2. \A r \in 1..Len(reqs) : Entry(reqs[r]) \in LedgerEntry  BY <1>1, EntryTyped
<1>3. EntriesOf(reqs) \in [1..Len(reqs) -> LedgerEntry]  BY <1>2 DEF EntriesOf
<1>   QED  BY <1>1, <1>3 DEF EntriesOf

\* An owner is somebody exactly from when the group was founded.
LEMMA OwnerKnown ==
  ASSUME NEW row \in GroupRow
  PROVE  row.admin = None <=> row.state = "absent"
<1>1. None \notin User  BY ConstantsAreDistinct
<1>   QED  BY <1>1 DEF GroupRow, AbsentGroup

\* What a plan does to each of the ledger's variables.
LEMMA LandOwners ==
  ASSUME TypeOK, TypeOK', NEW p \in Writes, PlanSound(p, group, task, joinRequest),
         FreshTasks(p, task), Land(p)
  PROVE  /\ p.grpNew = {} => Owners' = Owners
         /\ \A n \in [id : Group, admin : User, policy : Policy, name : Name] :
              p.grpNew = {n} => /\ Owners[n.id] = None
                                /\ Owners' = [Owners EXCEPT ![n.id] = n.admin]
         /\ Closed' = Closed \cup p.grpOff
<1>0. \A g \in Group : group[g] \in GroupRow /\ group'[g] \in GroupRow  BY DEF TypeOK
<1>1. ASSUME NEW g \in Group, ~\E n \in p.grpNew : n.id = g
      PROVE  group'[g].admin = group[g].admin
  <2>1. CASE group[g].state # "absent"  BY <2>1, LandStates
  <2>2. CASE group[g].state = "absent"
    <3>1. group'[g].state = "absent"  BY <1>1, <2>2, LandStates
    <3>2. group'[g].admin = None /\ group[g].admin = None  BY <1>0, <2>2, <3>1, OwnerKnown
    <3>   QED  BY <3>2
  <2>   QED  BY <2>1, <2>2
<1>2. ASSUME p.grpNew = {} PROVE Owners' = Owners  BY <1>1, <1>2 DEF Owners
<1>3. ASSUME NEW n \in [id : Group, admin : User, policy : Policy, name : Name], p.grpNew = {n}
      PROVE  Owners[n.id] = None /\ Owners' = [Owners EXCEPT ![n.id] = n.admin]
  <2>1. n.id \in Group /\ group[n.id].state = "absent"  BY <1>3 DEF PlanSound
  <2>2. Owners[n.id] = None  BY <1>0, <2>1, OwnerKnown DEF Owners
  <2>3. group'[n.id].admin = n.admin  BY <1>3, <2>1, GroupAfterRow DEF Land
  <2>4. \A g \in Group : g # n.id => group'[g].admin = group[g].admin  BY <1>1, <1>3
  <2>   QED  BY <2>1, <2>2, <2>3, <2>4 DEF Owners
<1>4. Closed' = Closed \cup p.grpOff
  <2>1. p.grpOff \subseteq Group  BY DEF Writes
  <2>   QED  BY <2>1, LandStates DEF Closed
<1>   QED  BY <1>2, <1>3, <1>4

LEMMA LandEntries ==
  ASSUME TypeOK, TypeOK', NEW p \in Writes, Land(p)
  PROVE  /\ p.reqNew = {} /\ p.reqSet = {} => Entries' = Entries
         /\ \A a \in Request : p.reqNew = {a} /\ p.reqSet = {} =>
              Entries' = Append(Entries, Entry(a))
         /\ \A r \in 1..Len(joinRequest), d \in Decision :
              p.reqNew = {} /\ p.reqSet = {<<r, d>>} =>
                Entries' = [Entries EXCEPT ![r].status = d]
<1>1. /\ Entries \in Seq(LedgerEntry) /\ Len(Entries) = Len(joinRequest)
      /\ \A r \in 1..Len(joinRequest) : Entries[r] = Entry(joinRequest[r])
  <2>1. joinRequest \in Seq(Request)  BY DEF TypeOK
  <2>   QED  BY <2>1, EntriesTyped DEF Entries
<1>2. /\ Entries' \in Seq(LedgerEntry) /\ Len(Entries') = Len(joinRequest')
      /\ \A r \in 1..Len(joinRequest') : Entries'[r] = Entry(joinRequest'[r])
  <2>1. joinRequest' \in Seq(Request)  BY DEF TypeOK
  <2>2. Entries' = EntriesOf(joinRequest')  BY DEF Entries
  <2>   QED  BY <2>1, <2>2, EntriesTyped
<1>3. Len(joinRequest) \in Nat  BY DEF TypeOK
<1>4. ASSUME NEW r \in 1..Len(joinRequest)
      PROVE  /\ r \in 1..Len(joinRequest')
             /\ Entries'[r].user = Entries[r].user
             /\ Entries'[r].group = Entries[r].group
             /\ Entries'[r].forTask = Entries[r].forTask
             /\ Entries'[r].status = Updated(p.reqSet, r, Entries[r].status)
             /\ Entries[r] \in LedgerEntry /\ Entries'[r] \in LedgerEntry
  <2>1. r \in 1..Len(joinRequest')  BY RequestKeeps
  <2>2. Entries[r] \in LedgerEntry /\ Entries'[r] \in LedgerEntry  BY <1>1, <1>2, <2>1
  <2>3. Entries[r] = Entry(joinRequest[r]) /\ Entries'[r] = Entry(joinRequest'[r])
    BY <1>1, <1>2, <2>1
  <2>4. /\ joinRequest'[r].user = joinRequest[r].user
        /\ joinRequest'[r].group = joinRequest[r].group
        /\ joinRequest'[r].task = joinRequest[r].task
        /\ joinRequest'[r].status = Updated(p.reqSet, r, joinRequest[r].status)
    BY RequestKeeps
  <2>   QED  BY <2>1, <2>2, <2>3, <2>4 DEF Entry
<1>5. ASSUME p.reqSet = {}, NEW r \in 1..Len(joinRequest) PROVE Entries'[r] = Entries[r]
  <2>1. Entries'[r].status = Entries[r].status  BY <1>4, <1>5, UpdatedUntouched
  <2>   QED  BY <1>4, <2>1 DEF LedgerEntry
<1>6. ASSUME p.reqNew = {}, p.reqSet = {} PROVE Entries' = Entries
  <2>1. Len(Entries') = Len(Entries)  BY <1>1, <1>2, <1>6, RequestsGrow
  <2>   QED  BY <1>1, <1>2, <1>5, <1>6, <2>1, SeqEqual
<1>7. ASSUME NEW a \in Request, p.reqNew = {a}, p.reqSet = {}
      PROVE  Entries' = Append(Entries, Entry(a))
  <2>1. Entry(a) \in LedgerEntry  BY EntryTyped
  <2>2. Len(joinRequest') = Len(joinRequest) + 1 /\ joinRequest'[Len(joinRequest) + 1] = a
    BY <1>7, RequestsGrow
  <2>3. /\ Append(Entries, Entry(a)) \in Seq(LedgerEntry)
        /\ Len(Append(Entries, Entry(a))) = Len(joinRequest) + 1
        /\ \A i \in 1..Len(joinRequest) : Append(Entries, Entry(a))[i] = Entries[i]
        /\ Append(Entries, Entry(a))[Len(joinRequest) + 1] = Entry(a)
    BY <1>1, <1>3, <2>1
  <2>4. \A i \in 1..Len(Entries') : Entries'[i] = Append(Entries, Entry(a))[i]
    <3> SUFFICES ASSUME NEW i \in 1..Len(joinRequest')
                 PROVE  Entries'[i] = Append(Entries, Entry(a))[i]
      BY <1>2
    <3>1. CASE i \in 1..Len(joinRequest)  BY <1>5, <1>7, <2>3, <3>1
    <3>2. CASE i = Len(joinRequest) + 1  BY <1>2, <2>2, <2>3, <3>2
    <3>3. i \in 1..Len(joinRequest) \/ i = Len(joinRequest) + 1  BY <1>3, <2>2
    <3>   QED  BY <3>1, <3>2, <3>3
  <2>   QED  BY <1>2, <2>2, <2>3, <2>4, SeqEqual
<1>8. ASSUME NEW r \in 1..Len(joinRequest), NEW d \in Decision,
             p.reqNew = {}, p.reqSet = {<<r, d>>}
      PROVE  Entries' = [Entries EXCEPT ![r].status = d]
  <2> DEFINE e == [Entries[r] EXCEPT !.status = d]
             s == [Entries EXCEPT ![r] = e]
  <2>1. e \in LedgerEntry /\ e.user = Entries[r].user /\ e.group = Entries[r].group
        /\ e.forTask = Entries[r].forTask /\ e.status = d
    BY <1>4 DEF LedgerEntry
  <2>2. [Entries EXCEPT ![r].status = d] = s  OBVIOUS
  <2> HIDE DEF e
  <2>3. s \in Seq(LedgerEntry) /\ Len(s) = Len(Entries)
        /\ \A i \in 1..Len(joinRequest) : s[i] = IF i = r THEN e ELSE Entries[i]
    BY <1>1, <2>1, ExceptSeq
  <2> HIDE DEF s
  <2>4. Len(Entries') = Len(s)  BY <1>1, <1>2, <1>8, <2>3, RequestsGrow
  <2>5. ASSUME NEW i \in 1..Len(joinRequest) PROVE Entries'[i] = s[i]
    <3>1. CASE i = r
      <4>1. <<r, d>>[1] = r /\ <<r, d>>[2] = d  OBVIOUS
      <4>2. Updated(p.reqSet, r, Entries[r].status) = d  BY <1>8, <4>1 DEF Updated
      <4>3. Entries'[r] = e  BY <1>4, <2>1, <4>2 DEF LedgerEntry
      <4>   QED  BY <2>3, <3>1, <4>3
    <3>2. CASE i # r
      <4>1. ~\E x \in p.reqSet : x[1] = i  BY <1>8, <3>2
      <4>2. Entries'[i].status = Entries[i].status  BY <1>4, <4>1, UpdatedUntouched
      <4>3. Entries'[i] = Entries[i]  BY <1>4, <4>2 DEF LedgerEntry
      <4>   QED  BY <2>3, <3>2, <4>3
    <3>   QED  BY <3>1, <3>2
  <2>   QED  BY <1>1, <1>2, <2>2, <2>3, <2>4, <2>5, SeqEqual
<1>   QED  BY <1>6, <1>7, <1>8

\* A plan that lands is one step of the ledger, or none.
LEMMA LandLedger ==
  ASSUME TypeOK, TypeOK', NEW p \in Writes, Land(p), ~Conflict(p),
         PlanSound(p, group, task, joinRequest), PlanKept(p, group, task, joinRequest)
  PROVE  Ledger!Next \/ UNCHANGED Ledger!ledger
<1> USE DEF Owners, Closed, Entries, EntriesOf, Entry
<1>1. /\ p.grpNew = {} => Owners' = Owners
      /\ \A n \in [id : Group, admin : User, policy : Policy, name : Name] :
           p.grpNew = {n} => /\ Owners[n.id] = None
                             /\ Owners' = [Owners EXCEPT ![n.id] = n.admin]
      /\ Closed' = Closed \cup p.grpOff
  BY LandOwners DEF PlanKept
<1>2. /\ p.reqNew = {} /\ p.reqSet = {} => Entries' = Entries
      /\ \A a \in Request : p.reqNew = {a} /\ p.reqSet = {} =>
           Entries' = Append(Entries, Entry(a))
      /\ \A r \in 1..Len(joinRequest), d \in Decision :
           p.reqNew = {} /\ p.reqSet = {<<r, d>>} =>
             Entries' = [Entries EXCEPT ![r].status = d]
  BY LandEntries
<1>3. membership' = (membership \ p.memDel) \cup p.memIns /\ p.memIns \cap membership = {}
  BY DEF Land, Conflict
<1>4. \A g \in Group : group[g].state # "absent" => Owners[g] # None
  <2>1. \A g \in Group : group[g] \in GroupRow  BY DEF TypeOK
  <2>   QED  BY <2>1, OwnerKnown
<1>5. /\ Entries \in Seq(LedgerEntry) /\ Len(Entries) = Len(joinRequest)
      /\ \A r \in 1..Len(joinRequest) : Entries[r] = Entry(joinRequest[r])
  <2>1. joinRequest \in Seq(Request)  BY DEF TypeOK
  <2> HIDE DEF Entries, EntriesOf, Entry
  <2>   QED  BY <2>1, EntriesTyped DEF Entries
<1> HIDE DEF Owners, Closed, Entries, EntriesOf, Entry
<1>6. CASE Founds(p)
  <2>1. PICK n \in [id : Group, admin : User, policy : Policy, name : Name] :
          p.grpNew = {n} /\ p.memIns = {<<n.admin, n.id>>}
    BY <1>6 DEF Founds
  <2>2. /\ Owners[n.id] = None /\ Owners' = [Owners EXCEPT ![n.id] = n.admin]
        /\ membership' = membership \cup {<<n.admin, n.id>>}
        /\ Closed' = Closed /\ Entries' = Entries
    BY <1>1, <1>2, <1>3, <1>6, <2>1 DEF Founds
  <2>3. Ledger!Found(n.admin, n.id)
    BY <2>2 DEF Ledger!Found, Owners, Closed, Entries, EntriesOf, Entry
  <2>4. n.admin \in User /\ n.id \in Group  OBVIOUS
  <2>   QED  BY <2>3, <2>4 DEF Ledger!Next
<1>7. CASE Closes(p)
  <2>1. PICK g \in Group : p.grpOff = {g}  BY <1>7 DEF Closes
  <2>2. Owners[g] # None  BY <1>4, <2>1 DEF PlanSound
  <2>3. /\ Owners' = Owners /\ membership' = membership
        /\ Closed' = Closed \cup {g} /\ Entries' = Entries
    BY <1>1, <1>2, <1>3, <1>7, <2>1 DEF Closes
  <2>4. Ledger!Close(g)
    BY <2>2, <2>3 DEF Ledger!Close, Owners, Closed, Entries, EntriesOf, Entry
  <2>   QED  BY <2>4 DEF Ledger!Next
<1>8. CASE Enters(p, group)
  <2>1. Owners' = Owners /\ Closed' = Closed /\ Entries' = Entries
    BY <1>1, <1>2, <1>8 DEF Enters
  <2>2. CASE p.memIns = {}
    <3>1. membership' = membership  BY <1>3, <1>8, <2>2 DEF Enters
    <3>   QED  BY <2>1, <3>1 DEF Ledger!ledger, Owners, Closed, Entries, EntriesOf, Entry
  <2>3. ASSUME NEW u \in User, NEW g \in Group, p.memIns = {<<u, g>>},
               group[g].state # "absent"
        PROVE  Ledger!Next
    <3>1. Owners[g] # None  BY <1>4, <2>3
    <3>2. <<u, g>> \notin membership /\ membership' = membership \cup {<<u, g>>}
      BY <1>3, <1>8, <2>3 DEF Enters
    <3>3. Ledger!Enter(u, g)
      BY <2>1, <3>1, <3>2 DEF Ledger!Enter, Owners, Closed, Entries, EntriesOf, Entry
    <3>   QED  BY <3>3 DEF Ledger!Next
  <2>   QED  BY <1>8, <2>2, <2>3 DEF Enters
<1>9. CASE Leaves(p)
  <2>1. PICK u \in User, g \in Group : p.memDel = {<<u, g>>}  BY <1>9 DEF Leaves
  <2>2. /\ Owners' = Owners /\ Closed' = Closed /\ Entries' = Entries
        /\ membership' = membership \ {<<u, g>>}
    BY <1>1, <1>2, <1>3, <1>9, <2>1 DEF Leaves
  <2>3. Ledger!Leave(u, g)
    BY <2>2 DEF Ledger!Leave, Owners, Closed, Entries, EntriesOf, Entry
  <2>   QED  BY <2>3 DEF Ledger!Next
<1>10. CASE Asks(p, group, task)
  <2>1. PICK q \in Request : /\ p.reqNew = {q} /\ q.status = "PENDING"
                             /\ group[q.group].state # "absent"
    BY <1>10 DEF Asks
  <2>2. q.user \in User /\ q.group \in Group  BY DEF Request
  <2>3. Owners[q.group] # None  BY <1>4, <2>1, <2>2
  <2>4. /\ Owners' = Owners /\ Closed' = Closed /\ membership' = membership
        /\ Entries' = Append(Entries, Entry(q))
    BY <1>1, <1>2, <1>3, <1>10, <2>1 DEF Asks
  <2>5. Ledger!Ask(q.user, q.group, q.task # None)
    BY <2>1, <2>3, <2>4 DEF Ledger!Ask, Owners, Closed, Entries, EntriesOf, Entry
  <2>6. (q.task # None) \in BOOLEAN  OBVIOUS
  <2>   QED  BY <2>2, <2>5, <2>6 DEF Ledger!Next
<1>11. CASE Decides(p, joinRequest)
  <2>1. Owners' = Owners /\ Closed' = Closed  BY <1>1, <1>11 DEF Decides
  <2>2. PICK r \in 1..Len(joinRequest) :
          \/ p.reqSet = {<<r, "REJECTED">>} /\ p.memIns = {}
          \/ p.reqSet = {<<r, "APPROVED">>} /\ Admits(p, joinRequest[r])
    BY <1>11 DEF Decides
  <2>3. r \in 1..Len(Entries)  BY <1>5
  <2>4. CASE p.reqSet = {<<r, "REJECTED">>} /\ p.memIns = {}
    <3>1. Entries' = [Entries EXCEPT ![r].status = "REJECTED"]
      BY <1>2, <1>11, <2>4 DEF Decides, Decision
    <3>2. membership' = membership  BY <1>3, <1>11, <2>4 DEF Decides
    <3>3. Ledger!Refuse(r)
      BY <2>1, <3>1, <3>2 DEF Ledger!Refuse, Owners, Closed, Entries, EntriesOf, Entry
    <3>   QED  BY <2>3, <3>3 DEF Ledger!Next, Entries, EntriesOf, Entry
  <2>5. CASE p.reqSet = {<<r, "APPROVED">>} /\ Admits(p, joinRequest[r])
    <3>1. Entries' = [Entries EXCEPT ![r].status = "APPROVED"]
      BY <1>2, <1>11, <2>5 DEF Decides, Decision
    <3>2. membership' = membership \cup p.memIns  BY <1>3, <1>11 DEF Decides
    <3>3. /\ Entries[r].user = joinRequest[r].user
          /\ Entries[r].group = joinRequest[r].group
          /\ (Entries[r].forTask <=> (joinRequest[r].task # None))
      <4>1. Entries[r] = Entry(joinRequest[r])  BY <2>2, <1>5
      <4>2. /\ Entries[r].user = joinRequest[r].user
            /\ Entries[r].group = joinRequest[r].group
        BY <4>1 DEF Entry
      <4>3. Entries[r].forTask = (joinRequest[r].task # None)  BY <4>1 DEF Entry
      <4>   QED  BY <4>2, <4>3
    <3>4. \/ membership' = membership \cup {<<Entries[r].user, Entries[r].group>>}
          \/ Entries[r].forTask /\ membership' = membership
      <4>1. CASE p.memIns = {<<joinRequest[r].user, joinRequest[r].group>>}
        BY <3>2, <3>3, <4>1
      <4>2. CASE joinRequest[r].task # None /\ p.memIns = {}  BY <3>2, <3>3, <4>2
      <4>   QED  BY <2>5, <4>1, <4>2 DEF Admits
    <3>5. Ledger!Approve(r)
      BY <2>1, <3>1, <3>4 DEF Ledger!Approve, Owners, Closed, Entries, EntriesOf, Entry
    <3>   QED  BY <2>3, <3>5 DEF Ledger!Next, Entries, EntriesOf, Entry
  <2>   QED  BY <2>2, <2>4, <2>5
<1>   QED  BY <1>6, <1>7, <1>8, <1>9, <1>10, <1>11 DEF PlanKept, LedgerPlan

LEMMA InitLedger == Init => Ledger!Init
<1> SUFFICES ASSUME Init PROVE Ledger!Init  OBVIOUS
<1>1. \A g \in Group : group[g].state = "absent" /\ group[g].admin = None
  BY DEF Init, AbsentGroup
<1>2. joinRequest = <<>> /\ membership = {}  BY DEF Init
<1>   QED  BY <1>1, <1>2 DEF Ledger!Init

LEMMA StepLedger == LedgerInv /\ TypeOK' /\ [Next]_vars => [Ledger!Next]_(Ledger!ledger)
<1> SUFFICES ASSUME LedgerInv, TypeOK', [Next]_vars
             PROVE  Ledger!Next \/ UNCHANGED Ledger!ledger
  OBVIOUS
<1>1. CASE UNCHANGED tables
  BY <1>1 DEF tables, Ledger!ledger
<1>2. CASE ~UNCHANGED tables
  <2>1. Next  BY <1>2 DEF vars
  <2>   QED  BY <1>2, <2>1, TablesMove, LandLedger DEF LedgerInv, OwnerInv
<1>   QED  BY <1>1, <1>2

\* The tables implement the ledger, for any number of workers: each commit is
\* one step of it or none, and so is the commit of a nested assignment.
THEOREM LedgerImplemented == Spec => ImplementsLedger
<1>1. LedgerInv => TypeOK  BY DEF LedgerInv, OwnerInv
<1>   QED  BY <1>1, InitLedger, StepLedger, LedgerInvariant, PTL DEF Spec, ImplementsLedger, Ledger!Spec
=============================================================================
