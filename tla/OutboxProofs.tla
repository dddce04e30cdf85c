----------------------------- MODULE OutboxProofs -----------------------------
(***************************************************************************)
(* Proofs about OutboxWorker, for any number of entities and events, any   *)
(* batch size and any retry limit.  For any number of workers, with or     *)
(* without a repository: the worker's invariant, the bound on retries, and *)
(* that only an interrupt takes an event out of circulation.  As long as   *)
(* no two jobs hold the same event, which nothing in the code sees to but  *)
(* one worker: they implement OutboxPromise.                               *)
(*                                                                         *)
(* WorkerInv is inductive as OutboxWorker states it.  It is taken apart    *)
(* here into what each event and each job owes to it, since an action      *)
(* changes few events and one job.                                         *)
(***************************************************************************)
EXTENDS OutboxWorker, FiniteSetTheorems, WellFoundedInduction, SequenceTheorems, TLAPS

GoodEvent(e) ==
  /\ e \in Event
  /\ e.retries <= MaxRetries + 1
  /\ e.status = "PENDING" => e.retries <= MaxRetries

GoodJob(j, n) ==
  /\ j \in Job
  /\ j.phase = "idle" <=> j.left = {}
  /\ \A i \in j.left : /\ i <= n
                       /\ j.seen[i] <= MaxRetries
                       /\ j.phase = "retry" => j.seen[i] < MaxRetries

GoodTables ==
  /\ row \in [Entity -> [state : RowState, ver : Nat]]
  /\ doc \in [Entity -> SUBSET Nat]
  /\ direct \subseteq [entity : Entity, ver : Nat]
  /\ interrupts \in 0..MaxInterrupts

GoodEvents ==
  /\ events \in Seq(Event) /\ Len(events) <= MaxEvents
  /\ \A i \in 1..Len(events) : GoodEvent(events[i])

GoodJobs ==
  /\ job \in [Worker -> Job]
  /\ \A w \in Worker : GoodJob(job[w], Len(events))

\* The three parts together are the invariant.
LEMMA Parts == WorkerInv <=> GoodTables /\ GoodEvents /\ GoodJobs
<1>1. WorkerInv => GoodTables
  BY DEF WorkerInv, TypeOK, GoodTables
<1>2. WorkerInv => GoodEvents
  <2> SUFFICES ASSUME WorkerInv PROVE GoodEvents
    OBVIOUS
  <2>1. \A i \in 1..Len(events) : events[i] \in Event
    BY DEF WorkerInv, TypeOK
  <2> QED
    BY <2>1 DEF WorkerInv, TypeOK, RetriesBounded, GoodEvents, GoodEvent
<1>3. WorkerInv => GoodJobs
  BY DEF WorkerInv, TypeOK, SeenBounded, JobsBusy, GoodJobs, GoodJob
<1>4. GoodTables /\ GoodEvents /\ GoodJobs => WorkerInv
  BY DEF GoodTables, GoodEvents, GoodEvent, GoodJobs, GoodJob,
         WorkerInv, TypeOK, RetriesBounded, SeenBounded, JobsBusy
<1> QED
  BY <1>1, <1>2, <1>3, <1>4

\* A set of naturals that is not empty has a least element.
LEMMA LeastExists ==
  ASSUME NEW S \in SUBSET Nat, S # {}
  PROVE  \E i \in S : \A k \in S : i <= k
<1> DEFINE R == OpToRel(<, Nat)
<1>1. \A x, y \in Nat : y < x => <<y, x>> \in R
  BY DEF OpToRel
<1>2. IsWellFoundedOn(R, Nat)
  BY NatLessThanWellFounded
<1> HIDE DEF R
<1>3. \E x \in S : \A y \in S : ~ (<<y, x>> \in R)
  BY <1>2, WFMin
<1>4. \A x, y \in S : ~ (<<y, x>> \in R) => x <= y
  BY <1>1
<1> QED
  BY <1>3, <1>4

\* A job that is not idle is at one of its events.
LEMMA CurrentIsLeft ==
  ASSUME GoodEvents, GoodJobs, NEW w \in Worker, job[w].phase # "idle"
  PROVE  /\ Current(w) \in job[w].left
         /\ Current(w) \in 1..Len(events) /\ Current(w) \in 1..MaxEvents
         /\ job[w].seen[Current(w)] \in 0..MaxRetries
         /\ GoodEvent(events[Current(w)])
<1>1. job[w].left # {} /\ job[w].left \in SUBSET Nat
  BY WorkerConstants DEF GoodJobs, GoodJob, Job
<1>2. Current(w) \in job[w].left
  BY <1>1, LeastExists DEF Current, Min
<1>3. Current(w) \in 1..MaxEvents /\ Current(w) <= Len(events)
  BY <1>2 DEF GoodJobs, GoodJob, Job
<1>4. Current(w) \in 1..Len(events)
  BY <1>3, WorkerConstants DEF GoodEvents
<1>5. job[w].seen[Current(w)] \in 0..MaxRetries
  BY <1>2, <1>3, WorkerConstants DEF GoodJobs, GoodJob, Job
<1> QED
  BY <1>2, <1>3, <1>4, <1>5 DEF GoodEvents

\* An idle job owes nothing.
LEMMA IdleIsGood == \A n \in Nat : GoodJob(Idle, n)
  BY WorkerConstants DEF GoodJob, Job, Phase, Idle

\* A batch of events is not empty and starts a good job, as long as their
\* retry counts are within the limit of the job.
LEMMA TakeIsGood ==
  ASSUME GoodEvents, NEW phase \in {"mark", "retry"},
         NEW ids \in SUBSET (1..Len(events)), ids # {},
         \A i \in ids : /\ events[i].retries <= MaxRetries
                        /\ phase = "retry" => events[i].retries < MaxRetries
  PROVE  GoodJob(Take(phase, ids), Len(events))
<1> DEFINE batch == {i \in ids : Cardinality({k \in ids : k < i}) < BatchSize}
<1>1. Len(events) \in Nat /\ Len(events) <= MaxEvents /\ MaxEvents \in Nat
  BY WorkerConstants DEF GoodEvents
<1>2. ids \in SUBSET Nat
  BY <1>1
<1>3. PICK least \in ids : \A k \in ids : least <= k
  BY <1>2, LeastExists
<1>4. {k \in ids : k < least} = {}
  <2>1. \A k \in ids : k \in Int /\ least \in Int /\ least <= k
    BY <1>2, <1>3
  <2>2. \A k \in ids : ~ (k < least)
    BY <2>1
  <2> QED
    BY <2>2
<1>5. least \in batch
  <2>1. Cardinality({k \in ids : k < least}) = 0
    BY <1>4, FS_EmptySet
  <2> QED
    BY <2>1, WorkerConstants
<1>6. batch \subseteq ids /\ batch \in SUBSET (1..MaxEvents)
  <2>1. \A i \in ids : i \in 1..MaxEvents
    BY <1>1
  <2> QED
    BY <2>1
<1> HIDE DEF batch
<1>7. \A i \in ids : events[i].retries \in Nat
  BY DEF GoodEvents, GoodEvent, Event
<1>8. Take(phase, ids) =
        [phase |-> phase, left |-> batch,
         seen |-> [i \in 1..MaxEvents |-> IF i \in batch THEN events[i].retries ELSE 0]]
  BY DEF Take, batch
<1>9. Take(phase, ids) \in Job
  BY <1>6, <1>7, <1>8 DEF Job, Phase
<1>10. \A i \in batch : i \in 1..Len(events) /\ i <= Len(events)
  BY <1>1, <1>6
<1> DEFINE t == Take(phase, ids)
<1>11. t.phase = phase /\ t.left = batch
  BY <1>8
<1>12. \A i \in batch : t.seen[i] = events[i].retries
  BY <1>6, <1>8
<1> HIDE DEF t
<1>13. \A i \in t.left : /\ i <= Len(events)
                         /\ t.seen[i] <= MaxRetries
                         /\ t.phase = "retry" => t.seen[i] < MaxRetries
  BY <1>6, <1>10, <1>11, <1>12
<1>14. t.phase = "idle" <=> t.left = {}
  BY <1>5, <1>11
<1>15. t \in Job
  BY <1>9 DEF t
<1> QED
  BY <1>13, <1>14, <1>15 DEF GoodJob, t

-----------------------------------------------------------------------------
(* What a step may change: one job, one event, or nothing that the parts *)
(* of the invariant speak of.                                            *)

LEMMA OneJobChanges ==
  ASSUME GoodJobs, NEW w \in Worker, NEW j, GoodJob(j, Len(events)),
         job' = [job EXCEPT ![w] = j], Len(events') = Len(events)
  PROVE  GoodJobs'
<1>1. j \in Job
  BY DEF GoodJob
<1>2. job' \in [Worker -> Job]
  BY <1>1 DEF GoodJobs
<1>3. ASSUME NEW v \in Worker PROVE GoodJob(job'[v], Len(events))
  BY DEF GoodJobs
<1> QED
  BY <1>2, <1>3 DEF GoodJobs

LEMMA OneEventChanges ==
  ASSUME GoodEvents, NEW i \in 1..Len(events), NEW e, GoodEvent(e),
         events' = [events EXCEPT ![i] = e]
  PROVE  GoodEvents' /\ Len(events') = Len(events)
<1>1. e \in Event
  BY DEF GoodEvent
<1>2. events' \in Seq(Event) /\ Len(events') = Len(events)
  BY <1>1 DEF GoodEvents
<1>3. \A k \in 1..Len(events) : GoodEvent(events'[k])
  BY DEF GoodEvents
<1> QED
  BY <1>2, <1>3 DEF GoodEvents

LEMMA NothingChanges ==
  /\ GoodTables /\ UNCHANGED <<row, doc, direct, interrupts>> => GoodTables'
  /\ GoodEvents /\ UNCHANGED events => GoodEvents'
  /\ GoodJobs /\ UNCHANGED job /\ Len(events') = Len(events) => GoodJobs'
  BY DEF GoodTables, GoodEvents, GoodJobs

-----------------------------------------------------------------------------
(* The steps, one lemma for each group of actions that change the same. *)

LEMMA RequestSafe ==
  ASSUME GoodTables, GoodEvents, GoodJobs, Request
  PROVE  GoodTables' /\ GoodEvents' /\ GoodJobs'
<1>1. PICK e \in Entity : Create(e) \/ Update(e) \/ UpdateStatus(e) \/ Delete(e)
  BY DEF Request
<1>2. PICK type \in {"CREATED", "UPDATED", "DELETED"} : Publish(e, type)
  BY <1>1 DEF Create, Update, UpdateStatus, Delete
<1>3. PICK state \in RowState : SetRow(e, state)
  <2>1. row[e].state \in RowState
    BY DEF GoodTables
  <2> QED
    BY <1>1, <2>1 DEF Create, Update, UpdateStatus, Delete, RowState
<1>4. \/ UNCHANGED direct
      \/ SaveLater(e)
  BY <1>1 DEF Create, Update, UpdateStatus, Delete
<1>5. row[e].ver + 1 \in Nat
  BY DEF GoodTables
<1>6. GoodTables'
  <2>1. row' \in [Entity -> [state : RowState, ver : Nat]]
    BY <1>3, <1>5 DEF SetRow, GoodTables
  <2>2. direct' \subseteq [entity : Entity, ver : Nat]
    BY <1>4, <1>5 DEF SaveLater, GoodTables
  <2> QED
    BY <1>2, <2>1, <2>2 DEF Publish, GoodTables
<1> DEFINE new == [entity |-> e, type |-> type, status |-> "PENDING", retries |-> 0]
<1>7. GoodEvent(new)
  BY WorkerConstants DEF GoodEvent, Event, Status
<1>8. /\ events' = Append(events, new) /\ Len(events) < MaxEvents
      /\ Len(events) \in Nat /\ MaxEvents \in Nat /\ events \in Seq(Event)
  BY <1>2, WorkerConstants DEF Publish, GoodEvents
<1> HIDE DEF new
<1>9. new \in Event
  BY <1>7 DEF GoodEvent
<1>10. events' \in Seq(Event) /\ Len(events') = Len(events) + 1
  BY <1>8, <1>9
<1>11. \A k \in 1..Len(events') : GoodEvent(events'[k])
  <2> SUFFICES ASSUME NEW k \in 1..Len(events') PROVE GoodEvent(events'[k])
    OBVIOUS
  <2>1. CASE k = Len(events) + 1
    BY <1>7, <1>8, <2>1
  <2>2. CASE k \in 1..Len(events)
    BY <1>8, <2>2 DEF GoodEvents
  <2> QED
    BY <1>8, <1>10, <2>1, <2>2
<1>12. GoodEvents'
  BY <1>8, <1>10, <1>11 DEF GoodEvents
<1>13. GoodJobs'
  <2>1. UNCHANGED job
    BY <1>2 DEF Publish
  <2>2. ASSUME NEW w \in Worker PROVE GoodJob(job[w], Len(events) + 1)
    <3>1. GoodJob(job[w], Len(events)) /\ job[w].left \in SUBSET Nat
      BY WorkerConstants DEF GoodJobs, Job
    <3> QED
      BY <1>8, <3>1 DEF GoodJob
  <2> QED
    BY <1>10, <2>1, <2>2 DEF GoodJobs
<1> QED
  BY <1>6, <1>12, <1>13

LEMMA WriteDirectlySafe ==
  ASSUME GoodTables, GoodEvents, GoodJobs, NEW d \in direct, WriteDirectly(d)
  PROVE  GoodTables' /\ GoodEvents' /\ GoodJobs'
<1>1. d.ver \in Nat
  BY DEF GoodTables
<1>2. GoodTables'
  BY <1>1 DEF WriteDirectly, GoodTables
<1> QED
  BY <1>2, NothingChanges DEF WriteDirectly

\* A job that starts.
LEMMA StartSafe ==
  ASSUME GoodTables, GoodEvents, GoodJobs, NEW w \in Worker,
         ProcessOutbox(w) \/ RetryFailedOutbox(w)
  PROVE  GoodTables' /\ GoodEvents' /\ GoodJobs'
<1>1. /\ UNCHANGED <<row, events, doc, direct, interrupts>>
  BY DEF ProcessOutbox, RetryFailedOutbox
<1>2. \E j : GoodJob(j, Len(events)) /\ job' = [job EXCEPT ![w] = j]
  <2>1. \A i \in 1..Len(events) : GoodEvent(events[i])
    BY DEF GoodEvents
  <2>2. CASE ProcessOutbox(w)
    <3> DEFINE pending == {i \in 1..Len(events) : events[i].status = "PENDING"}
    <3>1. \A i \in pending : events[i].retries <= MaxRetries
      BY <2>1 DEF GoodEvent
    <3>2. GoodJob(Take("mark", pending), Len(events))
      <4>1. pending # {}
        BY <2>2 DEF ProcessOutbox
      <4>2. pending \in SUBSET (1..Len(events))
        OBVIOUS
      <4> HIDE DEF pending
      <4> QED
        BY <3>1, <4>1, <4>2, TakeIsGood
    <3> QED
      BY <2>2, <3>2 DEF ProcessOutbox
  <2>3. CASE RetryFailedOutbox(w)
    <3> DEFINE failed == {i \in 1..Len(events) : /\ events[i].status = "FAILED"
                                                 /\ events[i].retries < MaxRetries}
    <3>1. \A i \in failed : events[i].retries < MaxRetries /\ events[i].retries <= MaxRetries
      BY <2>1, WorkerConstants DEF GoodEvent, Event
    <3>2. GoodJob(Take("retry", failed), Len(events))
      <4>1. failed # {}
        BY <2>3 DEF RetryFailedOutbox
      <4>2. failed \in SUBSET (1..Len(events))
        OBVIOUS
      <4> HIDE DEF failed
      <4> QED
        BY <3>1, <4>1, <4>2, TakeIsGood
    <3> QED
      BY <2>3, <3>2 DEF RetryFailedOutbox
  <2> QED
    BY <2>2, <2>3
<1> QED
  BY <1>1, <1>2, OneJobChanges, NothingChanges

\* A job that goes on with the same event.
LEMMA GoOnIsGood ==
  ASSUME GoodJobs, NEW w \in Worker, job[w].phase # "idle",
         NEW phase \in Phase \ {"idle", "retry"}
  PROVE  GoodJob([job[w] EXCEPT !.phase = phase], Len(events))
  BY DEF GoodJobs, GoodJob, Job, Phase

LEMMA MarkSafe ==
  ASSUME GoodTables, GoodEvents, GoodJobs, NEW w \in Worker, Mark(w)
  PROVE  GoodTables' /\ GoodEvents' /\ GoodJobs'
<1> DEFINE e == [events[Current(w)] EXCEPT !.status = "PROCESSING"]
<1>1. Current(w) \in 1..Len(events) /\ GoodEvent(events[Current(w)])
  BY CurrentIsLeft DEF Mark
<1>2. GoodEvent(e)
  BY <1>1 DEF GoodEvent, Event, Status
<1>3. events' = [events EXCEPT ![Current(w)] = e]
  BY DEF Mark
<1> HIDE DEF e
<1>4. GoodEvents' /\ Len(events') = Len(events)
  BY <1>1, <1>2, <1>3, OneEventChanges
<1>5. GoodJobs'
  <2>1. GoodJob([job[w] EXCEPT !.phase = "read"], Len(events))
    BY GoOnIsGood DEF Mark, Phase
  <2>2. job' = [job EXCEPT ![w] = [job[w] EXCEPT !.phase = "read"]]
    BY DEF Mark, Turn
  <2> QED
    BY <1>4, <2>1, <2>2, OneJobChanges
<1> QED
  BY <1>4, <1>5, NothingChanges DEF Mark

\* A look at the row, or a call to Elasticsearch and its failure.
LEMMA EventSafe ==
  ASSUME GoodTables, GoodEvents, GoodJobs, NEW w \in Worker,
         DeleteDocument(w) \/ ReadEntity(w) \/ IndexDocument(w)
  PROVE  GoodTables' /\ GoodEvents' /\ GoodJobs'
<1>1. job[w].phase # "idle" /\ UNCHANGED <<row, events, doc, direct, interrupts>>
  BY DEF DeleteDocument, ReadEntity, IndexDocument
<1>2. PICK phase \in {"write", "complete", "fail"} : Turn(w, phase)
  BY DEF DeleteDocument, ReadEntity, IndexDocument
<1>3. GoodJob([job[w] EXCEPT !.phase = phase], Len(events))
  BY <1>1, GoOnIsGood DEF Phase
<1>4. GoodJobs'
  BY <1>1, <1>2, <1>3, OneJobChanges DEF Turn
<1> QED
  BY <1>1, <1>4, NothingChanges

LEMMA MarkCompletedSafe ==
  ASSUME GoodTables, GoodEvents, GoodJobs, NEW w \in Worker, MarkCompleted(w)
  PROVE  GoodTables' /\ GoodEvents' /\ GoodJobs'
<1> DEFINE e == [events[Current(w)] EXCEPT !.status = "COMPLETED"]
           rest == job[w].left \ {Current(w)}
           next == [phase |-> "mark", left |-> rest,
                    seen |-> [job[w].seen EXCEPT ![Current(w)] = 0]]
<1>1. job[w].phase = "complete"
  BY DEF MarkCompleted
<1>2. /\ Current(w) \in 1..Len(events) /\ Current(w) \in 1..MaxEvents
      /\ GoodEvent(events[Current(w)])
  BY <1>1, CurrentIsLeft
<1>3. GoodEvent(e)
  BY <1>2 DEF GoodEvent, Event, Status
<1>4. events' = [events EXCEPT ![Current(w)] = e]
  BY DEF MarkCompleted
<1> HIDE DEF e
<1>5. GoodEvents' /\ Len(events') = Len(events)
  BY <1>2, <1>3, <1>4, OneEventChanges
<1>6. CASE rest = {}
  <2>1. job' = [job EXCEPT ![w] = Idle]
    BY <1>6 DEF MarkCompleted
  <2>2. GoodJob(Idle, Len(events))
    BY IdleIsGood DEF GoodEvents
  <2> QED
    BY <1>5, <2>1, <2>2, OneJobChanges, NothingChanges DEF MarkCompleted
<1>7. CASE rest # {}
  <2>1. job' = [job EXCEPT ![w] = next]
    BY <1>7 DEF MarkCompleted
  <2>2. GoodJob(job[w], Len(events)) /\ job[w] \in Job
    BY DEF GoodJobs
  <2>3. next \in Job
    BY <2>2 DEF Job, Phase
  <2>4. \A i \in rest : next.seen[i] = job[w].seen[i]
    BY <1>2, <2>2 DEF Job
  <2>5. next.phase = "mark" /\ next.left = rest /\ rest \subseteq job[w].left
    OBVIOUS
  <2> HIDE DEF next, rest
  <2>6. GoodJob(next, Len(events))
    BY <1>7, <2>2, <2>3, <2>4, <2>5 DEF GoodJob
  <2> QED
    BY <1>5, <2>1, <2>6, OneJobChanges, NothingChanges DEF MarkCompleted
<1> QED
  BY <1>6, <1>7

\* An event whose status and retry count a job sets, within the limits.
LEMMA CountedIsGood ==
  ASSUME NEW e, GoodEvent(e), NEW status \in Status, NEW n \in Nat,
         n <= MaxRetries + 1, status = "PENDING" => n <= MaxRetries
  PROVE  GoodEvent([e EXCEPT !.status = status, !.retries = n])
<1> DEFINE f == [e EXCEPT !.status = status, !.retries = n]
<1>1. f \in Event
  BY DEF GoodEvent, Event
<1>2. f.status = status /\ f.retries = n
  BY DEF GoodEvent, Event
<1> HIDE DEF f
<1>3. GoodEvent(f)
  BY <1>1, <1>2 DEF GoodEvent
<1> QED
  BY <1>3 DEF f

LEMMA MarkFailedSafe ==
  ASSUME GoodTables, GoodEvents, GoodJobs, NEW w \in Worker, MarkFailed(w)
  PROVE  GoodTables' /\ GoodEvents' /\ GoodJobs'
<1> DEFINE e == [events[Current(w)] EXCEPT !.status = "FAILED",
                                           !.retries = job[w].seen[Current(w)] + 1]
<1>1. /\ Current(w) \in 1..Len(events) /\ GoodEvent(events[Current(w)])
      /\ job[w].seen[Current(w)] \in 0..MaxRetries
  BY CurrentIsLeft DEF MarkFailed
<1>2. GoodEvent(e)
  <2>1. /\ job[w].seen[Current(w)] + 1 \in Nat
        /\ job[w].seen[Current(w)] + 1 <= MaxRetries + 1
    BY <1>1, WorkerConstants
  <2> QED
    BY <1>1, <2>1, CountedIsGood DEF Status
<1>3. events' = [events EXCEPT ![Current(w)] = e]
  BY DEF MarkFailed
<1> HIDE DEF e
<1>4. GoodEvents' /\ Len(events') = Len(events)
  BY <1>1, <1>2, <1>3, OneEventChanges
<1>5. GoodJob(Idle, Len(events))
  BY IdleIsGood DEF GoodEvents
<1> QED
  BY <1>4, <1>5, OneJobChanges, NothingChanges DEF MarkFailed, Finish

LEMMA MarkFailedAsRetrySafe ==
  ASSUME GoodTables, GoodEvents, GoodJobs, NEW w \in Worker, MarkFailedAsRetry(w)
  PROVE  GoodTables' /\ GoodEvents' /\ GoodJobs'
<1> DEFINE e(i) == IF i \in job[w].left
                   THEN [events[i] EXCEPT !.status = "PENDING", !.retries = job[w].seen[i] + 1]
                   ELSE events[i]
<1>1. Len(events) \in Nat /\ events \in Seq(Event) /\ DOMAIN events = 1..Len(events)
  BY DEF GoodEvents
<1>2. \A i \in 1..Len(events) : GoodEvent(e(i))
  <2> SUFFICES ASSUME NEW i \in 1..Len(events) PROVE GoodEvent(e(i))
    OBVIOUS
  <2>1. GoodEvent(events[i])
    BY DEF GoodEvents
  <2>2. CASE i \in job[w].left
    <3>1. job[w].seen[i] \in Nat /\ job[w].seen[i] < MaxRetries
      BY <2>2 DEF MarkFailedAsRetry, GoodJobs, GoodJob, Job
    <3>2. job[w].seen[i] + 1 \in Nat /\ job[w].seen[i] + 1 <= MaxRetries
      BY <3>1, WorkerConstants
    <3>3. job[w].seen[i] + 1 <= MaxRetries + 1
      BY <3>2, WorkerConstants
    <3>4. GoodEvent([events[i] EXCEPT !.status = "PENDING", !.retries = job[w].seen[i] + 1])
      BY <2>1, <3>2, <3>3, CountedIsGood DEF Status
    <3> QED
      BY <2>2, <3>4
  <2>3. CASE i \notin job[w].left
    BY <2>1, <2>3
  <2> QED
    BY <2>2, <2>3
<1>3. events' = [i \in 1..Len(events) |-> e(i)]
  BY <1>1 DEF MarkFailedAsRetry
<1> HIDE DEF e
<1>4. \A i \in 1..Len(events) : e(i) \in Event
  BY <1>2 DEF GoodEvent
<1>5. events' \in Seq(Event) /\ Len(events') = Len(events)
  BY <1>1, <1>3, <1>4
<1>6. GoodEvents'
  BY <1>2, <1>3, <1>5 DEF GoodEvents
<1>7. GoodJob(Idle, Len(events))
  BY <1>1, IdleIsGood
<1> QED
  BY <1>5, <1>6, <1>7, OneJobChanges, NothingChanges DEF MarkFailedAsRetry, Finish

LEMMA InterruptSafe ==
  ASSUME GoodTables, GoodEvents, GoodJobs, NEW w \in Worker, Interrupt(w)
  PROVE  GoodTables' /\ GoodEvents' /\ GoodJobs'
<1>1. GoodTables'
  BY WorkerConstants DEF Interrupt, GoodTables
<1>2. GoodJob(Idle, Len(events))
  BY IdleIsGood DEF GoodEvents
<1> QED
  BY <1>1, <1>2, OneJobChanges, NothingChanges DEF Interrupt, Finish

-----------------------------------------------------------------------------
\* The worker's invariant holds in every reachable state: types, retry counts
\* within the limit, and jobs that have read no more than that.
THEOREM WorkerInvariant == Spec => []WorkerInv
<1>1. Init => WorkerInv
  <2> SUFFICES ASSUME Init PROVE WorkerInv
    OBVIOUS
  <2>1. GoodTables
    BY WorkerConstants DEF Init, GoodTables, RowState
  <2>2. GoodEvents
    BY WorkerConstants DEF Init, GoodEvents
  <2>3. GoodJobs
    <3>1. events = <<>> /\ Len(events) = 0
      BY DEF Init
    <3>2. GoodJob(Idle, 0) /\ Idle \in Job
      BY IdleIsGood DEF GoodJob
    <3> QED
      BY <3>1, <3>2 DEF Init, GoodJobs
  <2> QED
    BY <2>1, <2>2, <2>3, Parts
<1>2. WorkerInv /\ [Next]_vars => WorkerInv'
  <2> SUFFICES ASSUME GoodTables, GoodEvents, GoodJobs, [Next]_vars
               PROVE  GoodTables' /\ GoodEvents' /\ GoodJobs'
    <3>1. WorkerInv' <=> GoodTables' /\ GoodEvents' /\ GoodJobs'
      BY Parts, PTL
    <3> QED
      BY <3>1, Parts
  <2>1. CASE Request
    BY <2>1, RequestSafe
  <2>2. ASSUME NEW d \in direct, WriteDirectly(d)
        PROVE  GoodTables' /\ GoodEvents' /\ GoodJobs'
    BY <2>2, WriteDirectlySafe
  <2>3. ASSUME NEW w \in Worker,
               ProcessOutbox(w) \/ RetryFailedOutbox(w) \/ Work(w) \/ Interrupt(w)
        PROVE  GoodTables' /\ GoodEvents' /\ GoodJobs'
    BY <2>3, StartSafe, MarkSafe, EventSafe, MarkCompletedSafe,
       MarkFailedSafe, MarkFailedAsRetrySafe, InterruptSafe DEF Work
  <2>4. CASE UNCHANGED vars
    BY <2>4, NothingChanges DEF vars
  <2> QED
    BY <2>1, <2>2, <2>3, <2>4 DEF Next
<1> QED
  BY <1>1, <1>2, PTL DEF Spec

\* No event is counted beyond the limit and the failure after it, nor PENDING
\* beyond the limit: retries end.
THEOREM RetriesEnd == Spec => []RetriesBounded
<1>1. WorkerInv => RetriesBounded
  BY DEF WorkerInv
<1> QED
  BY <1>1, WorkerInvariant, PTL

-----------------------------------------------------------------------------
(* Events that are PROCESSING and in the hands of no job.  A step loses one *)
(* only if it is an interrupt, and then only the event its job was at.      *)

Lost == {i \in 1..Len(events) : /\ events[i].status = "PROCESSING"
                                /\ \A w \in Worker : ~AtWork(w, i)}

\* Working on an event is a matter of a job's phase and batch.
LEMMA WorkKept ==
  ASSUME NEW w \in Worker, job'[w].left = job[w].left, NEW i,
         job[w].phase \in {"read", "write", "complete", "fail"} =>
           job'[w].phase \in {"read", "write", "complete", "fail"}
  PROVE  AtWork(w, i) => AtWork(w, i)'
<1>1. Current(w)' = Current(w)
  BY DEF Current
<1> QED
  BY <1>1 DEF AtWork

\* The count of lost events keeps up with the interrupts.
LEMMA LossCounted ==
  ASSUME GoodTables, GoodEvents, OneLostPerInterrupt, NEW i,
         \/ Lost' \subseteq Lost /\ interrupts' = interrupts
         \/ Lost' \subseteq Lost \cup {i} /\ interrupts' = interrupts + 1
  PROVE  OneLostPerInterrupt'
<1>1. IsFiniteSet(Lost)
  <2>1. IsFiniteSet(1..Len(events))
    BY FS_Interval DEF GoodEvents
  <2>2. Lost \subseteq 1..Len(events)
    BY DEF Lost
  <2> QED
    BY <2>1, <2>2, FS_Subset
<1>2. Cardinality(Lost) \in Nat /\ Cardinality(Lost) <= interrupts /\ interrupts \in Nat
  BY <1>1, FS_CardinalityType DEF OneLostPerInterrupt, Lost, GoodTables
<1>3. OneLostPerInterrupt' <=> Cardinality(Lost') <= interrupts'
  BY DEF OneLostPerInterrupt, Lost
<1>4. CASE Lost' \subseteq Lost /\ interrupts' = interrupts
  <2>1. Cardinality(Lost') \in Nat /\ Cardinality(Lost') <= Cardinality(Lost)
    BY <1>1, <1>4, FS_Subset, FS_CardinalityType
  <2> QED
    BY <1>2, <1>3, <1>4, <2>1
<1>5. CASE Lost' \subseteq Lost \cup {i} /\ interrupts' = interrupts + 1
  <2>1. /\ IsFiniteSet(Lost \cup {i}) /\ Cardinality(Lost \cup {i}) \in Nat
        /\ Cardinality(Lost \cup {i}) <= Cardinality(Lost) + 1
    <3>1. /\ IsFiniteSet(Lost \cup {i})
          /\ \/ Cardinality(Lost \cup {i}) = Cardinality(Lost)
             \/ Cardinality(Lost \cup {i}) = Cardinality(Lost) + 1
      BY <1>1, FS_AddElement
    <3> QED
      BY <1>2, <3>1
  <2>2. Cardinality(Lost') \in Nat /\ Cardinality(Lost') <= Cardinality(Lost \cup {i})
    BY <1>5, <2>1, FS_Subset, FS_CardinalityType
  <2> QED
    BY <1>2, <1>3, <1>5, <2>1, <2>2
<1> QED
  BY <1>4, <1>5

\* A worker's step concerns the others only through the events it writes.
LEMMA OtherWorkKept ==
  ASSUME GoodJobs, NEW w \in Worker, NEW j, job' = [job EXCEPT ![w] = j],
         NEW v \in Worker \ {w}, NEW i
  PROVE  AtWork(v, i) => AtWork(v, i)'
<1>1. job'[v] = job[v]
  BY DEF GoodJobs
<1> QED
  BY <1>1, WorkKept

\* So it loses an event only if its own job leaves it PROCESSING.
LEMMA LossIsOwn ==
  ASSUME GoodJobs, NEW w \in Worker, NEW j, job' = [job EXCEPT ![w] = j],
         Len(events') = Len(events),
         NEW i \in Lost',
         events'[i].status = "PROCESSING" /\ ~AtWork(w, i)' =>
           events[i].status = "PROCESSING" /\ ~AtWork(w, i)
  PROVE  i \in Lost
<1>1. /\ i \in 1..Len(events) /\ events'[i].status = "PROCESSING"
      /\ \A v \in Worker : ~AtWork(v, i)'
  BY DEF Lost
<1>2. events[i].status = "PROCESSING" /\ ~AtWork(w, i)
  BY <1>1
<1>3. \A v \in Worker \ {w} : ~AtWork(v, i)
  BY <1>1, OtherWorkKept
<1> QED
  BY <1>1, <1>2, <1>3 DEF Lost

LEMMA RequestLosesNone ==
  ASSUME GoodEvents, GoodJobs, Request
  PROVE  Lost' \subseteq Lost /\ interrupts' = interrupts
<1>1. PICK e \in Entity, type \in {"CREATED", "UPDATED", "DELETED"} : Publish(e, type)
  BY DEF Request, Create, Update, UpdateStatus, Delete
<1> DEFINE new == [entity |-> e, type |-> type, status |-> "PENDING", retries |-> 0]
<1>2. /\ events' = Append(events, new) /\ job' = job /\ interrupts' = interrupts
      /\ events \in Seq(Event) /\ Len(events) \in Nat
  BY <1>1 DEF Publish, GoodEvents
<1>3. new.status = "PENDING"
  OBVIOUS
<1>4. ASSUME NEW i \in Lost' PROVE i \in Lost
  <2>1. /\ i \in 1..Len(events') /\ events'[i].status = "PROCESSING"
        /\ \A w \in Worker : ~AtWork(w, i)'
    BY <1>4 DEF Lost
  <2> HIDE DEF new
  <2>2. i \in 1..Len(events) /\ events'[i] = events[i]
    BY <1>2, <1>3, <2>1
  <2>3. \A w \in Worker : ~AtWork(w, i)
    BY <1>2, <2>1, WorkKept
  <2> QED
    BY <2>1, <2>2, <2>3 DEF Lost
<1> QED
  BY <1>2, <1>4

LEMMA MarkLosesNone ==
  ASSUME GoodEvents, GoodJobs, NEW w \in Worker, Mark(w)
  PROVE  Lost' \subseteq Lost /\ interrupts' = interrupts
<1> DEFINE j == [job[w] EXCEPT !.phase = "read"]
<1>1. /\ job' = [job EXCEPT ![w] = j] /\ interrupts' = interrupts
      /\ events' = [events EXCEPT ![Current(w)].status = "PROCESSING"]
      /\ job[w].phase = "mark" /\ Len(events') = Len(events)
  BY DEF Mark, Turn, GoodEvents
<1>2. job'[w].phase = "read" /\ job'[w].left = job[w].left
  BY <1>1 DEF GoodJobs, Job
<1> HIDE DEF j
<1>3. Current(w)' = Current(w)
  BY <1>2 DEF Current
<1>4. AtWork(w, Current(w))'
  BY <1>2, <1>3 DEF AtWork
<1>5. ASSUME NEW i \in Lost' PROVE i \in Lost
  <2>1. i \in 1..Len(events)
    BY <1>1, <1>5 DEF Lost
  <2>2. CASE i = Current(w)
    BY <1>3, <1>4, <1>5, <2>2 DEF Lost, AtWork
  <2>3. CASE i # Current(w)
    <3>1. events'[i] = events[i] /\ ~AtWork(w, i)
      BY <1>1, <2>1, <2>3 DEF AtWork, GoodEvents
    <3> QED
      BY <1>1, <1>5, <3>1, LossIsOwn
  <2> QED
    BY <2>2, <2>3
<1> QED
  BY <1>1, <1>5

\* A job that goes on with its event, or starts.
LEMMA OthersLoseNone ==
  ASSUME GoodEvents, GoodJobs, NEW w \in Worker,
         \/ DeleteDocument(w) \/ ReadEntity(w) \/ IndexDocument(w)
         \/ ProcessOutbox(w) \/ RetryFailedOutbox(w)
  PROVE  Lost' \subseteq Lost /\ interrupts' = interrupts
<1>1. events' = events /\ interrupts' = interrupts
  BY DEF DeleteDocument, ReadEntity, IndexDocument, ProcessOutbox, RetryFailedOutbox
<1>2. PICK j : job' = [job EXCEPT ![w] = j]
  BY DEF DeleteDocument, ReadEntity, IndexDocument, ProcessOutbox, RetryFailedOutbox, Turn
<1>3. ASSUME NEW i PROVE AtWork(w, i) => AtWork(w, i)'
  <2>1. CASE ProcessOutbox(w) \/ RetryFailedOutbox(w)
    BY <2>1 DEF ProcessOutbox, RetryFailedOutbox, AtWork
  <2>2. CASE DeleteDocument(w) \/ ReadEntity(w) \/ IndexDocument(w)
    <3>1. /\ job'[w].left = job[w].left
          /\ job'[w].phase \in {"read", "write", "complete", "fail"}
      BY <2>2 DEF DeleteDocument, ReadEntity, IndexDocument, Turn, GoodJobs, Job
    <3> QED
      BY <3>1, WorkKept
  <2> QED
    BY <2>1, <2>2
<1>4. ASSUME NEW i \in Lost' PROVE i \in Lost
  BY <1>1, <1>2, <1>3, LossIsOwn
<1> QED
  BY <1>1, <1>4

\* Events that are put back are PENDING; the others stay what they were.
LEMMA PutBack ==
  ASSUME GoodEvents, NEW w \in Worker, MarkFailedAsRetry(w)
  PROVE  /\ Len(events') = Len(events)
         /\ \A i \in 1..Len(events) :
              events'[i].status = "PROCESSING" => events'[i] = events[i]
<1> DEFINE e(i) == IF i \in job[w].left
                   THEN [events[i] EXCEPT !.status = "PENDING", !.retries = job[w].seen[i] + 1]
                   ELSE events[i]
<1>1. Len(events) \in Nat /\ events \in Seq(Event) /\ DOMAIN events = 1..Len(events)
  BY DEF GoodEvents
<1>2. events' = [i \in 1..Len(events) |-> e(i)]
  BY <1>1 DEF MarkFailedAsRetry
<1>3. Len(events') = Len(events)
  <2> HIDE DEF e
  <2> QED
    BY <1>1, <1>2
<1>4. ASSUME NEW i \in 1..Len(events), events'[i].status = "PROCESSING"
      PROVE  events'[i] = events[i]
  <2>1. events'[i] = e(i) /\ events[i] \in Event
    <3> HIDE DEF e
    <3> QED
      BY <1>1, <1>2
  <2>2. i \in job[w].left => e(i).status = "PENDING"
    BY <2>1 DEF Event
  <2>3. i \notin job[w].left => e(i) = events[i]
    OBVIOUS
  <2> HIDE DEF e
  <2> QED
    BY <1>4, <2>1, <2>2, <2>3
<1> QED
  BY <1>3, <1>4

\* A job that is done with its event, or puts events back, changes their status.
LEMMA MarkedAreNotLost ==
  ASSUME GoodEvents, GoodJobs, NEW w \in Worker,
         MarkCompleted(w) \/ MarkFailed(w) \/ MarkFailedAsRetry(w)
  PROVE  Lost' \subseteq Lost /\ interrupts' = interrupts
<1>1. interrupts' = interrupts
  BY DEF MarkCompleted, MarkFailed, MarkFailedAsRetry
<1>2. PICK j : job' = [job EXCEPT ![w] = j]
  BY DEF MarkCompleted, MarkFailed, MarkFailedAsRetry, Finish
<1>3. events \in Seq(Event) /\ Len(events') = Len(events)
  BY PutBack DEF MarkCompleted, MarkFailed, GoodEvents
<1>4. ASSUME NEW i \in Lost' PROVE i \in Lost
  <2>1. i \in 1..Len(events) /\ events'[i].status = "PROCESSING"
    BY <1>3, <1>4 DEF Lost
  <2>2. events[i] \in Event
    BY <1>3, <2>1
  <2>3. events[i].status = "PROCESSING" /\ ~AtWork(w, i)
    <3>1. CASE MarkCompleted(w)
      BY <1>3, <2>1, <2>2, <3>1 DEF MarkCompleted, AtWork, Event
    <3>2. CASE MarkFailed(w)
      BY <1>3, <2>1, <2>2, <3>2 DEF MarkFailed, AtWork, Event
    <3>3. CASE MarkFailedAsRetry(w)
      <4>1. events'[i] = events[i]
        BY <2>1, <3>3, PutBack
      <4>2. ~AtWork(w, i)
        BY <3>3 DEF MarkFailedAsRetry, AtWork
      <4> QED
        BY <2>1, <4>1, <4>2
    <3> QED
      BY <3>1, <3>2, <3>3
  <2> QED
    BY <1>2, <1>3, <1>4, <2>3, LossIsOwn
<1> QED
  BY <1>1, <1>4

\* An interrupt leaves the event its job was at, and no other.
LEMMA InterruptLosesOne ==
  ASSUME GoodEvents, GoodJobs, NEW w \in Worker, Interrupt(w)
  PROVE  Lost' \subseteq Lost \cup {Current(w)} /\ interrupts' = interrupts + 1
<1>1. /\ events' = events /\ interrupts' = interrupts + 1
      /\ job' = [job EXCEPT ![w] = Idle]
  BY DEF Interrupt, Finish
<1>2. ASSUME NEW i \in Lost', i # Current(w) PROVE i \in Lost
  <2>1. ~AtWork(w, i)
    BY <1>2 DEF AtWork
  <2> QED
    BY <1>1, <1>2, <2>1, LossIsOwn
<1> QED
  BY <1>1, <1>2

\* Nothing but an interrupt takes an event out of circulation, and each takes
\* one at most.
THEOREM LossBounded == Spec => []OneLostPerInterrupt
<1>1. Init => OneLostPerInterrupt
  <2> SUFFICES ASSUME Init PROVE OneLostPerInterrupt
    OBVIOUS
  <2>1. Lost = {} /\ interrupts = 0
    BY DEF Init, Lost
  <2>2. Cardinality(Lost) = 0
    BY <2>1, FS_EmptySet
  <2> QED
    BY <2>1, <2>2 DEF OneLostPerInterrupt, Lost
<1>2. WorkerInv /\ OneLostPerInterrupt /\ [Next]_vars => OneLostPerInterrupt'
  <2> SUFFICES ASSUME GoodTables, GoodEvents, GoodJobs, OneLostPerInterrupt, [Next]_vars
               PROVE  OneLostPerInterrupt'
    BY Parts
  <2>1. CASE Request
    BY <2>1, RequestLosesNone, LossCounted
  <2>2. ASSUME NEW d \in direct, WriteDirectly(d) PROVE OneLostPerInterrupt'
    <3>1. UNCHANGED <<events, job, interrupts>>
      BY <2>2 DEF WriteDirectly
    <3>2. Lost' = Lost
      BY <3>1 DEF Lost, AtWork, Current
    <3> QED
      BY <3>1, <3>2, LossCounted
  <2>3. ASSUME NEW w \in Worker,
               ProcessOutbox(w) \/ RetryFailedOutbox(w) \/ Work(w)
        PROVE  OneLostPerInterrupt'
    <3>1. Lost' \subseteq Lost /\ interrupts' = interrupts
      BY <2>3, MarkLosesNone, OthersLoseNone, MarkedAreNotLost DEF Work
    <3> QED
      BY <3>1, LossCounted
  <2>4. ASSUME NEW w \in Worker, Interrupt(w) PROVE OneLostPerInterrupt'
    BY <2>4, InterruptLosesOne, LossCounted
  <2>5. CASE UNCHANGED vars
    <3>1. Lost' = Lost /\ interrupts' = interrupts
      BY <2>5 DEF vars, Lost, AtWork, Current
    <3> QED
      BY <3>1, LossCounted
  <2> QED
    BY <2>1, <2>2, <2>3, <2>4, <2>5 DEF Next
<1> QED
  BY <1>1, <1>2, WorkerInvariant, PTL DEF Spec

-----------------------------------------------------------------------------
(* Jobs apart.  As long as no two jobs hold the same event, the table says  *)
(* what each job has read, and what a job is at says who is to write what.  *)

\* No event is in the batches of two jobs.
BatchesApart ==
  \A v, w \in Worker : v # w => job[v].left \cap job[w].left = {}

OneWorker == \A v, w \in Worker : v = w

\* The events of a batch are as they were when the job took them, but for the
\* one it is at.
JobInStep(w) ==
  /\ job[w].phase = "mark" => \A i \in job[w].left : events[i].status = "PENDING"
  /\ job[w].phase \in {"read", "write", "complete", "fail"} =>
       /\ events[Current(w)].status = "PROCESSING"
       /\ \A i \in job[w].left \ {Current(w)} : events[i].status = "PENDING"
  /\ job[w].phase = "retry" =>
       \A i \in job[w].left : events[i].status = "FAILED" /\ events[i].retries < MaxRetries

InStep == \A w \in Worker : JobInStep(w)

\* A job is good, and at one of its events unless it is idle.
LEMMA JobHolds ==
  ASSUME GoodEvents, GoodJobs, NEW w \in Worker
  PROVE  /\ job[w] \in Job /\ GoodJob(job[w], Len(events))
         /\ job[w].left \subseteq 1..Len(events)
         /\ job[w].phase # "idle" => Current(w) \in job[w].left /\ Current(w) \in 1..Len(events)
<1>1. Len(events) \in Nat /\ MaxEvents \in Nat
  BY WorkerConstants DEF GoodEvents
<1>2. GoodJob(job[w], Len(events)) /\ job[w] \in Job
  BY DEF GoodJobs
<1>3. job[w].left \in SUBSET (1..MaxEvents) /\ \A i \in job[w].left : i <= Len(events)
  BY <1>2 DEF GoodJob, Job
<1>4. job[w].left \subseteq 1..Len(events)
  BY <1>1, <1>3
<1> QED
  BY <1>2, <1>4, CurrentIsLeft

LEMMA JobsStay == UNCHANGED job => \A w \in Worker : Current(w)' = Current(w)
  BY DEF Current

LEMMA NewJob ==
  ASSUME GoodJobs, NEW w \in Worker
  PROVE  \A j : job' = [job EXCEPT ![w] = j] => job'[w] = j
  BY DEF GoodJobs

\* The batch of a job that starts is some of the events it looked for.
LEMMA TakeTakes ==
  ASSUME NEW phase, NEW ids
  PROVE  Take(phase, ids).phase = phase /\ Take(phase, ids).left \subseteq ids
  BY DEF Take

\* A step of a worker leaves the other jobs alone, and changes no event but of
\* its own batch.
LEMMA OthersKept ==
  ASSUME GoodEvents, GoodJobs, NEW w \in Worker,
         ProcessOutbox(w) \/ RetryFailedOutbox(w) \/ Work(w) \/ Interrupt(w)
  PROVE  /\ Len(events') = Len(events)
         /\ \A i \in 1..Len(events) \ job[w].left : events'[i] = events[i]
         /\ \A v \in Worker \ {w} : job'[v] = job[v] /\ Current(v)' = Current(v)
<1>1. \E j : job' = [job EXCEPT ![w] = j]
  BY DEF ProcessOutbox, RetryFailedOutbox, Work, Mark, DeleteDocument, ReadEntity, IndexDocument,
         MarkCompleted, MarkFailed, MarkFailedAsRetry, Interrupt, Turn, Finish
<1>2. \A v \in Worker \ {w} : job'[v] = job[v]
  BY <1>1 DEF GoodJobs
<1>3. \A v \in Worker \ {w} : Current(v)' = Current(v)
  BY <1>2 DEF Current
<1>4. CASE Mark(w) \/ MarkCompleted(w) \/ MarkFailed(w)
  <2>1. Current(w) \in job[w].left
    BY <1>4, JobHolds DEF Mark, MarkCompleted, MarkFailed
  <2>2. \E e : events' = [events EXCEPT ![Current(w)] = e]
    <3>1. CASE Mark(w)
      BY <3>1 DEF Mark
    <3>2. CASE MarkCompleted(w)
      BY <3>2 DEF MarkCompleted
    <3>3. CASE MarkFailed(w)
      <4>1. events' = [events EXCEPT ![Current(w)] =
                         [events[Current(w)] EXCEPT !.status = "FAILED",
                                                    !.retries = job[w].seen[Current(w)] + 1]]
        BY <3>3 DEF MarkFailed
      <4> QED
        BY <4>1
    <3> QED
      BY <1>4, <3>1, <3>2, <3>3
  <2> QED
    BY <1>2, <1>3, <2>1, <2>2 DEF GoodEvents
<1>5. CASE MarkFailedAsRetry(w)
  <2>1. Len(events') = Len(events) /\ DOMAIN events = 1..Len(events)
    BY <1>5, PutBack DEF GoodEvents
  <2>2. \A i \in 1..Len(events) \ job[w].left : events'[i] = events[i]
    BY <1>5, <2>1 DEF MarkFailedAsRetry
  <2> QED
    BY <1>2, <1>3, <2>1, <2>2
<1>6. CASE UNCHANGED events
  BY <1>2, <1>3, <1>6
<1> QED
  BY <1>4, <1>5, <1>6 DEF ProcessOutbox, RetryFailedOutbox, Work, DeleteDocument, ReadEntity,
                          IndexDocument, Interrupt

LEMMA IdleInStep == ASSUME NEW w \in Worker, job'[w] = Idle PROVE JobInStep(w)'
  BY DEF JobInStep, Idle

LEMMA InStepInit == Init => InStep
<1>1. Init => \A w \in Worker : job[w] = Idle
  BY DEF Init
<1> QED
  BY <1>1 DEF InStep, JobInStep, Idle

LEMMA RequestInStep ==
  ASSUME GoodEvents, GoodJobs, InStep, Request
  PROVE  InStep'
<1>1. PICK e \in Entity, type \in {"CREATED", "UPDATED", "DELETED"} : Publish(e, type)
  BY DEF Request, Create, Update, UpdateStatus, Delete
<1>2. \A i \in 1..Len(events) : events'[i] = events[i]
  BY <1>1 DEF Publish, GoodEvents
<1>3. UNCHANGED job
  BY <1>1 DEF Publish
<1>4. ASSUME NEW w \in Worker PROVE JobInStep(w)'
  <2>1. job'[w] = job[w] /\ Current(w)' = Current(w)
    BY <1>3, JobsStay
  <2>2. JobInStep(w)
    BY DEF InStep
  <2> QED
    BY <1>2, <2>1, <2>2, JobHolds DEF JobInStep
<1> QED
  BY <1>4 DEF InStep

\* The job that makes a step stays in step with its own events.
LEMMA OwnInStep ==
  ASSUME GoodTables, GoodEvents, GoodJobs, NEW w \in Worker, JobInStep(w),
         ProcessOutbox(w) \/ RetryFailedOutbox(w) \/ Work(w) \/ Interrupt(w)
  PROVE  JobInStep(w)'
<1>1. \A j : job' = [job EXCEPT ![w] = j] => job'[w] = j
  BY NewJob
<1>2. /\ GoodJob(job[w], Len(events)) /\ job[w].left \subseteq 1..Len(events)
      /\ job[w].phase # "idle" => Current(w) \in job[w].left /\ Current(w) \in 1..Len(events)
  BY JobHolds
<1>3. \A i \in 1..Len(events) : events[i] \in Event
  BY DEF GoodEvents, GoodEvent
<1>4. CASE ProcessOutbox(w)
  <2> DEFINE pending == {i \in 1..Len(events) : events[i].status = "PENDING"}
  <2>1. job'[w] = Take("mark", pending) /\ events' = events
    BY <1>1, <1>4 DEF ProcessOutbox
  <2>2. job'[w].phase = "mark" /\ job'[w].left \subseteq pending
    BY <2>1, TakeTakes
  <2> QED
    BY <2>1, <2>2 DEF JobInStep
<1>5. CASE RetryFailedOutbox(w)
  <2> DEFINE failed == {i \in 1..Len(events) : /\ events[i].status = "FAILED"
                                               /\ events[i].retries < MaxRetries}
  <2>1. job'[w] = Take("retry", failed) /\ events' = events
    BY <1>1, <1>5 DEF RetryFailedOutbox
  <2>2. job'[w].phase = "retry" /\ job'[w].left \subseteq failed
    BY <2>1, TakeTakes
  <2> QED
    BY <2>1, <2>2 DEF JobInStep
<1>6. CASE Mark(w)
  <2>1. job'[w] = [job[w] EXCEPT !.phase = "read"] /\ job[w].phase = "mark"
    BY <1>1, <1>6 DEF Mark, Turn
  <2>2. job'[w].phase = "read" /\ job'[w].left = job[w].left
    BY <1>2, <2>1 DEF GoodJob, Job
  <2>3. /\ events'[Current(w)].status = "PROCESSING"
        /\ \A i \in 1..Len(events) \ {Current(w)} : events'[i] = events[i]
    BY <1>1, <1>2, <1>3, <1>6, <2>1 DEF Mark, GoodEvents, Event
  <2>4. Current(w)' = Current(w)
    BY <2>2 DEF Current
  <2> QED
    BY <1>2, <2>1, <2>2, <2>3, <2>4 DEF JobInStep
<1>7. CASE DeleteDocument(w) \/ ReadEntity(w) \/ IndexDocument(w)
  <2>1. events' = events /\ job[w].phase \in {"read", "write"}
    BY <1>1, <1>7 DEF DeleteDocument, ReadEntity, IndexDocument
  <2>2. job'[w].left = job[w].left /\ job'[w].phase \in {"write", "complete", "fail"}
    <3>1. \E phase \in {"write", "complete", "fail"} : Turn(w, phase)
      BY <1>7 DEF DeleteDocument, ReadEntity, IndexDocument
    <3>2. \E phase \in {"write", "complete", "fail"} : job'[w] = [job[w] EXCEPT !.phase = phase]
      BY <1>1, <3>1 DEF Turn
    <3> QED
      BY <1>2, <3>2 DEF GoodJob, Job
  <2>3. Current(w)' = Current(w)
    BY <2>2 DEF Current
  <2> QED
    BY <2>1, <2>2, <2>3 DEF JobInStep
<1>8. CASE MarkCompleted(w)
  <2>1. CASE job[w].left \ {Current(w)} = {}
    <3>1. job'[w] = Idle
      BY <1>1, <1>8, <2>1 DEF MarkCompleted
    <3> QED
      BY <3>1, IdleInStep
  <2>2. CASE job[w].left \ {Current(w)} # {}
    <3>1. job'[w].phase = "mark" /\ job'[w].left = job[w].left \ {Current(w)}
      BY <1>1, <1>8, <2>2 DEF MarkCompleted
    <3>2. \A i \in 1..Len(events) \ {Current(w)} : events'[i] = events[i]
      BY <1>1, <1>8 DEF MarkCompleted, GoodEvents
    <3>3. job[w].phase = "complete"
      BY <1>1, <1>8 DEF MarkCompleted
    <3> QED
      BY <1>2, <3>1, <3>2, <3>3 DEF JobInStep
  <2> QED
    BY <2>1, <2>2
<1>9. CASE MarkFailed(w) \/ MarkFailedAsRetry(w) \/ Interrupt(w)
  <2>1. job'[w] = Idle
    BY <1>1, <1>9 DEF MarkFailed, MarkFailedAsRetry, Interrupt, Finish
  <2> QED
    BY <2>1, IdleInStep
<1> QED
  BY <1>4, <1>5, <1>6, <1>7, <1>8, <1>9 DEF Work

\* So does any other, as long as the two hold different events.
LEMMA OtherInStep ==
  ASSUME GoodEvents, GoodJobs, BatchesApart, NEW w \in Worker, NEW v \in Worker \ {w},
         JobInStep(v), ProcessOutbox(w) \/ RetryFailedOutbox(w) \/ Work(w) \/ Interrupt(w)
  PROVE  JobInStep(v)'
<1>1. /\ job'[v] = job[v] /\ Current(v)' = Current(v)
      /\ \A i \in 1..Len(events) \ job[w].left : events'[i] = events[i]
  BY OthersKept
<1>2. /\ job[v].left \subseteq 1..Len(events) \ job[w].left
      /\ job[v].phase # "idle" => Current(v) \in job[v].left
  BY JobHolds DEF BatchesApart
<1>3. \A i \in job[v].left : events'[i] = events[i]
  BY <1>1, <1>2
<1>4. job[v].phase # "idle" => events'[Current(v)] = events[Current(v)]
  BY <1>2, <1>3
<1> QED
  BY <1>1, <1>3, <1>4 DEF JobInStep

\* Nobody changes an event between a job's look at it and its turn.
LEMMA StaysInStep == Spec /\ []BatchesApart => []InStep
<1>1. WorkerInv /\ BatchesApart /\ InStep /\ [Next]_vars => InStep'
  <2> SUFFICES ASSUME GoodTables, GoodEvents, GoodJobs, BatchesApart, InStep, [Next]_vars
               PROVE  InStep'
    BY Parts
  <2>1. CASE UNCHANGED <<events, job>>
    BY <2>1, JobsStay DEF InStep, JobInStep
  <2>2. ASSUME NEW w \in Worker,
               ProcessOutbox(w) \/ RetryFailedOutbox(w) \/ Work(w) \/ Interrupt(w)
        PROVE  InStep'
    BY <2>2, OwnInStep, OtherInStep DEF InStep
  <2> QED
    BY <2>1, <2>2, RequestInStep DEF Next, WriteDirectly, vars
<1> QED
  BY <1>1, InStepInit, WorkerInvariant, PTL DEF Spec

-----------------------------------------------------------------------------
(* The fate of events, with jobs apart: a step closes the event its job is  *)
(* at, or changes no fate.                                                  *)

FateOf(e) == IF ~ \/ e.status = "COMPLETED"
                  \/ e.status = "FAILED" /\ e.retries >= MaxRetries
             THEN "open"
             ELSE IF e.status = "COMPLETED" THEN "delivered" ELSE "given up"

LEMMA FateIs ==
  /\ Fate = [i \in 1..Len(events) |-> FateOf(events[i])]
  /\ Fate' = [i \in 1..Len(events') |-> FateOf(events'[i])]
  BY DEF Fate, FateOf, Settled

LEMMA FateStays ==
  ASSUME Len(events') = Len(events),
         \A i \in 1..Len(events) : FateOf(events'[i]) = FateOf(events[i])
  PROVE  Fate' = Fate
<1> HIDE DEF FateOf
<1> QED
  BY FateIs

LEMMA FateOneChanges ==
  ASSUME GoodEvents, NEW k \in 1..Len(events), NEW e, events' = [events EXCEPT ![k] = e],
         FateOf(events[k]) = "open"
  PROVE  [Promise!Next]_Fate
<1>1. Len(events') = Len(events) /\ events'[k] = e
  BY DEF GoodEvents
<1>2. \A i \in 1..Len(events) \ {k} : events'[i] = events[i]
  BY DEF GoodEvents
<1>3. FateOf(e) \in {"open", "delivered", "given up"}
  BY DEF FateOf
<1> HIDE DEF FateOf
<1>4. Fate = [i \in 1..Len(events) |-> FateOf(events[i])]
  BY FateIs
<1>5. Fate' = [i \in 1..Len(events) |-> FateOf(events'[i])]
  BY <1>1, FateIs
<1>6. Fate' = [Fate EXCEPT ![k] = FateOf(e)]
  BY <1>1, <1>2, <1>4, <1>5
<1>7. CASE FateOf(e) = "open"
  BY <1>1, <1>2, <1>7, FateStays
<1>8. CASE FateOf(e) \in {"delivered", "given up"}
  <2>1. Len(events) \in Nat
    BY DEF GoodEvents
  <2>2. Len(Fate) = Len(events) /\ Fate[k] = "open"
    BY <1>4, <2>1
  <2>3. Promise!Close(k, FateOf(e))
    BY <1>6, <2>2 DEF Promise!Close
  <2> QED
    BY <1>8, <2>2, <2>3 DEF Promise!Next
<1> QED
  BY <1>3, <1>7, <1>8

LEMMA RequestPromises ==
  ASSUME GoodEvents, Request
  PROVE  Promise!Publish
<1>1. PICK e \in Entity, type \in {"CREATED", "UPDATED", "DELETED"} : Publish(e, type)
  BY DEF Request, Create, Update, UpdateStatus, Delete
<1> DEFINE new == [entity |-> e, type |-> type, status |-> "PENDING", retries |-> 0]
<1>2. events' = Append(events, new) /\ events \in Seq(Event) /\ Len(events) \in Nat
  BY <1>1 DEF Publish, GoodEvents
<1>3. FateOf(new) = "open"
  BY DEF FateOf
<1>4. \A x : FateOf(x) \in {"open", "delivered", "given up"}
  BY DEF FateOf
<1> HIDE DEF new, FateOf
<1>5. Len(events') = Len(events) + 1
  BY <1>2
<1>6. /\ \A i \in 1..Len(events) : events'[i] = events[i]
      /\ events'[Len(events) + 1] = new
  BY <1>2
<1>7. Fate = [i \in 1..Len(events) |-> FateOf(events[i])]
  BY FateIs
<1>8. Fate' = [i \in 1..(Len(events) + 1) |-> FateOf(events'[i])]
  BY <1>5, FateIs
<1> DEFINE S == {"open", "delivered", "given up"}
<1>9. "open" \in S /\ \A x : FateOf(x) \in S
  BY <1>4
<1> HIDE DEF S
<1>10. Fate \in Seq(S) /\ Len(Fate) = Len(events)
  BY <1>2, <1>7, <1>9
<1>11. Fate' \in Seq(S) /\ Len(Fate') = Len(events) + 1
  BY <1>2, <1>8, <1>9
<1>12. /\ Append(Fate, "open") \in Seq(S) /\ Len(Append(Fate, "open")) = Len(events) + 1
       /\ \A i \in 1..Len(events) : Append(Fate, "open")[i] = Fate[i]
       /\ Append(Fate, "open")[Len(events) + 1] = "open"
  BY <1>9, <1>10, AppendProperties
<1>13. \A i \in 1..(Len(events) + 1) : Fate'[i] = Append(Fate, "open")[i]
  BY <1>2, <1>3, <1>6, <1>7, <1>8, <1>12
<1>14. Fate' = Append(Fate, "open")
  BY <1>11, <1>12, <1>13, SeqEqual
<1> QED
  BY <1>14 DEF Promise!Publish

LEMMA WorkerPromises ==
  ASSUME GoodTables, GoodEvents, GoodJobs, NEW w \in Worker, JobInStep(w),
         ProcessOutbox(w) \/ RetryFailedOutbox(w) \/ Work(w) \/ Interrupt(w)
  PROVE  [Promise!Next]_Fate
<1>1. /\ job[w].left \subseteq 1..Len(events)
      /\ job[w].phase # "idle" => Current(w) \in job[w].left /\ Current(w) \in 1..Len(events)
  BY JobHolds
<1>2. CASE UNCHANGED events
  <2>1. Fate' = Fate
    BY <1>2, FateIs
  <2> QED
    BY <2>1
<1>3. CASE Mark(w) \/ MarkCompleted(w) \/ MarkFailed(w)
  <2>1. \E e : events' = [events EXCEPT ![Current(w)] = e]
    <3>1. CASE Mark(w)
      BY <3>1 DEF Mark
    <3>2. CASE MarkCompleted(w)
      BY <3>2 DEF MarkCompleted
    <3>3. CASE MarkFailed(w)
      <4>1. events' = [events EXCEPT ![Current(w)] = [events[Current(w)] EXCEPT !.status = "FAILED",
                                               !.retries = job[w].seen[Current(w)] + 1]]
        BY <3>3 DEF MarkFailed
      <4> QED
        BY <4>1
    <3> QED
      BY <1>3, <3>1, <3>2, <3>3
  <2>2. job[w].phase \in {"mark", "complete", "fail"}
    BY <1>3 DEF Mark, MarkCompleted, MarkFailed
  <2>3. FateOf(events[Current(w)]) = "open"
    BY <1>1, <2>2 DEF JobInStep, FateOf
  <2> QED
    BY <1>1, <2>1, <2>2, <2>3, FateOneChanges
<1>4. CASE MarkFailedAsRetry(w)
  <2>1. Len(events') = Len(events)
    BY <1>4, PutBack
  <2>2. job[w].phase = "retry"
    BY <1>4 DEF MarkFailedAsRetry
  <2>3. ASSUME NEW i \in 1..Len(events) PROVE FateOf(events'[i]) = FateOf(events[i])
    <3>1. DOMAIN events = 1..Len(events) /\ events[i] \in Event
      BY DEF GoodEvents
    <3>2. CASE i \notin job[w].left
      BY <1>4, <3>1, <3>2 DEF MarkFailedAsRetry
    <3>3. CASE i \in job[w].left
      <4>1. events'[i].status = "PENDING"
        BY <1>4, <3>1, <3>3 DEF MarkFailedAsRetry, Event
      <4>2. events[i].status = "FAILED" /\ events[i].retries < MaxRetries
        BY <2>2, <3>3 DEF JobInStep
      <4>3. ~(events[i].retries >= MaxRetries)
        BY <3>1, <4>2, WorkerConstants DEF Event
      <4> QED
        BY <4>1, <4>2, <4>3 DEF FateOf
    <3> QED
      BY <3>2, <3>3
  <2> QED
    BY <2>1, <2>3, FateStays
<1> QED
  BY <1>2, <1>3, <1>4 DEF ProcessOutbox, RetryFailedOutbox, Work, DeleteDocument, ReadEntity,
                          IndexDocument, Interrupt

\* As long as no two jobs hold the same event, the fate of an event is final:
\* it is delivered once or given up once, and only after it was open.
THEOREM PromiseKept == Spec /\ []BatchesApart => ImplementsPromise
<1>1. Init => Promise!Init
  BY DEF Init, Promise!Init, Fate
<1>2. WorkerInv /\ InStep /\ [Next]_vars => [Promise!Next]_Fate
  <2> SUFFICES ASSUME GoodTables, GoodEvents, GoodJobs, InStep, [Next]_vars
               PROVE  [Promise!Next]_Fate
    BY Parts
  <2>1. CASE UNCHANGED events
    BY <2>1, FateIs
  <2>2. CASE Request
    BY <2>2, RequestPromises DEF Promise!Next
  <2>3. ASSUME NEW w \in Worker,
               ProcessOutbox(w) \/ RetryFailedOutbox(w) \/ Work(w) \/ Interrupt(w)
        PROVE  [Promise!Next]_Fate
    BY <2>3, WorkerPromises DEF InStep
  <2> QED
    BY <2>1, <2>2, <2>3 DEF Next, WriteDirectly, vars
<1> QED
  BY <1>1, <1>2, WorkerInvariant, StaysInStep, PTL DEF Spec, ImplementsPromise, Promise!Spec

\* One worker's jobs are apart, so that the promise is kept with one worker.
THEOREM PromiseImplemented == ASSUME OneWorker PROVE Spec => ImplementsPromise
<1>1. BatchesApart
  BY DEF OneWorker, BatchesApart
<1> QED
  BY <1>1, PromiseKept, PTL
=============================================================================
