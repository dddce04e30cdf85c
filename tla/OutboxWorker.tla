----------------------------- MODULE OutboxWorker -----------------------------
(***************************************************************************)
(* The outbox worker: jobs that carry the events of the outbox table to    *)
(* the search index.  Celery beat starts a job every 30 seconds that       *)
(* processes a batch of PENDING events, and one every 5 minutes that makes *)
(* FAILED events PENDING again; several worker processes run them, and     *)
(* nothing keeps two jobs from taking the same event.                      *)
(*                                                                         *)
(* A job reads its batch once.  The session never refreshes what it has    *)
(* read (expire_on_commit is off), so the retry count a job writes is the  *)
(* one it read, plus one, whatever other jobs have written since.          *)
(*                                                                         *)
(* What a job asks of Elasticsearch never changes the index: it sends a    *)
(* document with its metadata inside, which is refused in an answer nobody *)
(* looks at, and deletes by the id of the row, under which no document     *)
(* lies.  The documents there are come from the services, which save a     *)
(* further one, under an id made up by Elasticsearch, each time.           *)
(***************************************************************************)
EXTENDS Integers, FiniteSets, FiniteSetsExt, Sequences

CONSTANTS
  Worker,         \* Celery worker processes
  Entity,         \* rows that are searched for
  Soft,           \* those whose deletion clears is_active and keeps the row
  Existing,       \* those that were created and indexed before
  Operation,      \* what requests do: "create", "update", "updateStatus", "delete"
  BatchSize,      \* events a job takes at most
  MaxRetries,     \* events that failed this often are not retried
  MaxEvents,      \* bound: no request is served beyond this many events
  MaxInterrupts,  \* bound: jobs that are killed or time out
  Wired           \* does OutboxService have its repository?

ASSUME WorkerConstants ==
  /\ Soft \subseteq Entity /\ Existing \subseteq Entity
  /\ Operation \subseteq {"create", "update", "updateStatus", "delete"}
  /\ BatchSize \in Nat \ {0} /\ MaxRetries \in Nat \ {0}
  /\ MaxEvents \in Nat /\ MaxInterrupts \in Nat
  /\ Wired \in BOOLEAN

VARIABLES
  row,         \* the tables: is the entity there, and which version of it
  events,      \* the outbox table in created_at order
  doc,         \* the index: the versions that the documents of an entity show
  direct,      \* index writes that services still have to make by themselves
  job,         \* [Worker -> what its job has got to]
  interrupts   \* how many jobs were killed or timed out

vars == <<row, events, doc, direct, job, interrupts>>

RowState  == {"absent", "active", "inactive", "gone"}
Status    == {"PENDING", "PROCESSING", "COMPLETED", "FAILED"}
Event     == [entity : Entity, type : {"CREATED", "UPDATED", "DELETED"},
              status : Status, retries : Nat]
Phase     == {"idle", "mark", "read", "write", "complete", "fail", "retry"}

\* left: the events the job still has to deal with; seen: the retry counts it
\* read for them.
Job  == [phase : Phase, left : SUBSET (1..MaxEvents), seen : [1..MaxEvents -> Nat]]
Idle == [phase |-> "idle", left |-> {}, seen |-> [i \in 1..MaxEvents |-> 0]]

TypeOK ==
  /\ row \in [Entity -> [state : RowState, ver : Nat]]
  /\ events \in Seq(Event) /\ Len(events) <= MaxEvents
  /\ doc \in [Entity -> SUBSET Nat]
  /\ direct \subseteq [entity : Entity, ver : Nat]
  /\ job \in [Worker -> Job]
  /\ interrupts \in 0..MaxInterrupts

Init ==
  /\ row = [e \in Entity |-> IF e \in Existing THEN [state |-> "active", ver |-> 1]
                                               ELSE [state |-> "absent", ver |-> 0]]
  /\ events = <<>>
  /\ doc = [e \in Entity |-> IF e \in Existing THEN {1} ELSE {}]
  /\ direct = {}
  /\ job = [w \in Worker |-> Idle]
  /\ interrupts = 0

-----------------------------------------------------------------------------
(* Requests: a change of a row and its event in one commit, and, except for  *)
(* a status, a document that the service saves by itself after it.           *)

Publish(e, type) ==
  /\ Len(events) < MaxEvents
  /\ events' = Append(events,
       [entity |-> e, type |-> type, status |-> "PENDING", retries |-> 0])
  /\ UNCHANGED <<doc, job, interrupts>>

SetRow(e, state) == row' = [row EXCEPT ![e] = [state |-> state, ver |-> row[e].ver + 1]]

SaveLater(e) == direct' = direct \cup {[entity |-> e, ver |-> row[e].ver + 1]}

Create(e) ==
  /\ "create" \in Operation
  /\ row[e].state = "absent"
  /\ SetRow(e, "active") /\ Publish(e, "CREATED") /\ SaveLater(e)

\* Here and below, the row was active when it was read; by the commit it may
\* be inactive.
Update(e) ==
  /\ "update" \in Operation
  /\ row[e].state \in {"active", "inactive"}
  /\ SetRow(e, row[e].state) /\ Publish(e, "UPDATED") /\ SaveLater(e)

UpdateStatus(e) ==
  /\ "updateStatus" \in Operation
  /\ row[e].state \in {"active", "inactive"}
  /\ SetRow(e, row[e].state) /\ Publish(e, "UPDATED")
  /\ UNCHANGED direct

\* The service's own delete finds no document under the id of the row.
Delete(e) ==
  /\ "delete" \in Operation
  /\ row[e].state \in {"active", "inactive"}
  /\ SetRow(e, IF e \in Soft THEN "inactive" ELSE "gone")
  /\ Publish(e, "DELETED")
  /\ UNCHANGED direct

\* A service saves its document, or fails to and does not repeat it.
WriteDirectly(d) ==
  /\ direct' = direct \ {d}
  /\ \/ doc' = [doc EXCEPT ![d.entity] = @ \cup {d.ver}]
     \/ UNCHANGED doc
  /\ UNCHANGED <<row, events, job, interrupts>>

Request == \E e \in Entity : Create(e) \/ Update(e) \/ UpdateStatus(e) \/ Delete(e)

-----------------------------------------------------------------------------
(* Jobs *)

\* A job takes the first BatchSize of these events, with their retry counts.
Take(phase, ids) ==
  LET batch == {i \in ids : Cardinality({k \in ids : k < i}) < BatchSize}
  IN  [phase |-> phase, left |-> batch,
       seen |-> [i \in 1..MaxEvents |-> IF i \in batch THEN events[i].retries ELSE 0]]

\* The event a job is at.
Current(w) == Min(job[w].left)

Turn(w, phase) == job' = [job EXCEPT ![w].phase = phase]
Finish(w) == job' = [job EXCEPT ![w] = Idle]

\* Without its repository the service raises at its first query: no job starts.
ProcessUnfinished(w) ==
  LET unfinished == {i \in 1..Len(events) : events[i].status # "COMPLETED"} IN
  /\ Wired
  /\ job[w].phase = "idle"
  /\ unfinished # {}
  /\ job' = [job EXCEPT ![w] = Take("mark", unfinished)]
  /\ UNCHANGED <<row, events, doc, direct, interrupts>>
ProcessOutbox(w) ==
  LET pending == {i \in 1..Len(events) : events[i].status = "PENDING"} IN
  /\ Wired
  /\ job[w].phase = "idle"
  /\ pending # {}
  /\ job' = [job EXCEPT ![w] = Take("mark", pending)]
  /\ UNCHANGED <<row, events, doc, direct, interrupts>>

\* PROCESSING is committed before anything is done.
Mark(w) ==
  /\ job[w].phase = "mark"
  /\ events' = [events EXCEPT ![Current(w)].status = "PROCESSING"]
  /\ Turn(w, "read")
  /\ UNCHANGED <<row, doc, direct, interrupts>>

\* The document of a deleted entity is looked for under the id of the row and
\* not found, which is logged and counts as done; the call itself may fail.
DeleteDocument(w) ==
  /\ job[w].phase = "read"
  /\ events[Current(w)].type = "DELETED"
  /\ Turn(w, "complete") \/ Turn(w, "fail")
  /\ UNCHANGED <<row, events, doc, direct, interrupts>>

\* The row is read again, active or not; without a row there is nothing to do.
ReadEntity(w) ==
  /\ job[w].phase = "read"
  /\ events[Current(w)].type # "DELETED"
  /\ Turn(w, IF row[events[Current(w)].entity].state = "gone" THEN "complete" ELSE "write")
  /\ UNCHANGED <<row, events, doc, direct, interrupts>>

\* The document is refused, which is an entry of an answer nobody looks at and
\* counts as done; the call itself may fail.
IndexDocument(w) ==
  /\ job[w].phase = "write"
  /\ Turn(w, "complete") \/ Turn(w, "fail")
  /\ UNCHANGED <<row, events, doc, direct, interrupts>>

\* COMPLETED, and on to the next event of the batch.
MarkCompleted(w) ==
  LET rest == job[w].left \ {Current(w)} IN
  /\ job[w].phase = "complete"
  /\ events' = [events EXCEPT ![Current(w)].status = "COMPLETED"]
  /\ job' = [job EXCEPT ![w] = IF rest = {} THEN Idle
               ELSE [phase |-> "mark", left |-> rest,
                     seen |-> [job[w].seen EXCEPT ![Current(w)] = 0]]]
  /\ UNCHANGED <<row, doc, direct, interrupts>>

\* FAILED, with one retry more than was read; the rest of the batch is left.
MarkNothing(w) ==
  /\ job[w].phase = "fail"
  /\ Finish(w)
  /\ UNCHANGED <<row, events, doc, direct, interrupts>>
MarkFailed(w) ==
  /\ job[w].phase = "fail"
  /\ events' = [events EXCEPT ![Current(w)].status  = "FAILED",
                              ![Current(w)].retries = job[w].seen[Current(w)] + 1]
  /\ Finish(w)
  /\ UNCHANGED <<row, doc, direct, interrupts>>

RetryAtTheLimit(w) ==
  LET failed == {i \in 1..Len(events) : /\ events[i].status = "FAILED"
                                        /\ events[i].retries <= MaxRetries}
  IN
  /\ Wired
  /\ job[w].phase = "idle"
  /\ failed # {}
  /\ job' = [job EXCEPT ![w] = Take("retry", failed)]
  /\ UNCHANGED <<row, events, doc, direct, interrupts>>
RetryTheGivenUp(w) ==
  LET failed == {i \in 1..Len(events) : /\ events[i].status = "FAILED"
                                        /\ events[i].retries > MaxRetries}
  IN
  /\ Wired
  /\ job[w].phase = "idle"
  /\ failed # {}
  /\ job' = [job EXCEPT ![w] = Take("retry", failed)]
  /\ UNCHANGED <<row, events, doc, direct, interrupts>>
RetryFailedOutbox(w) ==
  LET failed == {i \in 1..Len(events) : /\ events[i].status = "FAILED"
                                        /\ events[i].retries < MaxRetries}
  IN
  /\ Wired
  /\ job[w].phase = "idle"
  /\ failed # {}
  /\ job' = [job EXCEPT ![w] = Take("retry", failed)]
  /\ UNCHANGED <<row, events, doc, direct, interrupts>>

\* All of them in one commit, and again a retry more than was read.
MarkFailedAsRetry(w) ==
  /\ job[w].phase = "retry"
  /\ events' = [i \in DOMAIN events |->
       IF i \in job[w].left
       THEN [events[i] EXCEPT !.status = "PENDING", !.retries = job[w].seen[i] + 1]
       ELSE events[i]]
  /\ Finish(w)
  /\ UNCHANGED <<row, doc, direct, interrupts>>

\* The process is killed or the job times out; its session is rolled back and
\* no exception handler runs.
Interrupt(w) ==
  /\ job[w].phase # "idle"
  /\ interrupts < MaxInterrupts
  /\ interrupts' = interrupts + 1
  /\ Finish(w)
  /\ UNCHANGED <<row, events, doc, direct>>

Work(w) == \/ Mark(w) \/ DeleteDocument(w) \/ ReadEntity(w) \/ IndexDocument(w)
           \/ MarkCompleted(w) \/ MarkFailed(w) \/ MarkFailedAsRetry(w)

Next ==
  \/ Request
  \/ \E d \in direct : WriteDirectly(d)
  \/ \E w \in Worker : ProcessOutbox(w) \/ RetryFailedOutbox(w) \/ Work(w) \/ Interrupt(w)

Spec == Init /\ [][Next]_vars

\* Beat keeps starting both jobs, and a job that runs is not left alone.
FairSpec ==
  /\ Spec
  /\ WF_vars(\E w \in Worker : ProcessOutbox(w))
  /\ WF_vars(\E w \in Worker : RetryFailedOutbox(w))
  /\ \A w \in Worker : WF_vars(Work(w))

-----------------------------------------------------------------------------
(* Properties *)

\* Retries end: no event is counted beyond the limit and the failure after it,
\* and none is PENDING beyond the limit, even if jobs overwrite each other's
\* counts with what they read before.
RetriesBounded ==
  \A i \in 1..Len(events) :
    /\ events[i].retries <= MaxRetries + 1
    /\ events[i].status = "PENDING" => events[i].retries <= MaxRetries

\* Why: a job has read no count above the limit, and a retry job none at it.
SeenBounded ==
  \A w \in Worker : \A i \in job[w].left :
    /\ i <= Len(events)
    /\ job[w].seen[i] <= MaxRetries
    /\ job[w].phase = "retry" => job[w].seen[i] < MaxRetries

\* A job that has events to deal with is not idle, and the other way round.
JobsBusy == \A w \in Worker : job[w].phase = "idle" <=> job[w].left = {}

WorkerInv == TypeOK /\ RetriesBounded /\ SeenBounded /\ JobsBusy

\* An event that is PROCESSING is in the hands of a job, but for one for each
\* job that was interrupted: nothing else takes an event out of circulation.
AtWork(w, i) == job[w].phase \in {"read", "write", "complete", "fail"} /\ Current(w) = i
OneLostPerInterrupt ==
  Cardinality({i \in 1..Len(events) : /\ events[i].status = "PROCESSING"
                                      /\ \A w \in Worker : ~AtWork(w, i)}) <= interrupts

\* Done, or given up after the retries.
Settled(i) ==
  \/ events[i].status = "COMPLETED"
  \/ events[i].status = "FAILED" /\ events[i].retries >= MaxRetries

\* In the end every event is settled, or was lost to an interrupt: however
\* jobs overlap and writes fail, none is retried for ever or starves.
EventuallySettled ==
  <>[](\A i \in 1..Len(events) : Settled(i) \/ events[i].status = "PROCESSING")

\* One worker keeps the promise of OutboxPromise: no event is closed twice, or
\* opened again, and in the end every event closes.
Fate == [i \in 1..Len(events) |->
           IF ~Settled(i) THEN "open"
           ELSE IF events[i].status = "COMPLETED" THEN "delivered" ELSE "given up"]
Promise == INSTANCE OutboxPromise WITH Bound <- MaxEvents, fate <- Fate
ImplementsPromise == Promise!Spec
EveryEventCloses == Promise!EveryEventCloses

\* "Keeps ES eventually consistent with PostgreSQL" (background/beat.py): in
\* the end some document of every active entity shows its last version.
EventuallyConsistent ==
  <>[](\A e \in Entity : row[e].state = "active" => row[e].ver \in doc[e])
=============================================================================
