---------------------------- MODULE SseDelivery ----------------------------
(***************************************************************************)
(* Delivery of events to the browsers of a user: core/sse/manager.py and   *)
(* service/sse.py.  Every API process has a manager of its own with one    *)
(* bounded queue per connected user; a stream is one GET on                *)
(* /notifications/stream.  Redis, when SSE is enabled, carries a published *)
(* event to the listener task of every process.  Queues are objects: a     *)
(* stream keeps reading the one it was given when the manager has          *)
(* forgotten it, so a queue is named after the stream it was created for.  *)
(***************************************************************************)
EXTENDS Platform, Naturals, Sequences, FiniteSetsExt

CONSTANTS Process,      \* API processes, each with its SSEManager
          Stream,       \* streams, each opened at most once
          MaxQueue,     \* room of a queue: maxsize, 100 in the code
          MaxPublished  \* bound: events published

ASSUME SseAssumption == /\ None \notin Process \cup Stream
                        /\ MaxQueue \in Nat \ {0}
                        /\ MaxPublished \in Nat

VARIABLES
  relay,        \* SSE_ENABLED: Redis and the listener tasks are running
  published,    \* the events, in the order publish() was called
  connections,  \* per process and user the queue the manager has, or None
  inbox,        \* the events in each queue
  stream,       \* where each stream is open and which queue it reads
  seen,         \* the events a stream has sent to its browser
  sending,      \* events given to Redis and not yet put in the local queue
  bus,          \* per process, what Redis has for its listener
  listener      \* per process, the queue its listener waits on, or None

sseVars == <<relay, published, connections, inbox, stream, seen, sending, bus, listener>>

-----------------------------------------------------------------------------
Event == 1..MaxPublished
Room(q) == Len(inbox[q]) < MaxQueue

\* The queue of event n's recipient in process p, or None.
QueueOf(n, p) == connections[p][published[n].to]

\* The streams that read queue q.
Readers(q) == {s \in Stream : stream[s].state = "open" /\ stream[s].queue = q}

\* put_nowait: an event for a user who is not connected here, or whose queue
\* is full, is dropped.
PutNoWait(q, n) ==
  inbox' = IF q # None /\ Room(q) THEN [inbox EXCEPT ![q] = Append(@, n)] ELSE inbox

-----------------------------------------------------------------------------
\* event_generator: a second stream of the user in the process shares the queue.
Connect(s, p, u) ==
  LET q == IF connections[p][u] = None THEN s ELSE connections[p][u] IN
  /\ stream[s].state = "new"
  /\ stream' = [stream EXCEPT ![s] = [state |-> "open", process |-> p, user |-> u, queue |-> q]]
  /\ connections' = [connections EXCEPT ![p][u] = q]
  /\ UNCHANGED <<relay, published, inbox, seen, sending, bus, listener>>

\* The browser leaves: the user's queue is forgotten, whoever else reads it.
Disconnect(s) ==
  /\ stream[s].state = "open"
  /\ stream' = [stream EXCEPT ![s].state = "closed"]
  /\ connections' = [connections EXCEPT ![stream[s].process][stream[s].user] = None]
  /\ UNCHANGED <<relay, published, inbox, seen, sending, bus, listener>>

\* Mutant: a LIFO queue.
YieldLast(s) ==
  LET q == stream[s].queue IN
  /\ stream[s].state = "open"
  /\ inbox[q] # <<>>
  /\ seen' = [seen EXCEPT ![s] = Append(@, inbox[q][Len(inbox[q])])]
  /\ inbox' = [inbox EXCEPT ![q] = SubSeq(@, 1, Len(@) - 1)]
  /\ UNCHANGED <<relay, published, connections, stream, sending, bus, listener>>

\* Mutant: a stream whose queue the manager has forgotten reads no more.
YieldWhileKnown(s) ==
  LET q == stream[s].queue IN
  /\ stream[s].state = "open"
  /\ connections[stream[s].process][stream[s].user] = q
  /\ inbox[q] # <<>>
  /\ seen' = [seen EXCEPT ![s] = Append(@, Head(inbox[q]))]
  /\ inbox' = [inbox EXCEPT ![q] = Tail(@)]
  /\ UNCHANGED <<relay, published, connections, stream, sending, bus, listener>>

\* The generator yields the next event; a time-out yields a ping instead.
Yield(s) ==
  LET q == stream[s].queue IN
  /\ stream[s].state = "open"
  /\ inbox[q] # <<>>
  /\ seen' = [seen EXCEPT ![s] = Append(@, Head(inbox[q]))]
  /\ inbox' = [inbox EXCEPT ![q] = Tail(@)]
  /\ UNCHANGED <<relay, published, connections, stream, sending, bus, listener>>

\* send_notification in process p.  With Redis it awaits Redis, which has the
\* event from here on, and puts it locally afterwards; without it, at once.
\* Events are numbered as Redis gets them: of two publishers in a process the
\* one that called first need not come first.
Publish(p, u) ==
  LET n == Len(published) + 1 IN
  /\ n \in Event
  /\ published' = Append(published, [to |-> u, at |-> p])
  /\ IF relay
     THEN /\ bus' = [r \in Process |-> Append(bus[r], n)]
          /\ sending' = sending \cup {n}
          /\ UNCHANGED inbox
     ELSE /\ PutNoWait(connections[p][u], n)
          /\ UNCHANGED <<bus, sending>>
  /\ UNCHANGED <<relay, connections, stream, seen, listener>>

PutLocally(n) ==
  /\ n \in sending
  /\ PutNoWait(QueueOf(n, published[n].at), n)
  /\ sending' = sending \ {n}
  /\ UNCHANGED <<relay, published, connections, stream, seen, bus, listener>>

\* The listener takes an event off Redis and waits while the queue is full.
Listen(p) ==
  LET n == Head(bus[p])
      q == QueueOf(n, p)
  IN
  /\ listener[p] = None
  /\ bus[p] # <<>>
  /\ bus' = [bus EXCEPT ![p] = Tail(@)]
  /\ PutNoWait(q, n)
  /\ listener' = IF q # None /\ ~Room(q)
                 THEN [listener EXCEPT ![p] = [queue |-> q, event |-> n]]
                 ELSE listener
  /\ UNCHANGED <<relay, published, connections, stream, seen, sending>>

\* Mutant: the listener does not see that it has put the event.
ResumeForgetful(p) ==
  /\ listener[p] # None
  /\ Room(listener[p].queue)
  /\ PutNoWait(listener[p].queue, listener[p].event)
  /\ UNCHANGED <<relay, published, connections, stream, seen, sending, bus, listener>>

\* Mutant: the listener waits for the queue to be the user's again.
ResumeWhenKnown(p) ==
  /\ listener[p] # None
  /\ QueueOf(listener[p].event, p) = listener[p].queue
  /\ Room(listener[p].queue)
  /\ PutNoWait(listener[p].queue, listener[p].event)
  /\ listener' = [listener EXCEPT ![p] = None]
  /\ UNCHANGED <<relay, published, connections, stream, seen, sending, bus>>

ResumeListener(p) ==
  /\ listener[p] # None
  /\ Room(listener[p].queue)
  /\ PutNoWait(listener[p].queue, listener[p].event)
  /\ listener' = [listener EXCEPT ![p] = None]
  /\ UNCHANGED <<relay, published, connections, stream, seen, sending, bus>>

\* A process stops and starts again: what its manager knew is gone.
RestartProcess(p) ==
  LET lost == {s \in Stream : stream[s].state = "open" /\ stream[s].process = p} IN
  /\ connections' = [connections EXCEPT ![p] = [u \in User |-> None]]
  /\ stream' = [s \in Stream |-> IF s \in lost THEN [stream[s] EXCEPT !.state = "closed"]
                                               ELSE stream[s]]
  /\ sending' = {n \in sending : published[n].at # p}
  /\ bus' = [bus EXCEPT ![p] = <<>>]
  /\ listener' = [listener EXCEPT ![p] = None]
  /\ UNCHANGED <<relay, published, inbox, seen>>

-----------------------------------------------------------------------------
SseInit ==
  /\ relay \in BOOLEAN
  /\ published = <<>>
  /\ connections = [p \in Process |-> [u \in User |-> None]]
  /\ inbox = [s \in Stream |-> <<>>]
  /\ stream = [s \in Stream |-> [state |-> "new", process |-> None, user |-> None, queue |-> None]]
  /\ seen = [s \in Stream |-> <<>>]
  /\ sending = {}
  /\ bus = [p \in Process |-> <<>>]
  /\ listener = [p \in Process |-> None]

\* What goes on by itself once events are published.
Carry == \/ \E s \in Stream : Yield(s)
         \/ \E n \in Event : PutLocally(n)
         \/ \E p \in Process : Listen(p) \/ ResumeListener(p)

\* What browsers and processes may do at any time.
Come == \E s \in Stream, p \in Process, u \in User : Connect(s, p, u)
Go == \E s \in Stream : Disconnect(s)
Restart == \E p \in Process : RestartProcess(p)

SseNext == Carry \/ Come \/ Go \/ Restart \/ \E p \in Process, u \in User : Publish(p, u)

\* The event loop runs every task that can go on.
SseFairness == /\ \A s \in Stream : WF_sseVars(Yield(s))
               /\ \A n \in Event : WF_sseVars(PutLocally(n))
               /\ \A p \in Process : WF_sseVars(Listen(p)) /\ WF_sseVars(ResumeListener(p))

SseSpec == SseInit /\ [][SseNext]_sseVars
SseFairSpec == SseSpec /\ SseFairness

-----------------------------------------------------------------------------
SseTypeOK ==
  /\ relay \in BOOLEAN
  /\ published \in Seq([to : User, at : Process]) /\ Len(published) <= MaxPublished
  /\ connections \in [Process -> [User -> Stream \cup {None}]]
  /\ inbox \in [Stream -> Seq(DOMAIN published)]
  /\ \A q \in Stream : Len(inbox[q]) <= MaxQueue
  /\ stream \in [Stream -> [state : {"new", "open", "closed"}, process : Process \cup {None},
                            user : User \cup {None}, queue : Stream \cup {None}]]
  /\ seen \in [Stream -> Seq(DOMAIN published)]
  /\ sending \in SUBSET DOMAIN published
  /\ bus \in [Process -> Seq(DOMAIN published)]
  /\ listener \in [Process -> [queue : Stream, event : DOMAIN published] \cup {None}]

\* Where event n occurs in a sequence of events.
Positions(n, events) == {i \in DOMAIN events : events[i] = n}

\* The copies of event n in queue s and at the browser of stream s, and the
\* one the listener of process p waits with, by their places.
CopiesAt(n, s) == ({<<"queue", s>>} \X Positions(n, inbox[s]))
                    \cup ({<<"seen", s>>} \X Positions(n, seen[s]))
CopyWaiting(n, p) ==
  IF listener[p] # None /\ listener[p].event = n THEN {<<<<"listener", p>>, 1>>} ELSE {}

\* All that have reached the queues, browsers and listener of process p.
Copies(n, p) ==
  CopyWaiting(n, p) \cup UNION {CopiesAt(n, s) : s \in {r \in Stream : stream[r].process = p}}

(* However streams come and go, a process shows an event once when it was   *)
(* published there and once more when Redis carries it: no more copies, and *)
(* none for a user it was not meant for (manager.publish, manager._listen). *)
CopiesBounded ==
  \A n \in DOMAIN published, p \in Process :
    /\ Cardinality(Copies(n, p)) <=
         (IF relay THEN 1 ELSE 0) + (IF published[n].at = p THEN 1 ELSE 0)
    /\ \A s \in Stream : Positions(n, seen[s]) # {} => stream[s].user = published[n].to

\* Event n reaches process p on one way only: put at its publication, or by Redis.
OneWay(n, p) == ~relay \/ published[n].at # p

(* A browser gets events in the order they were published and none twice,   *)
(* also when streams of a user share or inherit a queue: without Redis all, *)
(* and with Redis those of other processes, whatever of its own process     *)
(* comes in between, twice or late (manager.connect, _listen,               *)
(* SSEService.event_generator).                                             *)
InOrder ==
  \A s \in Stream : \A i, j \in DOMAIN seen[s] :
    i < j /\ OneWay(seen[s][i], stream[s].process) /\ OneWay(seen[s][j], stream[s].process)
      => seen[s][i] < seen[s][j]

(* An event in a queue that some stream reads is sent, or its last reader   *)
(* leaves (SSEService.event_generator).                                     *)
QueuesAreRead ==
  \A q \in Stream :
    (inbox[q] # <<>> /\ Readers(q) # {}) ~> (inbox[q] = <<>> \/ Readers(q) = {})

(* The listener of a process gets past a full queue unless nobody reads it  *)
(* any more; then every later event waits behind it (manager._listen).      *)
ListenerGoesOn ==
  \A p \in Process :
    (listener[p] # None) ~> (listener[p] = None \/ Readers(listener[p].queue) = {})
=============================================================================
