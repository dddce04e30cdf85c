# Taskflow in TLA+

A verification development for the Taskflow backend (`src/backend`): TLA+ modules translated from
the Python source, TLC configurations that check them on small instances, and proofs that TLAPS
checks for every instance. Paths below are relative to `src/backend/app` unless they start with `src/`.

## 1. The system

A FastAPI service over PostgreSQL, Redis and Elasticsearch. Users found **groups**, groups have
**tasks**, users join either at once or by a **join request** that the group's owner decides. Who
may call what depends on **roles**, rows that are granted and taken away along with groups,
memberships and assignments. Celery workers carry **outbox** events to the search index; **SSE**
pushes notifications to browsers; completing tasks earns **XP**.

| Component | State | Operations | Talks to |
|---|---|---|---|
| Group transactions (`service/transactions/group.py`) | `user_groups`, `user_group_memberships`, `join_requests`, `user_roles` | create, update, delete, add/remove member, exit, join, approve, reject | task transactions (nested call), outbox, notifications |
| Task transactions (`service/transactions/task.py`) | `tasks`, `task_assignees`, `join_requests`, `user_roles` | create, update, delete, change status, add/remove assignee, exit, join, approve, reject | outbox, notifications |
| Unit of work, repositories (`repositories/`) | one session per transaction, the list of events | open, flush, commit, roll back, `add_event` | PostgreSQL, READ COMMITTED, autoflush off |
| Permission gate, role rows (`core/permission/`, `models/role.py`) | `user_roles` | `require_permissions_db` | every endpoint |
| Outbox worker (`service/outbox.py`, `background/`) | `outbox` rows: PENDING, PROCESSING, COMPLETED, FAILED, `retry_count` | process a batch, retry the failed | PostgreSQL, Elasticsearch |
| Direct search sync (`service/utils/indexer.py`, `es/indexer.py`, the services) | the indices | index or delete after a commit | Elasticsearch, cache |
| SSE (`core/sse/manager.py`, `service/sse.py`) | a queue of 100 per connected user and process, the Redis subscription | connect, disconnect, publish, listen | Redis |
| XP (`service/xp.py`, `service/transactions/xp.py`) | `user_skills`: total, level, streak, today's XP | award on completion, daily cap, levels | task service |
| Notifications (`service/notification.py`) | `notifications`, their documents | create, list, answer, mark read, count | SSE, index |
| Users, authentication, administration (`service/transactions/{auth,user,admin}.py`) | `users`, the tokens handed out | register, log in, renew, change and delete a profile, delete a user | index, cache |
| Comments (`service/comment.py`) | `comments`, their documents | create, change, delete | index |
| Ratings (`service/rating.py`) | `ratings` | create, delete, average | tasks and groups |
| Search (`api/v1/endpoints/search.py`, `service/search/`, `es/search.py`) | none | nine searches, each with or without facets | index, cache |
| Cache (`cache/`, `service/base.py`) | Redis keys | read through, clear a namespace | search and profile endpoints |
| Background runner (`background/runner.py`) | an event loop per process | run a coroutine with a time-out | Celery |

**What is hard.** Every handler reads, checks, and writes in one transaction at READ COMMITTED and
locks nothing, so each check may be stale when the writes land; where no unique constraint stands
behind it, the check is all there is. Role rows are deleted by a clean-up that looks first and
deletes later. Approving a task request from the group side runs a second transaction inside the
first, with a commit of its own. Notifications leave after the commit, from memory; documents are
written after it, and the cache is cleared after that, each of which may fail or come too late. The
outbox worker commits PROCESSING before it works and does not claim what it reads. The same document
is written by the outbox worker and by the service. Browser tabs of one user share a queue that any
of them may deregister, and the SSE listener waits for room in it.

**What correct means**, per component:

- *groups*: an owner's role row exists exactly as long as the group; membership changes one user at
  a time; approving a request admits the user in the same commit; a decision is final.
- *tasks*: an approval assigns; the `ASSIGNEE` role goes with the last assignment (it does not: section
  3); whatever happens inside the nested assignment, no approval without what it approved.
- *unit of work*: all or nothing; the outbox tells exactly what was committed; nobody is notified of
  a commit that did not happen.
- *outbox worker*: every event is processed or given up after its retries; the index converges to
  the tables (it does not: section 3).
- *SSE*: an event reaches a user's browser at most once by each way it takes, in order, and no other
  user's; what is in a queue that somebody reads is sent; the listener gets past a full queue.
- *XP*: one row per user and sphere; levels follow the table of thresholds; the points of a task are
  within the bounds of its bonus, and finishing later never pays more.
- *notifications*: an event only of what is stored and indexed; what waits for an answer can be
  answered; what is read stays read.
- *accounts*: nobody shares an address or a name; a deleted account stays deleted and opens to no token.
- *comments and ratings*: a reply has its parent; one user, one vote; the search shows the comments
  there are.
- *search and cache*: an answer out of the cache fits the question; the document follows the row;
  what is gone disappears from the answers. (The code keeps the first only in part and the second not
  at all: section 3, findings 5 and 6.)

The full list of hazards, each at its line with the properties that watch it, is in `PROJECT.json`.

## 2. Modules

| Module | Models |
|---|---|
| `TaskflowStore` | the tables, staged writes, unique constraints, `Begin`/`Commit`/`Fail`/`Dispatch`, the role clean-up |
| `GroupTransactions` | one action per write operation of `GroupTransaction` |
| `TaskTransactions` | one action per write operation of `TaskTransaction`, and the nested assignment |
| `Taskflow` | all of it together: `Next`, `Spec`, the properties |
| `GroupLedger` | the abstract specification: who owns, who belongs, what was asked and decided |
| `MCTaskflow` | the module TLC runs: symmetry, the cuts of the instances, and `RaceSpec`, which starts where a group and a task exist |
| `OutboxWorker` | the outbox worker, the index, and the documents services save themselves |
| `OutboxPromise` | the abstract specification of the worker: each event is delivered or given up, once |
| `Platform` | what the modules below share: users, and NULL |
| `SseDelivery` | queues, streams, Redis and the listener of every API process |
| `Notifications` | the rows, the three steps of creating one, answers, read marks, listings; publishes through `SseDelivery` |
| `Experience` | skill rows, the award of a completed task, the cap, levels, bonus and reward |
| `Accounts` | users and tokens: registration, login, renewal, profile, deletion, administration |
| `Comments` | the thread of a task, its foreign key and its documents |
| `Ratings` | ratings of tasks and groups, and their unique constraint |
| `SearchCache` | the search endpoints, the two cached profiles, the keys, the decorator, the time to live |
| `ServiceEffects` | what the task, group and user services do after their commit: document, then cache |
| `MCServices` | the module TLC runs for the services above |
| `TaskflowProofs` | theorems about `Taskflow`: types, owners, and what a commit does |
| `LedgerProofs` | theorems about `Taskflow` that rest on what a plan says: the outbox, notifications, approvals, `GroupLedger` |
| `OverlapProofs` | theorems about `Taskflow`: roles and requests, and the overlaps that break them |
| `OutboxProofs` | theorems about `OutboxWorker`, for any workers, for jobs that do not overlap, and for one worker |
| `UserProofs` | theorems about `Comments`, `Ratings`, `Experience` and `Accounts` |
| `DeliveryProofs` | theorems about `SseDelivery` and `Notifications` |
| `SearchProofs` | theorems about `ServiceEffects` and `SearchCache` |
| `ServicesProofs` | the types of all services in the specification the runs use, and the lemmas they rest on |

**From code to model.** The tables are `group`, `membership`, `userRole`, `joinRequest`, `task`,
`assignee`, `outbox`. `tx[w]` is the unit of work of worker `w`. A handler is the action named after
it: its guards are the permission gate of its endpoint, the reads and the early returns; what it
stages is a record of row inserts, deletes and column updates (`Writes`), which lands as a whole in
`Commit`, or is undone by a unique constraint (`Conflict`). A handler that raises rolls back and
changes nothing, so it is a request that never begins.

```
idle --handler--> commit --Commit--> dispatch --Dispatch--> idle      most operations
idle --handler--> remaining --LookRemaining--> pickRole --PickRole--> commit ...    deletions
idle --Approve--> flush --> inner --> innerCommit --> outerCommit ...               group approval
                                                                      of a task request
any phase --Fail--> idle                                 the worker stops; its session is undone
```

**What is atomic.** The reads of one handler up to its last check happen in one step and its commit
in another; every other worker may move in between. Where the code looks again after it wrote, the
look is a step of its own: the clean-up (`group.py:393-424`) asks and then deletes in two, the
nested approval in four. The reads within a handler are not split further: rows are selected by id
and each check is about the row just read.

**Abstractions.**
- An update carries the columns that changed, as the ORM emits them. Two handlers that set different
  columns of a row do not overwrite each other; two that set the same one do, in commit order.
- `userRole` counts rows of each content. Rows with a NULL column escape the unique constraint, so
  that a role can be there twice; equal rows are interchangeable.
- The clean-up deletes *one* row of the role, whichever the query returns first, of any group:
  `PickRole` takes any.
- A row flushed by a nested approval holds its unique keys and its request: `NotBlocked`.
- Users are constant; those in `Staff` have the global `ADMIN` role and every permission.
- Task visibility, priority, spheres, deadlines and descriptions are left out of the core: no guard
  of its operations reads them (the award of a completion is in `Experience`). Notifications are
  reduced to kind, addressee and request.
- The invitation a nested assignment sends is left out; no property is about invitations.
- A request is accepted while fewer than `MaxRequests` were opened. This is the only bound the
  modules add; ids are finite because `Group` and `Task` are.

**The outbox worker.** `OutboxWorker` stands next to the core, not on top of it: the core shows that
each commit writes its event (`OutboxFaithful`), the worker takes it from there, and the two share
nothing but those rows. A row of the tables is a version that every change raises, and the index has,
per entity, the versions its documents show. One job per worker:

```
idle --ProcessOutbox--> mark --Mark--> read --ReadEntity--> write --IndexDocument--> complete
                          ^            read --DeleteDocument----------------------> complete
                          |                                 any failure ----------> fail --MarkFailed--> idle
                          +---- next event of the batch ---- MarkCompleted --------- (or idle)
idle --RetryFailedOutbox--> retry --MarkFailedAsRetry--> idle
any phase --Interrupt--> idle                    killed, or timed out by background/runner.py
```

Each arrow is one commit, one query or one call to Elasticsearch, and other workers, requests and
services' own writes come in between. What matters and is kept:

- `seen`: sessions do not refresh what they read (`expire_on_commit` is off), so that a job writes
  the retry count it read with its batch plus one, over whatever other jobs wrote.
- The first failure ends the batch: `mark_failed` is followed by a `raise`.
- The worker leaves the index as it is. `bulk_index` sends each document with its metadata inside
  (`doc.to_dict(True)`, `es/indexer.py:271-274`); Elasticsearch refuses every such item, in an answer
  nobody looks at, and the event is COMPLETED. A deletion looks under the id of the row, where no
  document lies, and the event is COMPLETED with a warning (`service/outbox.py:484-502`). Either call
  may fail as a whole, and so may the conversion of a row (`from_orm`).
- `direct`: after its commit a service saves a document itself, except for a change of status; those
  of two requests arrive in any order, and one that fails is not repeated.
- `Wired = FALSE` is the constructor as it stands (finding 3 below); `TRUE` is the service with the
  repository that `BaseService.__init__` sets, and shows what the rest of the code does.
- Events of an unknown type, which the code marks FAILED, do not occur: every transaction names one of
  the four types the worker knows. Database errors are interrupts. Events are in `created_at` order,
  taken to be the commit order. `MaxEvents` and `MaxInterrupts` bound requests and interrupts.

**The services.** What is around the transactions is a module per service. They share no variable,
but for `Notifications`, which calls `SseDelivery!Publish`; interleaving two that share nothing adds
no behaviour, so that `MCServices` runs one *part* in each behaviour. They follow one scheme: a
request that reads first and writes later is two actions, with what it has read kept per client
(`pending`, `award`, `writing`, `ratingNow`, `asking`), and the unique index, the constraint or the
foreign key has its say in the second. What follows the commit (document, event, cache) is an action
each, and may fail. Requests that read and write in one short transaction on a row of their own are
one action.

- `SseDelivery`: a queue is an object. A stream keeps reading the one it was given although the
  manager has forgotten it, so a queue is named after the stream it was created for. `relay` is
  `SSE_ENABLED`: with it a published event goes to Redis, to the listener of every process, and, after
  an await, to the local queue as well; without it, to the local queue at once. `Disconnect`
  deregisters the user's queue, whoever else reads it. `RestartProcess` loses what a process knew.
- `Notifications`: `progress` is how far the request that creates a notification has come: row, then
  document, then event. `MarkAllAsRead` leaves the rows alone: the session of that request is closed
  without a commit. `NotifyLevelUp` fails: its sender, id 0, is no user. `GetMyNotification` is in
  the model although no endpoint calls it.
- `Experience`: weights are per cent and factors tenths. The points are an `int()` of a product of
  floats; where the product is a whole number the result may be one less, which `Truncated` leaves
  open. `Credit` returns the copy it computes and leaves the row as it is: the transaction reads and
  writes nothing, and the copy belongs to no session that is saved. `PointsFor` never finds a sphere:
  the distribution is keyed by upper-case names and looked up by lower-case values, so the award's
  amount is 0; `AddSphereXp` is therefore also given other amounts, the interface the code has.
- `Accounts`: a password is right or there is no request. Whoever is handed tokens was read from the
  database before, across an await (`auth.py:200-214`, `244-279`, `333-374`): `Reading` is what the
  request holds, `HandOut` the answer, and a deletion or a change of profile may come in between. A
  name may be given that is another's address, since `update_my_profile` compares addresses with
  addresses and names with names: `Username` has one that is also in `Email`, and `Login` finds any
  account that matches in either column. `AdminDeleteUser` changes nothing:
  `UserRepository.delete` looks for a row that is inactive already; for an administrator the count
  that stands before it calls itself and never returns, which the client sees as an error.
- `Comments`, `SearchCache`, `ServiceEffects`: `from_orm` passes `id=` as a field and never sets
  `meta.id`, so that `doc.save` adds a document under an id Elasticsearch makes up. An item has the
  *set* of documents its saves have added; a deletion, which looks under the id of the row
  (`es/indexer.py:212-260`), finds none, raises in `service/utils/indexer.py:78-98` and ends the
  request with an error after its commit. `_get_user_doc` (`es/search.py:222`) looks under the id of
  the caller in the same way: `CallerHasDoc` is FALSE, and the searches for one's own groups and
  tasks, and by a group's users, answer with an error or find nothing.
- `SearchCache`: the query stands for the parameters that are part of a key (`q`, `status`,
  `group_id`), `filter` for those that narrow a search and are not (`priority`, `difficulty`, `role`,
  `is_active`, `visibility`, `join_policy`, ...: `key_builder.py:204`); `limit` is not part of a key
  either. Facets find the same. `NamespaceOf` is a constant: keys start with the environment, and no
  namespace that `_invalidate` clears does.
- `ServiceEffects`: the commit is taken whole here, its inside being `Taskflow`'s business; `todo` is
  what the service awaits after it. The document of a changed profile is written from the user that
  came with the request, as it was before the change: `ReindexProfile`. A row is one column; of two
  updates of different columns that overlap, each would save a document with its own column new and
  the other's old, which one column cannot show.
- `SseDelivery!Publish` awaits Redis (`core/sse/manager.py:50`), and the model takes the call and its
  receipt by Redis as one step. Events are numbered as Redis gets them; two publishers of one process
  may have called in the other order.

Operators such as `DeleteGroupKeepingRole` stand before the definition they vary: each is that
operation with a plausible bug, and shows that the property about it can fail.

## 3. What TLC checks

| Run | Instance | States | Shows |
|---|---|---|---|
| `groups_concurrent` | 2 workers; 1 user and 2 groups, or 2 users, 1 group and 1 request | 240 k | `TypeOK`, `AdminRoleSound`, `OutboxFaithful`, `NoticesTellTruth`, `ApprovalDelivers` while requests on groups overlap and fail, and `ImplementsLedger`: the tables implement `GroupLedger` |
| `tasks_concurrent` | 2 workers, 1 founded group and task, 1 request (`RaceSpec`) | 402 k | `OwnerInv`, `ApprovalDelivers` under both approval routes, rejections, exits, invitations |
| `sequential` | 1 worker, a staff user; 2 groups and a task, or 1 group, 1 task and 3 requests | 332 k | `AdminRoleComplete`, `RolesGrantedOnce`, `OutboxFaithful`, `OnePendingRequest`, `RejectedIsFinal` |
| `cleanup_race` | 2 workers, 1 user, 2 groups | violated | `AdminRoleComplete` |
| `decided_again` | 1 worker, 1 user, 1 request | violated | `DecidedOnce` |
| `outbox_overlap` | 2 workers, 1 row, 2 events, 1 interrupt, every outcome | 254 k | `WorkerInv`, `OneLostPerInterrupt`, `EventuallySettled` however jobs overlap, fail and are killed |
| `outbox_serial` | 1 worker, a soft and a hard row, 3 events, failures | 19 k | `ImplementsPromise`, the worker implements `OutboxPromise`; `EveryEventCloses` |
| `outbox_unwired` | 2 workers, 1 row, 1 event, `Wired = FALSE` | violated | `EventuallyConsistent` |
| `delivery` | parts streams and search; 2 processes, 2 streams, queues of 2, 3 events | 158 k | `CopiesBounded`, `InOrder`, `QueuesAreRead`, `ListenerGoesOn`, `GoneFadesOut` |
| `services` | every part but streams; 2 requests at once (in search one that reads and one that changes), 2 notifications, comments and ratings | 362 k | `ServicesTypeOK` and one or two properties of each service: `EventsTellRows`, `WaitingIsAnswerable`, `ReadStaysRead`, `OneSkillEach`, `LevelFits`, `RewardFair`, `OneAccountEach`, `StaysDeleted`, `RepliesHaveParents`, `CommentsFound`, `OneVoteEach`, `AnswersFit` |
| `my_profile` | 2 users, search only | violated | `MyProfileIsMine` |
| `index_synced` | search only, 1 request at a time, Elasticsearch never fails | violated | `DocumentsSynced` |

*Why these bounds.* Every rule here relates two requests: one that reads and one that commits in
between. Two workers give every such pair at every step; a third adds no kind of overlap, since a
handler's staleness is with respect to *some* commit in between and one worker can commit any number
of them. Two groups of one owner are what the clean-up needs to confuse them; two users are an owner
and an applicant. The sequential run asks what a single request at a time guarantees, over longer
histories (three requests, deletions and re-creation, roles that come and go). Two of the runs take
the union of two instances, as `OwnersOrMembers` and `RolesOrRequests` say: what one of them needs
many of, the other has one of. For the outbox, two
events make a batch with a first and a next one, and two workers take it both; retries up to the
code's limit of 3 are all walked through. Three events over two rows let the deletion of one come
before, between and after changes of the other.

For streams, two tabs of one user in one process share a queue, inherit it or find it deregistered;
with room for two, three events fill it, wait for it and are dropped; two processes are one in which
an event is published and one that only listens. For the other services two requests at once suffice
for the same reason as above; two comments are a parent and its reply, of which the parent is changed,
two ratings one that is deleted and one that comes after it. The amounts of XP stand on and next to the thresholds and across the
daily cap, and the days before, at and after both ends of the bonus. Searches have one item at a time,
of each kind, since an answer is checked item by item, one answer kept, and one request that asks
beside one that changes; more of them at once are covered by the theorem `CachedAnswersFit`. `Small` (a CONSTRAINT) names what the instances
leave out: a second user's streams, other authors' comments, and the product of independent requests.
A constraint cuts behaviours off at its edge, so that the liveness properties of `delivery` are shown
for the behaviours that stay within it.

*Deadlock* is not checked: when all ids are used up, the groups are deleted and the last member has
left, no request can succeed and the system rests.

*Symmetry* is used for users, workers, ids and names, which the code treats alike; the instances with
a `Staff` user give it no user symmetry to break (it is the only one).

*Fairness* is not assumed in the core: a request may never be made and a worker may stop at any
point, and every property there is a safety property. `OutboxWorker!FairSpec` assumes what Celery
provides: beat starts `app.outbox_processor` every 30 seconds and `app.outbox_retry_failed` every 5
minutes on *some* worker (`background/beat.py:26-35`, a weak fairness for each of the two over all
workers), and a job that runs goes on until it ends or is interrupted (a weak fairness for each
worker's `Work`). Nothing is assumed of requests, of interrupts, or of a service's own writes, and
nothing of Elasticsearch: it may fail every time. `SseFairness` assumes of the event loop that a task
which can go on does: the generator of a stream whose queue has something, the local put after the
publication, the listener that has a message or, waiting, room. `EffectFairness` assumes that a key
of the cache expires, as every key is given a time to live. Browsers, processes and publishers are
free to do nothing.

**One worker and several.** `ImplementsPromise` and `EveryEventCloses` hold for one worker. With two,
a job that was slow marks FAILED what another completed. An event closes only if no interrupt loses
it. The first holds for several workers too while jobs do not overlap (section 4 says in what).

**What the events settle, and what the index has.** The properties of the worker are about events: that
they are processed, given up, or lost, and how often. None is about the index, since no job changes it.
The retry count is raised at the failure and again at the retry, so that with the limit of 3 an event
gets two attempts; `RetriesBounded` is an upper bound and does not see that `beat.py:13` has "DLQ after
3 attempts". `CommentsFound` says what the index does keep: a comment that is there is found as it is,
among other documents of it that may show it as it was. `GoneFadesOut` is about profiles, which are
answered from the rows; a document of an item that is gone stays, and so do the answers that list it.

**Sequential and overlapping.** `AdminRoleComplete`, `OnePendingRequest`, `RolesGrantedOnce` and
`RejectedIsFinal` hold request by request and are broken by overlap, since the code locks nothing
and three unique constraints have NULL columns. Each is checked with one worker. The proofs (section 4)
say which overlap it takes: one kind for each, and every other overlap is harmless.

### What the checks found

1. `cleanup_race`: `delete_my_group` asks whether the owner has another group, sees none, and deletes
   a `GROUP_ADMIN` row of theirs. If `create_my_group` commits between the two, it deletes the new
   group's row; from then on its owner can neither update nor delete it.
2. `decided_again`: `reject_task_join_request` does not read the status. An approved request becomes
   rejected and its user stays assigned. A test's docstring expects a 400
   (`src/backend/tests/integration/test_task_endpoints.py:801`).
3. `outbox_unwired`: `OutboxService.__init__` (`service/outbox.py:54`) does not call
   `super().__init__()`, which would set `_outbox_repo`. Every job raises at its first query, and a
   change of status, which only the outbox carries to the index, never arrives.
   `background/beat.py:9` says "Keeps ES eventually consistent with PostgreSQL". The repository alone
   would not help, since what a job sends in bulk is refused.
4. `my_profile`: the key of `GET /users/me` (`api/v1/endpoints/user.py:47`) has no part for the
   caller, so that for half an hour everybody is shown the profile of whoever asked first. Its
   docstring says "Get current authenticated user's profile information" (`user.py:52`).
5. `index_synced`: a group is changed, and the index has two documents of it; or deleted, and the index
   keeps all it had. `es/indexer.py:40-42` says "Documents are automatically synced with database models
   through ORM conversion methods".
6. The filters that are not part of a key: searches that differ in them share an answer for five
   minutes. The examples of `cache/cache_keys.md:32-34` have `role_admin` and `visibility_public` in the
   key, and `api/v1/endpoints/search.py:27` lists `priority` among the query parameters of a cached
   search. The model has the filters (`Filter`), no run is spent on them, and `AnswersFit`, which holds,
   promises what a key stands for and no more.

Reading the code for the model showed more that no run needs to show, because a single call does:

- `AdminTransaction.delete_user` deletes nobody, and counting the administrators never returns
  (`repositories/user.py:135`): `AdminDeleteUser`.
- `mark_all_as_read` answers with a count and commits nothing: `MarkAllAsRead`.
- No XP is ever stored, and the amount a completed task awards is always 0: `Credit`, `PointsFor`. A
  task with spheres cannot be created through the API either, since enums do not fit the JSON column
  (`service/transactions/task.py:721`); the award is reached by rows that came another way.
- `_invalidate` clears nothing, since no key lies in the namespaces it names: `Invalidate`. A change
  shows when the key expires, which is what `GoneFadesOut` is about.
- After a change of profile the index has another document of the user, as they were before the change:
  `ReindexProfile`. A change of a task's status adds none, and the outbox writes none.
- `remove_user_from_task` and `exit_task` delete the assignment through `session.delete`, which is not
  flushed before the clean-up queries (the sessions have autoflush off, `transactions/task.py:937`). The
  clean-up finds it, and the `ASSIGNEE` role stays for good; its docstring says "If none found, deletes
  the ASSIGNEE role from the user" (`transactions/task.py:176-177`). In the model `Remaining`
  sees the tables, where an assignment that is staged to go still is.
- Whoever has access to a task may delete it: the endpoint asks for `task:exit:own`, which every user
  has (`api/v1/endpoints/task.py:188`, `role_permissions.py:13`): `DeleteMyTask`.
- A tab that closes takes the queue of the user's other tabs out of the manager: they stay open and
  get nothing more. `QueuesAreRead` holds since what *is* in the queue is still read; the later events
  go to a new queue or nowhere.

**Where the documentation and the code disagree**, and the model and its properties follow the code:

| The text | The code |
|---|---|
| "All members are removed. All tasks are deactivated" when a group is deleted (`api/v1/endpoints/group.py:139-142`) | `delete_my_group` marks the group inactive and deletes the owner's role; memberships and tasks stay, in `GroupLedger!Close` too |
| "Deletes all replies if parent is deleted" (`api/v1/endpoints/comment.py:163`) | a comment with replies is refused its deletion; `RepliesHaveParents` rests on that |
| "All tokens are invalidated. User is removed from all groups. User's tasks are reassigned. Data can be restored by admin" (`api/v1/endpoints/user.py:159-166`) | `delete_my_profile` clears `is_active` and nothing else; tokens fail because the account is not active; no operation restores one: `StaysDeleted` |
| "invalidating the old one" when a refresh token is renewed (`service/auth.py:383`) | the token that was renewed stays valid: `Renew` |
| points between half and twice the story points (the bonus of `service/xp.py:64-67`) | times a streak bonus of up to 1.5, so three times as many (`tests/unit/test_xp_service.py:190-197`): `RewardFair` is over every streak |
| a login with "email OR username" finds one account (`service/auth.py:222-242`) | a name may be another's address, and the first row found is taken; its password then fails: `Login`, `OneAccountEach` |
| "DLQ after 3 attempts" (`background/beat.py:13`) | two attempts: `MarkFailed`, `MarkFailedAsRetry` |
| keys with `role_admin`, `visibility_public` and `limit_10` (`cache/cache_keys.md:32-34`) | none of them is part of a key: finding 6 |

## 4. What is proved

About the core, for every value of the constants that satisfies `ConstantsAreDistinct` (ids are distinct, NULL is not
an id, policies are the two the schema allows, `MaxRequests` is a natural number):

| Theorem | Statement |
|---|---|
| `OwnerInvariant` | `Spec => []OwnerInv` |
| `TypesHold` | `Spec => []TypeOK` |
| `NoStrayAdminRole` | `Spec => []AdminRoleSound` |
| `LedgerInvariant` | `Spec => []LedgerInv` |
| `OutboxTellsTruth` | `Spec => []OutboxFaithful` |
| `NoticesAreTrue` | `Spec => []NoticesTellTruth` |
| `ApprovalsDeliver` | `Spec => ApprovalDelivers` |
| `LedgerImplemented` | `Spec => ImplementsLedger` |

and, under a hypothesis about what overlaps on the way, for any number of workers:

| Theorem | Statement | The overlap that must not happen |
|---|---|---|
| `OwnersKeepTheirRole` | `Spec /\ []FoundingApart => []AdminRoleComplete` | a group is founded while its owner's last role row is being picked |
| `GrantedOnce` | `Spec /\ []GrantsApart => []RolesGrantedOnce` | two requests are about to grant the same role |
| `AsksOnce` | `Spec /\ []AsksApart => []OnePendingRequest` | somebody asks twice at once to join the same group |
| `RejectedForGood` | `Spec /\ []DecisionsApart => RejectedIsFinal` | a request is approved and rejected at once |
| `OneAfterTheOther` | with one worker, `Spec` implies all four | none can happen |

**The argument: owners.** `AdminRoleSound` alone is not inductive: a commit lands writes that were staged
against older tables. What must be added is that staged writes stay right, whatever lands before
them (`PlansSound`): an id that was handed out is still absent from the table, a row to be changed
exists, a plan that inserts a `GROUP_ADMIN` row also inserts its group, and a plan that closes a
group also deletes its owner's row. A commit of another worker disturbs none of this because no
transaction is handed an id another one holds (`IdsDistinct`), owners never change, rows are only
deleted softly, and requests are only appended. `NestedSound` ties the nested assignment to a task
request. Hence

    OwnerInv == TypeOK /\ AdminRoleSound /\ PlansSound /\ IdsDistinct /\ NestedSound

`TaskflowProofs` first shows what one row looks like after a commit (`GroupAfterRow`, `TaskAfterRow`,
`RequestsAfterRows`), then what a commit does to each part (`LandTypes`, `LandRoles`, `LandPlans`),
then each kind of step (a handler that begins, a worker that changes phase, a commit, a rollback),
then one step per action, and puts them together.

**The argument: the ledger.** The outbox, the notifications, the approvals and the refinement all ask
the same of a plan, that it does what it says. `LedgerProofs` adds it as

    LedgerInv == OwnerInv /\ WorkersKept /\ TaskIdsDistinct /\ RequestsPlaced /\ OutboxFaithful

`WorkersKept` says of everything staged that it is one change of the ledger, with exactly the outbox
rows that tell it (`Tells`), and that what it takes for granted stays so whatever others commit.
`TaskIdsDistinct` keeps two workers from creating the same task, `RequestsPlaced` ties a request to a
group, or to a task of that group. `OutboxFaithful` follows since a plan and its outbox rows land together;
`NoticesTellTruth` since events are queued for what the plan decides and a decision is never undone to
PENDING; `ApprovalDelivers` since the plan that sets APPROVED inserts the membership or assignment,
and lands only if the unique constraint lets it. For `ImplementsLedger`, each landing is one step of
`GroupLedger`, chosen by what the plan has in it, or leaves the ledger as it is, the commit of a nested
assignment included.

**The argument: overlap.** With several workers these four are false (section 3), and the proofs say
when: what a handler checked has to be true still when its plan lands. Each property asks this of one
thing a plan does: a role to be inserted is not there (`GrantsNew`), a request to join a group has no
undecided twin (`AsksNew`; for a task the unique constraint sees to it), a request to be approved is
not rejected (`Approvable`), a `GROUP_ADMIN` row is deleted only with its group (`DeletesOwn`). The
last is where the clean-up matters: it deletes one row of the owner's, of *any* group, and this is the
right one because it looked and no other group was left (`LastGone`).

`StepKinds` shows that a step either leaves the tables alone and the worker's plan as timely as it was
(`Stays`), or lands one plan (`Lands`); the plan of a nested assignment is bare of all four. So each
property becomes an invariant together with its own clause, for the plans of all workers, and the
clause is lost only if what lands disagrees with what another worker has staged: that is the overlap
named above, and nothing else is. `Rooted` is the part that no overlap breaks: an owner's role comes
with the group, and an `ASSIGNEE` row with the task it is for (`AssigneeRolesPlaced`).

About the outbox worker, for every value of the constants that satisfies `WorkerConstants` (batch
size and retry limit are positive; the bounds are natural numbers; `Wired` is either):

| Theorem | Statement |
|---|---|
| `WorkerInvariant` | `Spec => []WorkerInv` |
| `RetriesEnd` | `Spec => []RetriesBounded` |
| `LossBounded` | `Spec => []OneLostPerInterrupt` |
| `PromiseKept` | `Spec /\ []BatchesApart => ImplementsPromise`: however many workers, as long as no two jobs hold the same event |
| `PromiseImplemented` | `Spec => ImplementsPromise`, assuming one worker |

**The argument.** That counts stay within the limit is not a matter of the table alone: a job writes
what it read plus one, so what it has read must be bounded too (`SeenBounded`), strictly for a retry.
`WorkerInv` adds that a job that is not idle has an event to be at (`JobsBusy`). The proof takes the
invariant apart into what each event and each job owes to it (`Parts`), since a step changes one job
and few events. `LossBounded` then looks at the set of events that are PROCESSING and in nobody's
hands: a step of a worker can add to it only the event its own job was at (`LossIsOwn`), each mark
takes that event out of PROCESSING, and what is left is the interrupt, which is counted.

The last two say what the overlap of jobs breaks. A job changes only events of its own batch
(`OthersKept`), so that while batches are apart each stays as its job took it (`InStep`): every event in
it is PENDING until its turn and PROCESSING at its turn, and the job closes only what is open, once.
Nothing in the code keeps batches apart, since a job reads its batch without locking or claiming it;
with one worker they are apart by themselves. A claim on its events that other jobs respect until the
batch is done would be enough for `PromiseKept`; row locks alone would not, since a job commits at each
event and a commit releases them.

About each of the services, for every value of its constants:

| Theorem | Statement | Assumes |
|---|---|---|
| `AccountTypes` | `AccountSpec => []AccountTypeOK` | NULL is no user, address or name; administrators are users |
| `AccountsDistinct` | `AccountSpec => []OneAccountEach` | the same |
| `DeletedForGood` | `AccountSpec => StaysDeleted` | the same |
| `CommentTypes` | `CommentSpec => []CommentTypeOK` | NULL is no task, content or row of comments |
| `ThreadsStayWhole` | `CommentSpec => []RepliesHaveParents` | the same |
| `CommentsAreFound` | `CommentSpec => []CommentsFound` | the same |
| `RatingTypes` | `RatingSpec => []RatingTypeOK` | tasks and groups have no id in common |
| `VotesCountOnce` | `RatingSpec => []OneVoteEach` | the same |
| `PointTypes` | `XpSpec => []XpTypeOK` | amounts and inputs are numbers |
| `SkillsAreUnique` | `XpSpec => []OneSkillEach` | the same |
| `LevelsFit` | `XpSpec => []LevelFits` | the same |
| `RewardsAreFair` | `XpSpec => []RewardFair` | the same |
| `StreamTypes` | `SseSpec => []SseTypeOK` | queues have room for one; NULL is no process or stream |
| `EventsInOrder` | `SseSpec => []InOrder` | the same |
| `EventsNotMultiplied` | `SseSpec => []CopiesBounded` | the same |
| `NoticeTypes` | `NoticeSpec => []NoticeTypeOK` | a page has room for one |
| `WaitingCanEnd` | `NoticeSpec => []WaitingIsAnswerable` | the same |
| `ReadForGood` | `NoticeSpec => ReadStaysRead` | the same |
| `EventsHaveRows` | `NoticeSpec => []EventsTellRows` | the same |
| `SearchTypes` | `EffectSpec => []EffectTypeOK` | each item has a kind, the users are those of kind "user"; NULL is no request |
| `CachedAnswersFit` | `EffectSpec => []AnswersFit` | the same |

and of the specification the runs `services` and `delivery` use, under the assumptions of all:

| Theorem | Statement |
|---|---|
| `ServicesTypes` | `ServicesSpec => []ServicesTypeOK` |

**The parts of `MCServices`.** A behaviour runs one part, and the others stay as they begin, so that
nothing follows from `ServicesSpec` about services running together: what holds of each service is in
the theorems above, about its own specification. `ServicesTypes` carries the types over, by lemmas that
say that a step of `MCServices` is a step of a part or leaves it alone (`OnePartSteps`,
`PartsKeepTheirSpecs`). Only notifications touch another part: their publication is a step of
`SseDelivery` because the recipient of a stored notification is a user (`NoticesPublish`).

**The arguments.** Each time a request holds what it has read, and the invariant must say what of it
is still true when it writes:

- `AccountInv`: a change under way is about a user there is, or a registration of one there is not
  that no other request has the id of (`PendingSound`). The unique index then decides alone. That a
  deleted account is closed for good does not depend on when tokens are handed out: no request under
  way, whatever it has read, makes an inactive row active (`StateDecides`), and that is what every
  token is checked against when it is used.
- `CommentInv`: a request is about a comment whose task has not changed since (`CallFits`), and rows
  only change their content or go (`Evolves`). A parent goes only without replies, and a reply comes
  only while its parent is there, so that the thread stays whole (`Whole`). For the documents,
  `DocumentsInv`: what the index lacks of the comments there are, a request that has committed it still
  owes (`Owes`), or Elasticsearch failed. Since saves only add documents, nobody takes away what
  another owed, and overlap does no harm.
- `OneVoteEach` counts: `RatedOnce` says that two ratings of one user on one target are one row, so
  that mapping a rating to its user is a bijection, and the two cardinalities are the same.
- `XpInv`: rows are never deleted, so that a request that found one still has it. `LevelFits` is about
  one credit; that the level is the number of thresholds reached follows from the table rising
  (`ThresholdsRise`), which also places the progress between 0 and 99 per cent below the top.
- `RewardInv`: a quotation is of numbers that make sense. The bounds then are arithmetic, for any
  streak: `TimeBonus` lies between a half and two and falls with the days taken (`BonusFalls`),
  `StreakBonus` rises with the streak, and rounding down two products that are in order leaves them in
  order but for one point (`QuotientsFollow`).
- `OrderInv` is about the events that reach a process on one way only (`Single`): all without Redis,
  and with it those published elsewhere. On that way their order never changes: what Redis has for a
  process rises, and its listener waits with an earlier one (`BusInOrder`); what the queues and
  browsers of the process have comes before what is still coming (`Passed`); what a stream has sent
  comes before what is left in its queue (`Ahead`). Events on two ways may come in between, twice or
  late, and streams may share or inherit queues. It rests on `HomeInv`: a stream reads a queue of its
  own process.
- `HomeInv` and `CopyInv`: whatever refers to a queue (a stream, a connection, a waiting listener) is of
  the process and the user the queue was created for, and so are the events in it (`Homes`,
  `Addressed`). An event on its way through a process is in one of finitely many boxes: leaving the
  publisher, on the Redis channel, with the waiting listener, in a queue, at a browser. `CopyInv`
  counts the places where it is in all of them, those still ahead included; a publication adds what
  is allowed, and every other step moves one item between two boxes or drops some (`TwoBoxes`,
  `Moved`, `Shrunk`). Streams may share queues: a queue belongs to the stream it is named after.
- `TellInv` counts: what is sent is indexed, and every event published for a user is one more
  notification of theirs that is marked sent.
- `SearchInv`: what is kept under a key fits every request that has that key (`KeyFits`). It rests on
  `_infer_search_entity`: the path has the kind of what is searched, and where it has another word as
  well the first that is looked for is that kind (`InferSearchEntity`).
- `EffectTypeInv`: a request that is still to save a document has a text for it (`TextToIndex`).

**Only model-checked.** Every invariant and action property of the passing runs, and both
refinements, are theorems. The liveness properties `EventuallySettled`, `EveryEventCloses`,
`QueuesAreRead`, `ListenerGoesOn` and `GoneFadesOut` are left to TLC: liveness under fairness,
`ENABLED`, induction over data and RECURSIVE operators are out of the prover's reach. None of the
modules proved about uses the latter two.

## 5. Not modelled, and the plan

Next would be the read-only listings, where a property needs them.

Of the outbox worker, the `bulk_index` job is left out: it reads rows and writes documents without
events, whenever someone starts it by hand. Of the search, `service/search/db_search.py`, which no
endpoint uses.

Left out for good: the signing and expiry of tokens and the hashing of passwords (a library's), the
seeding of roles and permissions, read-only listings, schemas, documents, metrics, the command line,
migrations and deployment (no state of their own or no program logic).
