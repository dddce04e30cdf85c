------------------------------- MODULE Taskflow -------------------------------
(***************************************************************************)
(* Groups, tasks and the unit of work together: any number of workers, each*)
(* running one request at a time, against the same tables.                 *)
(***************************************************************************)
EXTENDS GroupTransactions, TaskTransactions

Next == \E w \in Worker : Machinery(w) \/ TaskStep(w) \/ GroupStep(w)

Spec == Init /\ [][Next]_vars

-----------------------------------------------------------------------------
(* Properties of every interleaving *)

\* A GROUP_ADMIN row is never left behind: whoever holds one owns that group,
\* the group is active, and the row is the only one of its kind.
\* (delete_my_group deletes the row with the group; the clean-up and a second
\* deletion of the same group must not get in the way.)
AdminRoleSound ==
  \A r \in RoleRow : r.kind = "GROUP_ADMIN" /\ HasRole(r) =>
    /\ r = AdminRole(r.user, r.group)
    /\ MyGroup(r.user, r.group)
    /\ userRole[r] = 1

\* The outbox tells what happened and nothing else: an entity has a CREATED
\* event exactly if it was committed, a group a DELETED event exactly if it
\* was deleted, and no task was withdrawn without an event.
OutboxFaithful ==
  /\ \A g \in Group : /\ "CREATED" \in outbox[g] <=> group[g].state # "absent"
                      /\ "DELETED" \in outbox[g] <=> group[g].state = "inactive"
  /\ \A t \in Task  : /\ "CREATED" \in outbox[t] <=> task[t].state # "absent"
                      /\ "DELETED" \in outbox[t] => task[t].state = "inactive"
                      /\ task[t].state = "inactive" => outbox[t] \cap {"UPDATED", "DELETED"} # {}

\* Nobody is told of a decision that was not committed: while a notification
\* of an approval or a rejection is on its way, the request is decided.
NoticesTellTruth ==
  \A w \in Worker : tx[w].phase = "dispatch" =>
    \A i \in 1..Len(tx[w].events) : tx[w].events[i].kind \in {"approved", "rejected"} =>
      joinRequest[tx[w].events[i].req].status # "PENDING"

\* An approval delivers what was asked in the commit that records it: the
\* user gains the membership then, or is assigned to the task.
ApprovalDelivers ==
  [][\A r \in 1..Len(joinRequest) :
       /\ joinRequest[r].status # "APPROVED"
       /\ joinRequest'[r].status = "APPROVED"
       => \/ <<joinRequest[r].user, joinRequest[r].group>> \in membership' \ membership
          \/ <<joinRequest[r].user, joinRequest[r].task>> \in assignee']_vars

\* The tables implement the ledger of GroupLedger.
Ledger == INSTANCE GroupLedger WITH
  owner    <- [g \in Group |-> group[g].admin],
  closed   <- {g \in Group : group[g].state = "inactive"},
  members  <- membership,
  requests <- [r \in 1..Len(joinRequest) |->
                 [user    |-> joinRequest[r].user,
                  group   |-> joinRequest[r].group,
                  forTask |-> joinRequest[r].task # None,
                  status  |-> joinRequest[r].status]]
ImplementsLedger == Ledger!Spec

-----------------------------------------------------------------------------
(***************************************************************************)
(* Why AdminRoleSound survives every interleaving: what is staged stays    *)
(* right about the tables until it lands, whoever commits in between.  An  *)
(* id that was handed out is still unused, rows that are to be changed     *)
(* exist, and a plan that closes a group takes its owner's row along.      *)
(***************************************************************************)
PlanSound(p, grp, tsk, reqs) ==
  /\ \A g \in p.grpOff : /\ grp[g].state # "absent"
                          /\ AdminRole(grp[g].admin, g) \in p.roleDel
  /\ \A x \in p.grpPolicy : grp[x[1]].state # "absent"
  /\ \A x \in p.grpName : grp[x[1]].state # "absent"
  /\ \A n \in p.grpNew : grp[n.id].state = "absent"
  /\ \A m, n \in p.grpNew : m = n
  /\ \A r \in p.roleIns : r.kind = "GROUP_ADMIN" =>
       /\ r = AdminRole(r.user, r.group)
       /\ \E n \in p.grpNew : n.id = r.group /\ n.admin = r.user
  /\ \A t \in p.tskOff : tsk[t].state # "absent"
  /\ \A x \in p.tskTitle : tsk[x[1]].state # "absent"
  /\ \A x \in p.tskStatus : tsk[x[1]].state # "absent"
  /\ \A x \in p.reqSet : x[1] \in 1..Len(reqs)

PlansSound == \A w \in Worker : PlanSound(tx[w].writes, group, task, joinRequest)

\* No group id is handed out twice.
IdsDistinct ==
  \A v, w \in Worker : \A m \in tx[v].writes.grpNew, n \in tx[w].writes.grpNew :
    v # w => m.id # n.id

\* The nested assignment knows the task request it works for.
NestedSound ==
  \A w \in Worker : tx[w].phase \in {"flush", "inner", "innerCommit"} =>
    /\ tx[w].req \in 1..Len(joinRequest)
    /\ joinRequest[tx[w].req].task # None

OwnerInv == TypeOK /\ AdminRoleSound /\ PlansSound /\ IdsDistinct /\ NestedSound

-----------------------------------------------------------------------------
(* Properties of requests served one after the other, which overlapping    *)
(* requests break                                                          *)

\* The owner of an active group holds GROUP_ADMIN for it: without that row the
\* group can be neither changed nor deleted.
AdminRoleComplete ==
  \A g \in Group : ActiveGroup(g) => HasRole(AdminRole(group[g].admin, g))

\* A user has at most one undecided request for a group.
OnePendingRequest ==
  \A q, r \in 1..Len(joinRequest) :
    /\ joinRequest[q].status = "PENDING" /\ joinRequest[r].status = "PENDING"
    /\ joinRequest[q].user = joinRequest[r].user
    /\ joinRequest[q].group = joinRequest[r].group
    /\ joinRequest[q].task = joinRequest[r].task
    => q = r

\* "grant if not exists": no role is granted twice.
RolesGrantedOnce == \A r \in RoleRow : userRole[r] <= 1

\* A rejected request is never approved afterwards.
RejectedIsFinal ==
  [][\A r \in 1..Len(joinRequest) :
       joinRequest[r].status = "REJECTED" => joinRequest'[r].status = "REJECTED"]_vars

-----------------------------------------------------------------------------
(***************************************************************************)
(* The overlaps that break them: each of the four properties holds as long *)
(* as the one of these that it needs does, however many workers there are  *)
(* and whatever else overlaps.                                             *)
(***************************************************************************)

\* No group is founded while its owner's last role row is being picked: between
\* the clean-up's question for another group and its answer's use.
FoundingApart ==
  \A v, w \in Worker : v # w /\ tx[v].phase = "pickRole" /\ tx[v].kind = "GROUP_ADMIN" =>
    \A n \in tx[w].writes.grpNew : n.admin # tx[v].subject

\* No two requests are about to grant the same role.
GrantsApart ==
  \A v, w \in Worker : v # w => tx[v].writes.roleIns \cap tx[w].writes.roleIns = {}

\* No two requests of a user to join the same group are under way; for tasks
\* the unique constraint sees to it.
AsksApart ==
  \A v, w \in Worker : v # w =>
    \A q \in tx[v].writes.reqNew, r \in tx[w].writes.reqNew :
      ~(q.user = r.user /\ q.group = r.group /\ q.task = None /\ r.task = None)

\* No join request is approved and rejected at the same time.
DecisionsApart ==
  \A v, w \in Worker : v # w =>
    \A x \in tx[v].writes.reqSet, y \in tx[w].writes.reqSet :
      x[1] = y[1] => ~(x[2] = "APPROVED" /\ y[2] = "REJECTED")

-----------------------------------------------------------------------------
(* What the code's own words promise and its steps do not keep *)

\* A request for a task that was decided stays as it was decided: "Reject
\* already approved/rejected request -- returns 400" says the endpoint's test.
DecidedOnce ==
  [][\A r \in 1..Len(joinRequest) :
       joinRequest[r].task # None /\ joinRequest[r].status # "PENDING" => joinRequest'[r].status = joinRequest[r].status]_vars
=============================================================================
