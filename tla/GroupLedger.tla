------------------------------ MODULE GroupLedger ------------------------------
(***************************************************************************)
(* What the group service promises about who belongs to which group, with  *)
(* no workers, sessions or roles: groups are founded with their owner as a *)
(* member and closed once; members come and go one at a time; a request    *)
(* once asked is never taken back or reopened, and approving a request for *)
(* a group admits its user in the same step.                               *)
(***************************************************************************)
EXTENDS Naturals, Sequences

CONSTANTS User, Group, None

VARIABLES
  owner,     \* [Group -> User or None]: None until the group is founded
  closed,    \* the groups that were deleted
  members,   \* who belongs to which group
  requests   \* join requests in the order they were asked

ledger == <<owner, closed, members, requests>>

Init ==
  /\ owner = [g \in Group |-> None]
  /\ closed = {}
  /\ members = {}
  /\ requests = <<>>

Found(u, g) ==
  /\ owner[g] = None
  /\ owner' = [owner EXCEPT ![g] = u]
  /\ members' = members \cup {<<u, g>>}
  /\ UNCHANGED <<closed, requests>>

\* The members stay, and the tasks: DELETE /groups/{id} says that it removes
\* the ones and deactivates the others, and does neither.
Close(g) ==
  /\ owner[g] # None
  /\ closed' = closed \cup {g}
  /\ UNCHANGED <<owner, members, requests>>

Enter(u, g) ==
  /\ owner[g] # None
  /\ <<u, g>> \notin members
  /\ members' = members \cup {<<u, g>>}
  /\ UNCHANGED <<owner, closed, requests>>

Leave(u, g) ==
  /\ members' = members \ {<<u, g>>}
  /\ UNCHANGED <<owner, closed, requests>>

Ask(u, g, forTask) ==
  /\ owner[g] # None
  /\ requests' = Append(requests,
       [user |-> u, group |-> g, forTask |-> forTask, status |-> "PENDING"])
  /\ UNCHANGED <<owner, closed, members>>

Refuse(r) ==
  /\ requests' = [requests EXCEPT ![r].status = "REJECTED"]
  /\ UNCHANGED <<owner, closed, members>>

\* A request for a task may find its user a member of the group already.
Approve(r) ==
  /\ requests' = [requests EXCEPT ![r].status = "APPROVED"]
  /\ \/ members' = members \cup {<<requests[r].user, requests[r].group>>}
     \/ requests[r].forTask /\ members' = members
  /\ UNCHANGED <<owner, closed>>

Next ==
  \/ \E u \in User, g \in Group :
       Found(u, g) \/ Enter(u, g) \/ Leave(u, g) \/ \E b \in BOOLEAN : Ask(u, g, b)
  \/ \E g \in Group : Close(g)
  \/ \E r \in 1..Len(requests) : Refuse(r) \/ Approve(r)

Spec == Init /\ [][Next]_ledger
=============================================================================
