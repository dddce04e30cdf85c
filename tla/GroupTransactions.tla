-------------------------- MODULE GroupTransactions --------------------------
(***************************************************************************)
(* The write operations on groups: each action is one request up to its    *)
(* last check, with the writes it stages; TaskflowStore commits them.  A   *)
(* request that fails a check is rolled back and changes nothing.          *)
(***************************************************************************)
EXTENDS TaskflowStore

\* POST /groups: the creator becomes owner and member.
CreateGroupWithoutMember(w, u, g, n, pol) ==
  /\ FreshGroup(g)
  /\ Begin(w, "commit", [Idle EXCEPT !.writes = [NoWrites EXCEPT
       !.grpNew  = {[id |-> g, admin |-> u, policy |-> pol, name |-> n]},
       !.roleIns = {AdminRole(u, g)},
       !.out     = {<<g, "CREATED">>}]])
CreateMyGroup(w, u, g, n, pol) ==
  /\ FreshGroup(g)
  /\ ~\E h \in Group : MyGroup(u, h) /\ group[h].name = n
  /\ Begin(w, "commit", [Idle EXCEPT !.writes = [NoWrites EXCEPT
       !.grpNew  = {[id |-> g, admin |-> u, policy |-> pol, name |-> n]},
       !.memIns  = {<<u, g>>},
       !.roleIns = {AdminRole(u, g)},
       !.out     = {<<g, "CREATED">>}]])

\* PATCH /groups/{id}: name and join policy; only changed columns are written.
UpdateMyGroup(w, u, g, n, pol) ==
  /\ Permits(u, {"GROUP_ADMIN"})
  /\ MyGroup(u, g)
  /\ ~\E h \in Group \ {g} : ActiveGroup(h) /\ group[h].name = n
  /\ Begin(w, "commit", [Idle EXCEPT !.writes = [NoWrites EXCEPT
       !.grpName   = {<<g, n>>} \ {<<g, group[g].name>>},
       !.grpPolicy = {<<g, pol>>} \ {<<g, group[g].policy>>},
       !.out       = {<<g, "UPDATED">>}]])

\* DELETE /groups/{id}: a soft delete that takes the owner's role row along.
DeleteGroupKeepingRole(w, u, g) ==
  /\ Permits(u, {"GROUP_ADMIN"})
  /\ MyGroup(u, g)
  /\ HasRole(AdminRole(u, g))
  /\ Begin(w, "remaining", [Idle EXCEPT !.subject = u, !.kind = "GROUP_ADMIN",
       !.writes = [NoWrites EXCEPT !.grpOff = {g}, !.out = {<<g, "DELETED">>}]])
DeleteGroupSilently(w, u, g) ==
  /\ Permits(u, {"GROUP_ADMIN"})
  /\ MyGroup(u, g)
  /\ HasRole(AdminRole(u, g))
  /\ Begin(w, "remaining", [Idle EXCEPT !.subject = u, !.kind = "GROUP_ADMIN",
       !.writes = [NoWrites EXCEPT !.grpOff = {g}, !.roleDel = {AdminRole(u, g)}]])
DeleteMyGroup(w, u, g) ==
  /\ Permits(u, {"GROUP_ADMIN"})
  /\ MyGroup(u, g)
  /\ HasRole(AdminRole(u, g))
  /\ Begin(w, "remaining", [Idle EXCEPT !.subject = u, !.kind = "GROUP_ADMIN",
       !.writes = [NoWrites EXCEPT !.grpOff = {g}, !.roleDel = {AdminRole(u, g)},
                                   !.out = {<<g, "DELETED">>}]])

\* POST /groups/{id}/members: the owner adds a member; no role is granted.
AddMemberToGroup(w, u, g, v) ==
  /\ Permits(u, {"GROUP_ADMIN"})
  /\ MyGroup(u, g)
  /\ <<v, g>> \notin membership
  /\ Begin(w, "commit", [Idle EXCEPT
       !.writes = [NoWrites EXCEPT !.memIns = {<<v, g>>}],
       !.events = <<Tell("group_invite", v, 0)>>])

\* Deleting a membership, then the MEMBER clean-up.
LeaveGroup(w, g, v) ==
  /\ <<v, g>> \in membership
  /\ Begin(w, "remaining", [Idle EXCEPT !.subject = v, !.kind = "MEMBER",
       !.writes = [NoWrites EXCEPT !.memDel = {<<v, g>>}]])

RemoveMemberFromGroup(w, u, g, v) ==
  /\ Permits(u, {"GROUP_ADMIN"}) /\ MyGroup(u, g) /\ LeaveGroup(w, g, v)

\* DELETE /groups/{id}/exit: a group that was deleted can be left, too, and
\* the owner may leave: GROUP_ADMIN carries the permissions of MEMBER.
ExitGroup(w, u, g) ==
  /\ Permits(u, {"MEMBER", "GROUP_ADMIN"}) /\ LeaveGroup(w, g, u)

\* POST /groups/{id}/join: at once in an open group, by request in the others.
JoinGroupOpen(w, u, g) ==
  /\ group[g].policy = "OPEN"
  /\ Begin(w, "commit", [Idle EXCEPT
       !.writes = [NoWrites EXCEPT !.memIns = {<<u, g>>}, !.roleIns = GrantMember(u, g)],
       !.events = <<Tell("group_join", group[g].admin, 0)>>])
JoinGroupByRequest(w, u, g) ==
  /\ group[g].policy # "OPEN"
  /\ Len(joinRequest) < MaxRequests
  /\ Begin(w, "commit", [Idle EXCEPT
       !.writes = [NoWrites EXCEPT !.reqNew =
          {[user |-> u, group |-> g, task |-> None, status |-> "PENDING"]}],
       !.events = <<Tell("created", group[g].admin, 0)>>])
JoinGroupUnchecked(w, u, g) ==
  /\ <<u, g>> \notin membership
  /\ ActiveGroup(g)
  /\ JoinGroupOpen(w, u, g) \/ JoinGroupByRequest(w, u, g)
JoinGroup(w, u, g) ==
  /\ <<u, g>> \notin membership
  /\ ActiveGroup(g)
  /\ ~PendingRequest(u, g, None)
  /\ JoinGroupOpen(w, u, g) \/ JoinGroupByRequest(w, u, g)

\* The owner decides a request.  A request for one of the group's tasks is
\* approved here too: a nested transaction then adds the user to the task.
ApproveDecisionOnly(r) == [NoWrites EXCEPT !.reqSet = {<<r, "APPROVED">>}]
ApproveWrites(r) ==
  LET u == joinRequest[r].user  g == joinRequest[r].group
  IN  [NoWrites EXCEPT !.reqSet = {<<r, "APPROVED">>}, !.memIns = {<<u, g>>},
                       !.roleIns = GrantMember(u, g)]
ApproveHandledAgain(w, u, r) ==
  /\ IsRequest(r)
  /\ Permits(u, {"GROUP_ADMIN"})
  /\ MyGroup(u, joinRequest[r].group)
  /\ Begin(w, IF joinRequest[r].task = None THEN "commit" ELSE "flush",
       [Idle EXCEPT !.actor = u, !.req = r,
                    !.writes = ApproveWrites(r),
                    !.events = <<Tell("approved", joinRequest[r].user, r)>>])
ApproveJoinRequest(w, u, r) ==
  /\ IsRequest(r)
  /\ Permits(u, {"GROUP_ADMIN"})
  /\ MyGroup(u, joinRequest[r].group)
  /\ joinRequest[r].status = "PENDING"
  /\ Begin(w, IF joinRequest[r].task = None THEN "commit" ELSE "flush",
       [Idle EXCEPT !.actor = u, !.req = r,
                    !.writes = ApproveWrites(r),
                    !.events = <<Tell("approved", joinRequest[r].user, r)>>])

\* There is no look at the status: a request that was decided can be rejected.
RejectJoinRequest(w, u, r) ==
  /\ IsRequest(r)
  /\ Permits(u, {"GROUP_ADMIN"})
  /\ MyGroup(u, joinRequest[r].group)
  /\ Begin(w, "commit", [Idle EXCEPT
       !.writes = [NoWrites EXCEPT !.reqSet =
                     {<<r, "REJECTED">>} \ {<<r, joinRequest[r].status>>}],
       !.events = <<Tell("rejected", joinRequest[r].user, r)>>])

GroupStep(w) ==
  \/ \E u \in User, g \in Group :
       \/ \E n \in Name, pol \in Policy :
            CreateMyGroup(w, u, g, n, pol) \/ UpdateMyGroup(w, u, g, n, pol)
       \/ DeleteMyGroup(w, u, g)
       \/ \E v \in User : AddMemberToGroup(w, u, g, v) \/ RemoveMemberFromGroup(w, u, g, v)
       \/ ExitGroup(w, u, g)
       \/ JoinGroup(w, u, g)
  \/ \E u \in User : \E r \in 1..Len(joinRequest) :
       ApproveJoinRequest(w, u, r) \/ RejectJoinRequest(w, u, r)
=============================================================================
