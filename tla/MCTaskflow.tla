------------------------------ MODULE MCTaskflow ------------------------------
(* Taskflow on small instances for TLC. *)
EXTENDS Taskflow, TLC, FiniteSets

\* Users, workers, ids and names are interchangeable.
Symmetry == Permutations(User) \cup Permutations(Worker)
              \cup Permutations(Group) \cup Permutations(Task)
              \cup Permutations(Name) \cup Permutations(Title)

(***************************************************************************)
(* Instances of more than one interest, cut down to each.  With two groups *)
(* there is one user and no join request, with two users one group and one *)
(* name: owners who found, change and delete, or members who come and go.  *)
(***************************************************************************)
Plan(w) == tx[w].writes
Begun == {g \in Group : group[g].state # "absent"}
           \cup {n.id : n \in UNION {Plan(w).grpNew : w \in Worker}}
Named == {group[g].name : g \in {h \in Group : group[h].state # "absent"}}
           \cup UNION {{n.name : n \in Plan(w).grpNew} \cup {x[2] : x \in Plan(w).grpName} :
                        w \in Worker}
Involved == ({m[1] : m \in membership} \cup UNION {{tx[w].actor, tx[w].subject} : w \in Worker})
              \ {None}

OwnersOrMembers ==
  \/ Cardinality(Involved) <= 1 /\ joinRequest = <<>>
  \/ Cardinality(Begun) <= 1 /\ Cardinality(Named) <= 1

\* One request after the other: two groups and changes of status, or requests.
RolesOrRequests ==
  joinRequest = <<>> \/ (Cardinality(Begun) <= 1 /\ \A t \in Task : task[t].status = InitStatus)

(***************************************************************************)
(* Races around one task.  One request at a time has founded a group that  *)
(* admits on request and created a task in it; from there on the requests  *)
(* that touch the task, the join requests and the memberships overlap.     *)
(***************************************************************************)
Founded(u, g, t) ==
  LET row == [id |-> g, admin |-> u, policy |-> "REQUEST", name |-> CHOOSE n \in Name : TRUE]
      new == [id |-> t, group |-> g, title |-> CHOOSE x \in Title : TRUE]
  IN
  /\ group = [h \in Group |-> IF h = g
                THEN [state |-> "active", admin |-> u, policy |-> "REQUEST", name |-> row.name]
                ELSE AbsentGroup]
  /\ task = [s \in Task |-> IF s = t
                THEN [state |-> "active", group |-> g, title |-> new.title, status |-> InitStatus]
                ELSE AbsentTask]
  /\ membership = {<<u, g>>}
  /\ assignee = {<<u, t>>}
  /\ userRole = [r \in RoleRow |->
        IF r \in {AdminRole(u, g), MemberRole(u, g), AssigneeRole(u, g, t)} THEN 1 ELSE 0]
  /\ joinRequest = <<>>
  /\ outbox = [e \in Group \cup Task |-> IF e \in {g, t} THEN {"CREATED"} ELSE {}]
  /\ tx = [w \in Worker |-> Idle]

RaceInit == \E u \in User, g \in Group, t \in Task : Founded(u, g, t)

RaceRequest(w) ==
  \/ \E u \in User, t \in Task : \/ JoinTask(w, u, t) \/ ExitTask(w, u, t)
                                 \/ \E v \in User : AddUserToTask(w, u, t, v)
  \/ \E u \in User, r \in 1..Len(joinRequest) :
       \/ ApproveTaskJoinRequest(w, u, r) \/ RejectTaskJoinRequest(w, u, r)
       \/ ApproveJoinRequest(w, u, r) \/ RejectJoinRequest(w, u, r)
  \/ \E u \in User, g \in Group : ExitGroup(w, u, g)
  \/ FlushApproval(w) \/ InnerCheck(w) \/ InnerCommit(w)

RaceNext == \E w \in Worker : Machinery(w) \/ RaceRequest(w)
RaceSpec == RaceInit /\ [][RaceNext]_vars
=============================================================================
