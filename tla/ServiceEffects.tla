-------------------------- MODULE ServiceEffects ---------------------------
(***************************************************************************)
(* What the task, group and user services do after their transaction has   *)
(* committed: write a document or delete one, then clear a namespace of    *)
(* the cache, each one await after the other.  An error of Elasticsearch   *)
(* ends the request there, its commit stays.  Requests on one item may     *)
(* overlap.  A row is one column here: of requests that change different   *)
(* columns each would show its own in its document and the other as it was.*)
(***************************************************************************)
EXTENDS SearchCache

CONSTANTS Server,   \* requests that change something, side by side
          EsFails   \* may Elasticsearch fail to take a document?

VARIABLE serving  \* per server what is left to do after the commit, or None

effectVars == <<row, doc, cache, asking, served, serving>>

-----------------------------------------------------------------------------
\* What a service awaits after a commit: the index, or a namespace to clear.
Step == {"index", "delete", "groups", "tasks", "users", "auth", "rbac"}
Serving == [item : Item, text : Word \cup {None, Gone}, todo : Seq(Step)]

ASSUME ServingAssumption == None \notin Serving /\ EsFails \in BOOLEAN

\* The commit of a change to item i, after which its text is text.
Commits(s, i, text, todo) ==
  /\ serving[s] = None
  /\ serving' = [serving EXCEPT ![s] = [item |-> i, text |-> text, todo |-> todo]]
  /\ row' = [row EXCEPT ![i] = text]
  /\ served' = None
  /\ UNCHANGED <<doc, cache, asking>>

Found(i) == row[i] \in Word

\* Nothing of what is searched changes: members, assignees, requests.
Joins(s, i, todo) == Found(i) /\ Commits(s, i, row[i], todo)

CreateMyGroup(s, g, text) == row[g] = None /\ Commits(s, g, text, <<"index", "groups", "rbac">>)
UpdateMyGroup(s, g, text) == Found(g) /\ Commits(s, g, text, <<"index", "groups">>)
DeleteMyGroup(s, g) == Found(g) /\ Commits(s, g, Gone, <<"delete", "groups">>)
AddMemberToGroup(s, g) == Joins(s, g, <<"groups">>)
RemoveMemberFromGroup(s, g) == Joins(s, g, <<>>)
ApproveJoinRequest(s, g) == Joins(s, g, <<>>)
RejectJoinRequest(s, g) == Joins(s, g, <<>>)
JoinGroup(s, g) == Joins(s, g, <<"groups", "rbac">>)
ExitGroup(s, g) == Joins(s, g, <<"groups">>)

CreateTaskForGroup(s, t, text) ==
  row[t] = None /\ Commits(s, t, text, <<"index", "tasks", "rbac">>)
UpdateMyTask(s, t, text) == Found(t) /\ Commits(s, t, text, <<"index", "tasks">>)
DeleteMyTask(s, t) == Found(t) /\ Commits(s, t, Gone, <<"delete", "tasks">>)
AddUserToTask(s, t) == Joins(s, t, <<"tasks">>)
RemoveUserFromTask(s, t) == Joins(s, t, <<"tasks">>)
\* The status is searched, and its change left to the outbox.
UpdateStatusTask(s, t, text) == Found(t) /\ Commits(s, t, text, <<"tasks">>)
ExitTask(s, t) == Joins(s, t, <<"tasks">>)
JoinTask(s, t) == Joins(s, t, <<>>)
ApproveTaskJoinRequest(s, t) == Joins(s, t, <<>>)
RejectTaskJoinRequest(s, t) == Joins(s, t, <<>>)

\* The user that is indexed is the one the request came with, as it was.
ReindexProfile(s, u, text) ==
  /\ Found(u)
  /\ serving[s] = None
  /\ serving' = [serving EXCEPT ![s] = [item |-> u, text |-> row[u], todo |-> <<"index", "auth">>]]
  /\ row' = [row EXCEPT ![u] = text]
  /\ served' = None
  /\ UNCHANGED <<doc, cache, asking>>

IndexNewUser(s, u, text) == row[u] = None /\ Commits(s, u, text, <<"index">>)
UnindexProfile(s, u) == Found(u) /\ Commits(s, u, Gone, <<"delete", "users", "auth">>)

-----------------------------------------------------------------------------
Done(s) == serving' = [serving EXCEPT ![s].todo = Tail(@)]

\* Indexer.index saves another document: from_orm gives it no id to lie under.
IndexItem(s) ==
  /\ serving[s] # None /\ serving[s].todo # <<>> /\ Head(serving[s].todo) = "index"
  /\ doc' = [doc EXCEPT ![serving[s].item] = @ \cup {serving[s].text}]
  /\ Done(s)
  /\ served' = None
  /\ UNCHANGED <<row, cache, asking>>

\* Indexer.delete looks under the id of the row and finds no document: the
\* request ends with an error, what it has committed stays.
DeleteItem(s) ==
  /\ serving[s] # None /\ serving[s].todo # <<>> /\ Head(serving[s].todo) = "delete"
  /\ serving' = [serving EXCEPT ![s] = None]
  /\ served' = None
  /\ UNCHANGED <<row, doc, cache, asking>>

\* Elasticsearch fails, with the same end.
SearchFails(s) ==
  /\ EsFails
  /\ serving[s] # None /\ serving[s].todo # <<>> /\ Head(serving[s].todo) = "index"
  /\ serving' = [serving EXCEPT ![s] = None]
  /\ served' = None
  /\ UNCHANGED <<row, doc, cache, asking>>

\* _invalidate clears the keys that lie in the namespace.
Invalidate(s) ==
  /\ serving[s] # None /\ serving[s].todo # <<>> /\ Head(serving[s].todo) \notin {"index", "delete"}
  /\ cache' = [k \in {l \in DOMAIN cache : NamespaceOf(l) # Head(serving[s].todo)} |-> cache[k]]
  /\ Done(s)
  /\ served' = None
  /\ UNCHANGED <<row, doc, asking>>

Return(s) ==
  /\ serving[s] # None /\ serving[s].todo = <<>>
  /\ serving' = [serving EXCEPT ![s] = None]
  /\ served' = None
  /\ UNCHANGED <<row, doc, cache, asking>>

-----------------------------------------------------------------------------
EffectInit == SearchInit /\ serving = [s \in Server |-> None]

GroupCall(s, g) ==
  \/ \E text \in Word : CreateMyGroup(s, g, text) \/ UpdateMyGroup(s, g, text)
  \/ DeleteMyGroup(s, g)
  \/ AddMemberToGroup(s, g)
  \/ RemoveMemberFromGroup(s, g)
  \/ ApproveJoinRequest(s, g)
  \/ RejectJoinRequest(s, g)
  \/ JoinGroup(s, g)
  \/ ExitGroup(s, g)

TaskCall(s, t) ==
  \/ \E text \in Word :
       CreateTaskForGroup(s, t, text) \/ UpdateMyTask(s, t, text) \/ UpdateStatusTask(s, t, text)
  \/ DeleteMyTask(s, t)
  \/ AddUserToTask(s, t)
  \/ RemoveUserFromTask(s, t)
  \/ ExitTask(s, t)
  \/ JoinTask(s, t)
  \/ ApproveTaskJoinRequest(s, t)
  \/ RejectTaskJoinRequest(s, t)

UserCall(s, u) ==
  \/ \E text \in Word : IndexNewUser(s, u, text) \/ ReindexProfile(s, u, text)
  \/ UnindexProfile(s, u)

Call(s, i) == \/ KindOf[i] = "group" /\ GroupCall(s, i)
              \/ KindOf[i] = "task" /\ TaskCall(s, i)
              \/ KindOf[i] = "user" /\ UserCall(s, i)

Effect(s) == IndexItem(s) \/ DeleteItem(s) \/ SearchFails(s) \/ Invalidate(s) \/ Return(s)

EffectNext == \/ Read /\ UNCHANGED serving
              \/ \E s \in Server : Effect(s) \/ \E i \in Item : Call(s, i)

EffectFairness == \A key \in Keys : WF_searchVars(Expire(key))

EffectSpec == EffectInit /\ [][EffectNext]_effectVars
EffectFairSpec == EffectSpec /\ EffectFairness

-----------------------------------------------------------------------------
EffectTypeOK ==
  /\ SearchTypeOK
  /\ serving \in [Server -> Serving \cup {None}]

(* "Documents are automatically synced with database models" (es/indexer):  *)
(* while no request on a group is under way its documents show what its row *)
(* has, and there is none when it was deleted.  With an Elasticsearch that  *)
(* does not fail, and one request at a time.                                *)
DocumentsSynced ==
  \A g \in {i \in Item : KindOf[i] = "group"} :
    (\A s \in Server : serving[s] = None \/ serving[s].item # g) => doc[g] = {row[g]} \cap Word
=============================================================================
