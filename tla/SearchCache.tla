---------------------------- MODULE SearchCache ----------------------------
(***************************************************************************)
(* Reading through the cache: the search endpoints, the services and the  *)
(* Elasticsearch queries behind them, the two cached profiles, and the    *)
(* keys answers are kept under.  What changes rows and documents is in    *)
(* ServiceEffects.  The parameters that are part of a key (q, status,     *)
(* group_id) all narrow a search; the query stands for them.  Those that   *)
(* narrow it and are not (priority, role, is_active, visibility, ...) are  *)
(* the filter; limit is modelled, too, and the caller where he matters.    *)
(* A document is saved under an id Elasticsearch makes up: an item has as  *)
(* many documents as it was saved, and none of them is found by its id.    *)
(***************************************************************************)
EXTENDS Platform, Naturals, Sequences, FiniteSetsExt

CONSTANTS Asker,   \* requests in progress, side by side
          Item,    \* what can be found, users included
          KindOf,  \* the kind of each
          Word,    \* what the text of an item may be, and what one searches for
          Filter,  \* values of the filters that are not part of a key
          Passing, \* the texts that pass each
          Limit    \* page sizes, 1..100 in the code

Gone == "gone"   \* the text of an item that was deleted; ids are not used again

SearchKind == {"task", "user", "group", "comment", "notification"}

ASSUME SearchAssumption ==
  /\ KindOf \in [Item -> SearchKind]
  /\ User = {i \in Item : KindOf[i] = "user"}
  /\ None \notin Item \cup Word \cup Filter /\ Gone \notin Word \cup {None}
  /\ Passing \in [Filter -> SUBSET Word]
  /\ Limit \subseteq Nat \ {0}

VARIABLES
  row,     \* the text of each item in the database, None before there is one
  doc,     \* the texts its documents in the index have
  cache,   \* the answers kept, by key
  asking,  \* per asker the answer it has computed and not yet kept, or None
  served   \* the request answered last, with its answer, or None

searchVars == <<row, doc, cache, asking, served>>

-----------------------------------------------------------------------------
\* A request: the kind of item, which endpoint, and the query of a search, the
\* user in the path of a detail, or the caller where the answer is the caller's.
Asked(of, how, about, filter, limit) ==
  [of |-> of, how |-> how, about |-> about, filter |-> filter, limit |-> limit]
Query == Word \cup {None}
Searches(kind, how) ==
  {Asked(kind, how, q, f, n) : q \in Query, f \in Filter \cup {None}, n \in Limit}

SearchRequests(kind) == Searches(kind, "search")
TaskSearches == SearchRequests("task")
UserSearches == SearchRequests("user")
GroupSearches == SearchRequests("group")
CommentSearches == SearchRequests("comment")
NotificationSearches == SearchRequests("notification")
MyGroupsRequests == Searches("group", "my")
MyTasksRequests == Searches("task", "my")
UsersByGroupRequests == Searches("user", "by-group")
TasksByGroupRequests == Searches("task", "by-group")
MyProfileRequests == {Asked("user", "me", u, None, 1) : u \in User}
UserRequests == {Asked("user", "detail", u, None, 1) : u \in User}

\* Those of the kinds there are items of.
Request ==
  {r \in UNION {TaskSearches, UserSearches, GroupSearches, CommentSearches, NotificationSearches,
                MyGroupsRequests, MyTasksRequests, UsersByGroupRequests, TasksByGroupRequests,
                MyProfileRequests, UserRequests} :
     \E i \in Item : KindOf[i] = r.of}

-----------------------------------------------------------------------------
\* The words of a path, and the first of them that _infer_search_entity knows.
WordsOfPath(r) == {r.of} \cup (IF r.how = "by-group" THEN {"group"} ELSE {})

\* Mutant: groups are looked for first.
InferGroupFirst(words) ==
  IF "group" \in words THEN "group" ELSE CHOOSE k \in SearchKind : k \in words

InferSearchEntity(words) ==
  LET order == <<"task", "user", "group", "comment", "notification">>
      first == Min({n \in 1..5 : order[n] \in words})
  IN order[first]

\* search_key_builder takes the query of a search and no filter.  The profile
\* of the caller is asked for without parameters.
SearchKey(r) ==
  <<InferSearchEntity(WordsOfPath(r)), "search", IF r.how = "me" THEN None ELSE r.about>>
IdKey(id) == <<"user", "detail", id>>
KeyOf(r) == IF r.how = "detail" THEN IdKey(r.about) ELSE SearchKey(r)

\* No key lies in a namespace: it starts with the environment.
NamespaceOf(key) == "prod"

-----------------------------------------------------------------------------
\* A document, or a row, as an answer shows it.
Shown(i, text) == [item |-> i, text |-> text]

Documents(kind) == UNION {{Shown(i, text) : text \in doc[i]} : i \in {j \in Item : KindOf[j] = kind}}

\* _apply_query_and_filters over one index.
Matching(kind, r) ==
  {hit \in Documents(kind) : /\ r.about \in {None, hit.text}
                             /\ r.filter = None \/ hit.text \in Passing[r.filter]}

TaskHits(r) == Matching("task", r)
UserHits(r) == Matching("user", r)
GroupHits(r) == Matching("group", r)
CommentHits(r) == Matching("comment", r)
NotificationHits(r) == Matching("notification", r)
TasksOfGroup(r) == Matching("task", r)

\* With facets the same is found; they count more of what the page leaves out.
Faceted(kind, r) == Matching(kind, r)
TasksFaceted(r) == Faceted("task", r)
UsersFaceted(r) == Faceted("user", r)
GroupsFaceted(r) == Faceted("group", r)
CommentsFaceted(r) == Faceted("comment", r)
NotificationsFaceted(r) == Faceted("notification", r)

\* UserDoc.from_orm writes every list of ids empty, so that what goes by the
\* user's document finds nothing.
IdsInUserDoc == {}
GroupIdsForScope == IdsInUserDoc
TaskIdsForScope == IdsInUserDoc
Among(ids, hits) == {hit \in hits : hit.item \in ids}
GroupsByIds(ids, r) == Among(ids, Matching("group", r))
TasksByIds(ids, r) == Among(ids, Matching("task", r))
GroupsOfUser(r) == GroupsByIds(GroupIdsForScope, r)
TasksOfUser(r) == TasksByIds(TaskIdsForScope, r)
UsersOfGroup(r) == Among(IdsInUserDoc, Matching("user", r))

\* A page from any place: the order of equal scores is not given.
Page(hits, limit) ==
  {[shape |-> "list", hits |-> page] : page \in {p \in SUBSET hits : Cardinality(p) <= limit}}

\* _get_user_doc looks under the id of the caller's row, where no document is:
\* the search ends with an error.
CallerHasDoc == FALSE

SearchTasks(r) == Page(TaskHits(r), r.limit) \cup Page(TasksFaceted(r), r.limit)
SearchUsers(r) == Page(UserHits(r), r.limit) \cup Page(UsersFaceted(r), r.limit)
SearchGroups(r) == Page(GroupHits(r), r.limit) \cup Page(GroupsFaceted(r), r.limit)
SearchComments(r) == Page(CommentHits(r), r.limit) \cup Page(CommentsFaceted(r), r.limit)
SearchNotifications(r) ==
  Page(NotificationHits(r), r.limit) \cup Page(NotificationsFaceted(r), r.limit)
SearchMyGroups(r) == IF CallerHasDoc THEN Page(GroupsOfUser(r), r.limit) ELSE {}
SearchMyTasks(r) == IF CallerHasDoc THEN Page(TasksOfUser(r), r.limit) ELSE {}
SearchUsersByGroup(r) == Page(UsersOfGroup(r), r.limit)
SearchTasksByGroup(r) == Page(TasksOfGroup(r), r.limit)

\* The profile in the database, of an active user.
Profile(u) ==
  IF row[u] \in Word THEN {[shape |-> "profile", hits |-> {Shown(u, row[u])}]} ELSE {}

Answers(r) ==
  CASE r \in TaskSearches -> SearchTasks(r)
    [] r \in UserSearches -> SearchUsers(r)
    [] r \in GroupSearches -> SearchGroups(r)
    [] r \in CommentSearches -> SearchComments(r)
    [] r \in NotificationSearches -> SearchNotifications(r)
    [] r \in MyGroupsRequests -> SearchMyGroups(r)
    [] r \in MyTasksRequests -> SearchMyTasks(r)
    [] r \in UsersByGroupRequests -> SearchUsersByGroup(r)
    [] r \in TasksByGroupRequests -> SearchTasksByGroup(r)
    [] r \in MyProfileRequests \cup UserRequests -> Profile(r.about)

\* The decorator gives the kept answer the type of the endpoint: a search
\* takes any, a profile is validated.
Decodes(r, answer) == r.how \in {"me", "detail"} => answer.shape = "profile"

-----------------------------------------------------------------------------
\* A request that finds its key answers what is kept there.
AskCached(r) ==
  /\ KeyOf(r) \in DOMAIN cache
  /\ served' = IF Decodes(r, cache[KeyOf(r)])
               THEN [request |-> r, answer |-> cache[KeyOf(r)]] ELSE None
  /\ UNCHANGED <<row, doc, cache, asking>>

\* Otherwise the endpoint runs, which may take its time.
AskAnew(a, r) ==
  /\ asking[a] = None
  /\ KeyOf(r) \notin DOMAIN cache
  /\ \E answer \in Answers(r) :
       asking' = [asking EXCEPT ![a] = [request |-> r, answer |-> answer]]
  /\ served' = None
  /\ UNCHANGED <<row, doc, cache>>

\* Its answer is kept, over one that another request has kept meanwhile.
Answer(a) ==
  /\ asking[a] # None
  /\ LET key == KeyOf(asking[a].request) IN
     cache' = [k \in DOMAIN cache \cup {key} |->
                 IF k = key THEN asking[a].answer ELSE cache[k]]
  /\ served' = asking[a]
  /\ asking' = [asking EXCEPT ![a] = None]
  /\ UNCHANGED <<row, doc>>

\* Mutant: only the answers of searches are given a time to live.
ExpireSearches(key) ==
  /\ key \in DOMAIN cache /\ key[2] = "search"
  /\ cache' = [k \in DOMAIN cache \ {key} |-> cache[k]]
  /\ served' = None
  /\ UNCHANGED <<row, doc, asking>>

\* After 300 seconds, or 1800 for a profile.
Expire(key) ==
  /\ key \in DOMAIN cache
  /\ cache' = [k \in DOMAIN cache \ {key} |-> cache[k]]
  /\ served' = None
  /\ UNCHANGED <<row, doc, asking>>

Keys == {KeyOf(r) : r \in Request}

SearchInit ==
  /\ row = [i \in Item |-> None]
  /\ doc = [i \in Item |-> {}]
  /\ cache = [k \in {} |-> None]
  /\ asking = [a \in Asker |-> None]
  /\ served = None

Read == \/ \E r \in Request : AskCached(r) \/ \E a \in Asker : AskAnew(a, r)
        \/ \E a \in Asker : Answer(a)
        \/ \E key \in Keys : Expire(key)

-----------------------------------------------------------------------------
AnswerShape == [shape : {"list", "profile"}, hits : SUBSET [item : Item, text : Word]]

SearchTypeOK ==
  /\ row \in [Item -> Word \cup {None, Gone}]
  /\ doc \in [Item -> SUBSET Word]
  /\ DOMAIN cache \in SUBSET Keys /\ \A k \in DOMAIN cache : cache[k] \in AnswerShape
  /\ asking \in [Asker -> [request : Request, answer : AnswerShape] \cup {None}]
  /\ served = None \/ served \in [request : Request, answer : AnswerShape]

(* What a key stands for an answer out of the cache shows: items of the     *)
(* kind, matching the query when they were looked up, or the profile of the *)
(* user in the path, however requests that share the key differ otherwise.  *)
(* Of the filters, which the key does not stand for, nothing is promised    *)
(* (KeyBuilder.search_key_builder, id_key_builder).                         *)
AnswersFit ==
  served # None /\ served.request.how # "me" =>
    LET r == served.request IN
    \A hit \in served.answer.hits :
      /\ KindOf[hit.item] = r.of
      /\ IF r.how = "detail" THEN hit.item = r.about ELSE r.about \in {None, hit.text}

(* "Get current authenticated user's profile information" (get_my_profile): *)
(* the profile a user is shown as their own is theirs.                      *)
MyProfileIsMine ==
  served # None /\ served.request.how = "me" =>
    \A hit \in served.answer.hits : hit.item = served.request.about

(* A profile that has changed for good, or is gone, is some day shown by no *)
(* kept answer, though nothing clears the cache: the profiles kept expire,  *)
(* and those that were looked up before are the last to show it (the two    *)
(* profile endpoints).  Of lists this is not so: no document ever goes.     *)
GoneFadesOut ==
  \A u \in User : \A text \in Word :
    <>[](row[u] # text) =>
      <>[](\A k \in DOMAIN cache : cache[k].shape = "profile" => Shown(u, text) \notin cache[k].hits)
=============================================================================
