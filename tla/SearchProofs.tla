---------------------------- MODULE SearchProofs ----------------------------
(***************************************************************************)
(* Proofs about reading through the cache: whatever overlaps and whatever  *)
(* is kept, an answer shows what its key stands for, though requests that  *)
(* differ in their filters, their path, their page or their caller share   *)
(* one; for any items, texts, filters and requests.                        *)
(***************************************************************************)
EXTENDS ServiceEffects, TLAPS

\* What a key promises of the answers kept under it.
KeyFits(key, answer) ==
  \A hit \in answer.hits :
    /\ KindOf[hit.item] = key[1]
    /\ IF key[2] = "detail" THEN hit.item = key[3] ELSE key[3] \in {None, hit.text}

\* An answer with its request.
Paired(x) == x # None => x.request \in Request /\ KeyFits(KeyOf(x.request), x.answer)

KeptFits(kept) == \A k \in DOMAIN kept : KeyFits(k, kept[k])

SearchInv ==
  /\ KeptFits(cache)
  /\ DOMAIN asking = Asker /\ \A a \in Asker : Paired(asking[a])
  /\ Paired(served)

LEMMA SearchStart == EffectInit => SearchInv
  BY DEF EffectInit, SearchInit, SearchInv, KeptFits, Paired

-----------------------------------------------------------------------------
LEMMA LeastOf ==
  ASSUME NEW S, NEW x \in S, x \in Int, \A y \in S : y \in Int /\ x <= y
  PROVE  Min(S) = x
<1> DEFINE Least(z) == z \in S /\ \A y \in S : z <= y
<1>1. Min(S) = CHOOSE z : Least(z)
  BY Zenon DEF Min
<1>2. Least(x)
  OBVIOUS
<1>3. \A z : Least(z) => z = x
  OBVIOUS
<1> HIDE DEF Least
<1> QED
  BY <1>1, <1>2, <1>3

\* The word that decides the key is the kind that is asked for.
LEMMA FirstKnown ==
  /\ \A k \in SearchKind : InferSearchEntity({k}) = k
  /\ InferSearchEntity({"task", "group"}) = "task"
  /\ InferSearchEntity({"user", "group"}) = "user"
<1> DEFINE order == <<"task", "user", "group", "comment", "notification">>
           Places(words) == {n \in 1..5 : order[n] \in words}
<1>1. ASSUME NEW words, NEW first \in 1..5, order[first] \in words,
             \A n \in 1..5 : order[n] \in words => first <= n
      PROVE  InferSearchEntity(words) = order[first]
  <2>1. first \in Places(words) /\ \A n \in Places(words) : first <= n /\ n \in Int
    BY <1>1
  <2>2. Min(Places(words)) = first
    <3> HIDE DEF Places
    <3> QED
      BY <2>1, LeastOf
  <2> QED
    BY <2>2 DEF InferSearchEntity
<1>2. InferSearchEntity({"task"}) = "task"
  BY <1>1
<1>3. InferSearchEntity({"user"}) = "user"
  BY <1>1
<1>4. InferSearchEntity({"group"}) = "group"
  BY <1>1
<1>5. InferSearchEntity({"comment"}) = "comment"
  BY <1>1
<1>6. InferSearchEntity({"notification"}) = "notification"
  BY <1>1
<1>7. InferSearchEntity({"task", "group"}) = "task"
  BY <1>1
<1>8. InferSearchEntity({"user", "group"}) = "user"
  BY <1>1
<1> QED
  BY <1>2, <1>3, <1>4, <1>5, <1>6, <1>7, <1>8 DEF SearchKind

\* A request is of a kind, and of its kind by group only for tasks and users.
LEMMA RequestForm ==
  ASSUME NEW r \in Request
  PROVE  /\ r.of \in SearchKind
         /\ r.how \in {"search", "my", "by-group", "me", "detail"}
         /\ r.how = "by-group" => r.of \in {"task", "user"}
         /\ r.how \in {"me", "detail"} => r.of = "user" /\ r.about \in User
  BY DEF Request, TaskSearches, UserSearches, GroupSearches, CommentSearches,
         NotificationSearches, MyGroupsRequests, MyTasksRequests, UsersByGroupRequests,
         TasksByGroupRequests, MyProfileRequests, UserRequests, SearchRequests, Searches, Asked, SearchKind

LEMMA KeyForm ==
  ASSUME NEW r \in Request
  PROVE  /\ KeyOf(r)[1] = r.of
         /\ r.how = "detail" => KeyOf(r)[2] = "detail" /\ KeyOf(r)[3] = r.about
         /\ r.how # "detail" => /\ KeyOf(r)[2] = "search"
                                /\ KeyOf(r)[3] = IF r.how = "me" THEN None ELSE r.about
<1>1. r.how # "detail" => InferSearchEntity(WordsOfPath(r)) = r.of
  <2>1. CASE r.how = "by-group"
    <3>1. WordsOfPath(r) = {r.of, "group"} /\ r.of \in {"task", "user"}
      BY <2>1, RequestForm DEF WordsOfPath
    <3> QED
      BY <3>1, FirstKnown
  <2>2. CASE r.how # "by-group"
    <3>1. WordsOfPath(r) = {r.of}
      BY <2>2 DEF WordsOfPath
    <3> QED
      BY <3>1, FirstKnown, RequestForm
  <2> QED
    BY <2>1, <2>2
<1> QED
  BY <1>1, RequestForm DEF KeyOf, SearchKey, IdKey

-----------------------------------------------------------------------------
\* A page of what matches shows items of the kind whose text matches.
LEMMA PageFits ==
  ASSUME NEW kind, NEW r, NEW hits \in SUBSET Matching(kind, r), NEW limit,
         NEW answer \in Page(hits, limit), NEW hit \in answer.hits
  PROVE  KindOf[hit.item] = kind /\ r.about \in {None, hit.text}
<1>1. hit \in Matching(kind, r)
  BY DEF Page
<1>2. PICK i \in Item : KindOf[i] = kind /\ hit \in {Shown(i, text) : text \in doc[i]}
  BY <1>1 DEF Matching, Documents
<1> QED
  BY <1>1, <1>2 DEF Matching, Shown

\* The form of the requests of each endpoint.
LEMMA Forms ==
  ASSUME NEW r
  PROVE  /\ r \in TaskSearches => r.of = "task" /\ r.how = "search"
         /\ r \in UserSearches => r.of = "user" /\ r.how = "search"
         /\ r \in GroupSearches => r.of = "group" /\ r.how = "search"
         /\ r \in CommentSearches => r.of = "comment" /\ r.how = "search"
         /\ r \in NotificationSearches => r.of = "notification" /\ r.how = "search"
         /\ r \in MyGroupsRequests => r.of = "group" /\ r.how = "my"
         /\ r \in MyTasksRequests => r.of = "task" /\ r.how = "my"
         /\ r \in UsersByGroupRequests => r.of = "user" /\ r.how = "by-group"
         /\ r \in TasksByGroupRequests => r.of = "task" /\ r.how = "by-group"
         /\ r \in MyProfileRequests => r.of = "user" /\ r.how = "me"
         /\ r \in UserRequests => r.of = "user" /\ r.how = "detail"
  BY DEF TaskSearches, UserSearches, GroupSearches, CommentSearches, NotificationSearches,
         MyGroupsRequests, MyTasksRequests, UsersByGroupRequests, TasksByGroupRequests,
         MyProfileRequests, UserRequests, SearchRequests, Searches, Asked

\* Any page of matching items fits the key of a search.
LEMMA PagesFit ==
  ASSUME NEW r \in Request, r.how \notin {"me", "detail"}, NEW hits \in SUBSET Matching(r.of, r),
         NEW answer \in Page(hits, r.limit)
  PROVE  KeyFits(KeyOf(r), answer)
  BY PageFits, KeyForm DEF KeyFits

\* Whatever endpoint answers it, an answer fits the key of its request.
LEMMA AnswerFitsKey ==
  ASSUME NEW r \in Request, NEW answer \in Answers(r)
  PROVE  KeyFits(KeyOf(r), answer)
<1>1. CASE r \in TaskSearches
  <2>1. answer \in SearchTasks(r)
    BY <1>1, Forms DEF Answers
  <2> QED
    BY <1>1, <2>1, Forms, PagesFit DEF SearchTasks, TaskHits, TasksFaceted, Faceted
<1>2. CASE r \in UserSearches
  <2>1. answer \in SearchUsers(r)
    BY <1>2, Forms DEF Answers
  <2> QED
    BY <1>2, <2>1, Forms, PagesFit DEF SearchUsers, UserHits, UsersFaceted, Faceted
<1>3. CASE r \in GroupSearches
  <2>1. answer \in SearchGroups(r)
    BY <1>3, Forms DEF Answers
  <2> QED
    BY <1>3, <2>1, Forms, PagesFit DEF SearchGroups, GroupHits, GroupsFaceted, Faceted
<1>4. CASE r \in CommentSearches
  <2>1. answer \in SearchComments(r)
    BY <1>4, Forms DEF Answers
  <2> QED
    BY <1>4, <2>1, Forms, PagesFit DEF SearchComments, CommentHits, CommentsFaceted, Faceted
<1>5. CASE r \in NotificationSearches
  <2>1. answer \in SearchNotifications(r)
    BY <1>5, Forms DEF Answers
  <2> QED
    BY <1>5, <2>1, Forms, PagesFit DEF SearchNotifications, NotificationHits, NotificationsFaceted, Faceted
<1>6. CASE r \in MyGroupsRequests
  <2>1. answer \in SearchMyGroups(r)
    BY <1>6, Forms DEF Answers
  <2> QED
    BY <1>6, <2>1, Forms, PagesFit DEF SearchMyGroups, GroupsOfUser, GroupsByIds, Among
<1>7. CASE r \in MyTasksRequests
  <2>1. answer \in SearchMyTasks(r)
    BY <1>7, Forms DEF Answers
  <2> QED
    BY <1>7, <2>1, Forms, PagesFit DEF SearchMyTasks, TasksOfUser, TasksByIds, Among
<1>8. CASE r \in UsersByGroupRequests
  <2>1. answer \in SearchUsersByGroup(r)
    BY <1>8, Forms DEF Answers
  <2> QED
    BY <1>8, <2>1, Forms, PagesFit DEF SearchUsersByGroup, UsersOfGroup, Among
<1>9. CASE r \in TasksByGroupRequests
  <2>1. answer \in SearchTasksByGroup(r)
    BY <1>9, Forms DEF Answers
  <2> QED
    BY <1>9, <2>1, Forms, PagesFit DEF SearchTasksByGroup, TasksOfGroup
<1>10. CASE r \in MyProfileRequests \cup UserRequests
  <2>1. answer \in Profile(r.about)
    BY <1>10, Forms DEF Answers
  <2>2. r.of = "user" /\ r.how \in {"me", "detail"} /\ r.about \in User
    BY <1>10, Forms, RequestForm
  <2>3. KindOf[r.about] = "user"
    BY <2>2, SearchAssumption
  <2>4. \A hit \in answer.hits : hit.item = r.about
    BY <2>1 DEF Profile, Shown
  <2> QED
    BY <2>2, <2>3, <2>4, KeyForm DEF KeyFits
<1> QED
  BY <1>1, <1>2, <1>3, <1>4, <1>5, <1>6, <1>7, <1>8, <1>9, <1>10 DEF Request

-----------------------------------------------------------------------------
LEMMA ReadKeeps ==
  ASSUME SearchInv, Read
  PROVE  SearchInv'
<1>1. ASSUME NEW r \in Request, AskCached(r) PROVE SearchInv'
  <2>1. KeyFits(KeyOf(r), cache[KeyOf(r)])
    BY <1>1 DEF AskCached, SearchInv, KeptFits
  <2>2. served' = None \/ served' = [request |-> r, answer |-> cache[KeyOf(r)]]
    BY <1>1 DEF AskCached
  <2>3. Paired(served')
    BY <2>1, <2>2 DEF Paired
  <2> QED
    BY <1>1, <2>3 DEF AskCached, SearchInv
<1>2. ASSUME NEW a \in Asker, NEW r \in Request, AskAnew(a, r) PROVE SearchInv'
  <2>1. PICK answer \in Answers(r) : asking' = [asking EXCEPT ![a] = [request |-> r, answer |-> answer]]
    BY <1>2 DEF AskAnew
  <2>2. Paired([request |-> r, answer |-> answer])
    BY AnswerFitsKey DEF Paired
  <2>3. \A b \in Asker : asking'[b] = asking[b] \/ asking'[b] = [request |-> r, answer |-> answer]
    BY <2>1 DEF SearchInv
  <2>4. \A b \in Asker : Paired(asking'[b])
    BY <2>2, <2>3 DEF SearchInv
  <2> QED
    BY <1>2, <2>1, <2>4 DEF AskAnew, SearchInv, Paired
<1>3. ASSUME NEW a \in Asker, Answer(a) PROVE SearchInv'
  <2> DEFINE key == KeyOf(asking[a].request)
  <2>1. Paired(asking[a]) /\ asking[a] # None /\ KeyFits(key, asking[a].answer)
    BY <1>3 DEF Answer, SearchInv, Paired
  <2>2. cache' = [k \in DOMAIN cache \cup {key} |-> IF k = key THEN asking[a].answer ELSE cache[k]]
    BY <1>3 DEF Answer
  <2> HIDE DEF key
  <2>3. KeptFits(cache')
    BY <2>1, <2>2 DEF SearchInv, KeptFits
  <2>4. \A b \in Asker : asking'[b] = asking[b] \/ asking'[b] = None
    BY <1>3 DEF Answer, SearchInv
  <2>5. \A b \in Asker : Paired(asking'[b])
    BY <2>4 DEF SearchInv, Paired
  <2> QED
    BY <1>3, <2>1, <2>3, <2>5 DEF Answer, SearchInv
<1>4. ASSUME NEW key \in Keys, Expire(key) PROVE SearchInv'
  BY <1>4 DEF Expire, SearchInv, KeptFits, Paired
<1> QED
  BY <1>1, <1>2, <1>3, <1>4 DEF Read

\* What the services do puts nothing into the cache.
LEMMA EffectKeeps ==
  ASSUME SearchInv, NEW s \in Server, Effect(s) \/ \E i \in Item : Call(s, i)
  PROVE  SearchInv'
<1>1. ASSUME UNCHANGED <<cache, asking>>, served' = None PROVE SearchInv'
  BY <1>1 DEF SearchInv, Paired
<1>2. CASE Invalidate(s)
  BY <1>2 DEF Invalidate, SearchInv, KeptFits, Paired
<1>3. CASE Effect(s) /\ ~Invalidate(s)
  BY <1>1, <1>3 DEF Effect, IndexItem, DeleteItem, SearchFails, Return
<1>4. ASSUME NEW i, NEW text, NEW todo, Commits(s, i, text, todo) PROVE SearchInv'
  BY <1>1, <1>4 DEF Commits
<1>5. ASSUME NEW i, NEW text, ReindexProfile(s, i, text) PROVE SearchInv'
  BY <1>1, <1>5 DEF ReindexProfile
<1>6. ASSUME NEW i, GroupCall(s, i) PROVE SearchInv'
  BY <1>4, <1>6
     DEF GroupCall, CreateMyGroup, UpdateMyGroup, DeleteMyGroup, AddMemberToGroup,
         RemoveMemberFromGroup, ApproveJoinRequest, RejectJoinRequest, JoinGroup, ExitGroup, Joins
<1>7. ASSUME NEW i, TaskCall(s, i) PROVE SearchInv'
  BY <1>4, <1>7
     DEF TaskCall, CreateTaskForGroup, UpdateMyTask, DeleteMyTask, AddUserToTask,
         RemoveUserFromTask, UpdateStatusTask, ExitTask, JoinTask, ApproveTaskJoinRequest,
         RejectTaskJoinRequest, Joins
<1>8. ASSUME NEW i, UserCall(s, i) PROVE SearchInv'
  BY <1>4, <1>5, <1>8 DEF UserCall, IndexNewUser, UnindexProfile
<1> QED
  BY <1>2, <1>3, <1>6, <1>7, <1>8 DEF Call

LEMMA SearchStep == SearchInv /\ [EffectNext]_effectVars => SearchInv'
<1> SUFFICES ASSUME SearchInv, [EffectNext]_effectVars PROVE SearchInv'
  OBVIOUS
<1>1. CASE UNCHANGED effectVars
  BY <1>1 DEF effectVars, SearchInv
<1> QED
  BY <1>1, ReadKeeps, EffectKeeps DEF EffectNext

(* Whatever requests and changes overlap, an answer out of the cache shows  *)
(* items of the kind and the query, or the user, that its key stands for:   *)
(* the keys of two requests that differ in any of these are different.      *)
(* Their filters are not in the key, and nothing is said of them.           *)
THEOREM CachedAnswersFit == EffectSpec => []AnswersFit
<1>1. SearchInv => AnswersFit
  <2> SUFFICES ASSUME SearchInv, served # None, served.request.how # "me",
                      NEW hit \in served.answer.hits
               PROVE  LET r == served.request IN
                      /\ KindOf[hit.item] = r.of
                      /\ IF r.how = "detail" THEN hit.item = r.about ELSE r.about \in {None, hit.text}
    BY DEF AnswersFit
  <2>1. served.request \in Request /\ KeyFits(KeyOf(served.request), served.answer)
    BY DEF SearchInv, Paired
  <2> QED
    BY <2>1, KeyForm DEF KeyFits
<1> QED
  BY SearchStart, SearchStep, <1>1, PTL DEF EffectSpec

-----------------------------------------------------------------------------
\* What a search can show.
Shows == [item : Item, text : Word]

LEMMA MatchingTyped ==
  ASSUME doc \in [Item -> SUBSET Word], NEW kind, NEW r
  PROVE  Matching(kind, r) \in SUBSET Shows
<1> SUFFICES ASSUME NEW hit \in Matching(kind, r) PROVE hit \in Shows
  OBVIOUS
<1>1. PICK i \in Item : hit \in {Shown(i, text) : text \in doc[i]}
  BY DEF Matching, Documents
<1> QED
  BY <1>1 DEF Shown, Shows

LEMMA PageTyped ==
  ASSUME NEW hits \in SUBSET Shows, NEW limit, NEW answer \in Page(hits, limit)
  PROVE  answer \in AnswerShape
  BY DEF Page, AnswerShape, Shows

LEMMA ProfileTyped ==
  ASSUME NEW u \in User, NEW answer \in Profile(u)
  PROVE  answer \in AnswerShape
<1>1. u \in Item
  BY SearchAssumption
<1>2. row[u] \in Word /\ answer = [shape |-> "profile", hits |-> {Shown(u, row[u])}]
  BY DEF Profile
<1>3. Shown(u, row[u]) \in [item : Item, text : Word]
  BY <1>1, <1>2 DEF Shown
<1> QED
  BY <1>2, <1>3 DEF AnswerShape

\* Whatever endpoint answers it, an answer is a page of what is found, or a profile.
LEMMA FoundIsTyped ==
  ASSUME SearchTypeOK, NEW r \in Request, NEW answer \in Answers(r)
  PROVE  answer \in AnswerShape
<1>1. \A kind : Matching(kind, r) \in SUBSET Shows
  BY MatchingTyped DEF SearchTypeOK
<1>2. ASSUME NEW hits \in SUBSET Shows, NEW limit PROVE \A x \in Page(hits, limit) : x \in AnswerShape
  BY PageTyped
<1>3. CASE r \in TaskSearches
  <2>1. answer \in SearchTasks(r)
    BY <1>3, Forms DEF Answers
  <2> QED
    BY <1>1, <1>2, <2>1 DEF SearchTasks, TaskHits, TasksFaceted, Faceted
<1>4. CASE r \in UserSearches
  <2>1. answer \in SearchUsers(r)
    BY <1>4, Forms DEF Answers
  <2> QED
    BY <1>1, <1>2, <2>1 DEF SearchUsers, UserHits, UsersFaceted, Faceted
<1>5. CASE r \in GroupSearches
  <2>1. answer \in SearchGroups(r)
    BY <1>5, Forms DEF Answers
  <2> QED
    BY <1>1, <1>2, <2>1 DEF SearchGroups, GroupHits, GroupsFaceted, Faceted
<1>6. CASE r \in CommentSearches
  <2>1. answer \in SearchComments(r)
    BY <1>6, Forms DEF Answers
  <2> QED
    BY <1>1, <1>2, <2>1 DEF SearchComments, CommentHits, CommentsFaceted, Faceted
<1>7. CASE r \in NotificationSearches
  <2>1. answer \in SearchNotifications(r)
    BY <1>7, Forms DEF Answers
  <2> QED
    BY <1>1, <1>2, <2>1 DEF SearchNotifications, NotificationHits, NotificationsFaceted, Faceted
<1>8. CASE r \in MyGroupsRequests
  <2>1. answer \in SearchMyGroups(r)
    BY <1>8, Forms DEF Answers
  <2>2. answer \in Page(GroupsOfUser(r), r.limit) /\ GroupsOfUser(r) \in SUBSET Shows
    BY <1>1, <2>1 DEF SearchMyGroups, GroupsOfUser, GroupsByIds, Among
  <2> QED
    BY <1>2, <2>2
<1>9. CASE r \in MyTasksRequests
  <2>1. answer \in SearchMyTasks(r)
    BY <1>9, Forms DEF Answers
  <2>2. answer \in Page(TasksOfUser(r), r.limit) /\ TasksOfUser(r) \in SUBSET Shows
    BY <1>1, <2>1 DEF SearchMyTasks, TasksOfUser, TasksByIds, Among
  <2> QED
    BY <1>2, <2>2
<1>10. CASE r \in UsersByGroupRequests
  <2>1. answer \in SearchUsersByGroup(r)
    BY <1>10, Forms DEF Answers
  <2>2. UsersOfGroup(r) \in SUBSET Shows
    BY <1>1 DEF UsersOfGroup, Among
  <2> QED
    BY <1>2, <2>1, <2>2 DEF SearchUsersByGroup
<1>11. CASE r \in TasksByGroupRequests
  <2>1. answer \in SearchTasksByGroup(r)
    BY <1>11, Forms DEF Answers
  <2> QED
    BY <1>1, <1>2, <2>1 DEF SearchTasksByGroup, TasksOfGroup
<1>12. CASE r \in MyProfileRequests \cup UserRequests
  <2>1. answer \in Profile(r.about)
    BY <1>12, Forms DEF Answers
  <2>2. r.about \in User
    BY <1>12, Forms, RequestForm
  <2> QED
    BY <2>1, <2>2, ProfileTyped
<1> QED
  BY <1>3, <1>4, <1>5, <1>6, <1>7, <1>8, <1>9, <1>10, <1>11, <1>12 DEF Request

LEMMA ReadTyped ==
  ASSUME SearchTypeOK, Read
  PROVE  SearchTypeOK'
<1> DEFINE Answered == [request : Request, answer : AnswerShape]
<1>1. UNCHANGED <<row, doc>>
  BY DEF Read, AskCached, AskAnew, Answer, Expire
<1>2. ASSUME DOMAIN cache' \in SUBSET Keys, \A k \in DOMAIN cache' : cache'[k] \in AnswerShape,
             asking' \in [Asker -> Answered \cup {None}], served' = None \/ served' \in Answered
      PROVE  SearchTypeOK'
  BY <1>1, <1>2 DEF SearchTypeOK
<1>3. /\ DOMAIN cache \in SUBSET Keys /\ \A k \in DOMAIN cache : cache[k] \in AnswerShape
      /\ asking \in [Asker -> Answered \cup {None}]
  BY DEF SearchTypeOK
<1>4. ASSUME NEW r \in Request, AskCached(r) PROVE SearchTypeOK'
  <2>1. UNCHANGED <<cache, asking>> /\ cache[KeyOf(r)] \in AnswerShape
    BY <1>3, <1>4 DEF AskCached
  <2>2. served' = None \/ served' = [request |-> r, answer |-> cache[KeyOf(r)]]
    BY <1>4 DEF AskCached
  <2> QED
    BY <1>2, <1>3, <2>1, <2>2
<1>5. ASSUME NEW a \in Asker, NEW r \in Request, AskAnew(a, r) PROVE SearchTypeOK'
  <2>1. PICK answer \in Answers(r) : asking' = [asking EXCEPT ![a] = [request |-> r, answer |-> answer]]
    BY <1>5 DEF AskAnew
  <2>2. answer \in AnswerShape
    BY FoundIsTyped
  <2>3. asking' \in [Asker -> Answered \cup {None}]
    BY <1>3, <2>1, <2>2
  <2> QED
    BY <1>2, <1>3, <1>5, <2>3 DEF AskAnew
<1>6. ASSUME NEW a \in Asker, Answer(a) PROVE SearchTypeOK'
  <2> DEFINE key == KeyOf(asking[a].request)
  <2>1. asking[a] \in Answered
    BY <1>3, <1>6 DEF Answer
  <2>2. key \in Keys /\ asking[a].answer \in AnswerShape
    BY <2>1 DEF Keys
  <2>3. cache' = [k \in DOMAIN cache \cup {key} |-> IF k = key THEN asking[a].answer ELSE cache[k]]
    BY <1>6 DEF Answer
  <2> HIDE DEF key
  <2>4. DOMAIN cache' \in SUBSET Keys /\ \A k \in DOMAIN cache' : cache'[k] \in AnswerShape
    BY <1>3, <2>2, <2>3
  <2>5. asking' = [asking EXCEPT ![a] = None] /\ served' = asking[a]
    BY <1>6 DEF Answer
  <2>6. asking' \in [Asker -> Answered \cup {None}]
    BY <1>3, <2>5
  <2> HIDE DEF Answered
  <2> QED
    BY <1>2, <2>1, <2>4, <2>5, <2>6
<1>7. ASSUME NEW key \in Keys, Expire(key) PROVE SearchTypeOK'
  <2>1. cache' = [k \in DOMAIN cache \ {key} |-> cache[k]] /\ served' = None /\ UNCHANGED asking
    BY <1>7 DEF Expire
  <2>2. DOMAIN cache' \in SUBSET Keys /\ \A k \in DOMAIN cache' : cache'[k] \in AnswerShape
    BY <1>3, <2>1
  <2> QED
    BY <1>2, <1>3, <2>1, <2>2
<1> QED
  BY <1>4, <1>5, <1>6, <1>7 DEF Read

-----------------------------------------------------------------------------
\* A request that is still to write a document has a text for it.
Plain == Step \ {"index"}
TextToIndex ==
  \A s \in Server :
    serving[s] # None => serving[s].text \in Word \/ serving[s].todo \in Seq(Plain)

EffectTypeInv == EffectTypeOK /\ TextToIndex

\* What a change leaves of the types of what is read.
LEMMA ChangeTyped ==
  ASSUME EffectTypeOK, served' = None, UNCHANGED <<cache, asking>>,
         row' \in [Item -> Word \cup {None, Gone}], doc' \in [Item -> SUBSET Word],
         serving' \in [Server -> Serving \cup {None}]
  PROVE  EffectTypeOK'
  BY DEF EffectTypeOK, SearchTypeOK

\* A request that begins changes the text of one item.
LEMMA ChangeBegins ==
  ASSUME EffectTypeInv, NEW s \in Server, NEW i \in Item, NEW text \in Word \cup {None, Gone},
         NEW written \in Word \cup {Gone}, NEW todo \in Seq(Step),
         text \in Word \/ todo \in Seq(Plain),
         serving' = [serving EXCEPT ![s] = [item |-> i, text |-> text, todo |-> todo]],
         row' = [row EXCEPT ![i] = written],
         served' = None, UNCHANGED <<doc, cache, asking>>
  PROVE  EffectTypeInv'
<1> DEFINE call == [item |-> i, text |-> text, todo |-> todo]
<1>1. call \in Serving /\ call.text = text /\ call.todo = todo
  BY DEF Serving
<1>2. serving' = [serving EXCEPT ![s] = call]
  OBVIOUS
<1> HIDE DEF call
<1>3. serving' \in [Server -> Serving \cup {None}] /\ row' \in [Item -> Word \cup {None, Gone}]
  BY <1>1, <1>2 DEF EffectTypeInv, EffectTypeOK, SearchTypeOK
<1>4. doc' \in [Item -> SUBSET Word]
  BY DEF EffectTypeInv, EffectTypeOK, SearchTypeOK
<1>5. EffectTypeOK'
  BY <1>3, <1>4, ChangeTyped DEF EffectTypeInv
<1>6. TextToIndex'
  <2>1. \A r \in Server : serving'[r] = IF r = s THEN call ELSE serving[r]
    BY <1>2 DEF EffectTypeInv, EffectTypeOK
  <2> QED
    BY <1>1, <2>1 DEF EffectTypeInv, TextToIndex
<1> QED
  BY <1>5, <1>6 DEF EffectTypeInv

\* What the requests have to do after their commit.
LEMMA TodosTyped ==
  /\ \A todo \in {<<"index", "groups", "rbac">>, <<"index", "groups">>, <<"index", "tasks", "rbac">>,
                  <<"index", "tasks">>, <<"index", "auth">>, <<"index">>} : todo \in Seq(Step)
  /\ \A todo \in {<<"delete", "groups">>, <<"delete", "tasks">>, <<"delete", "users", "auth">>,
                  <<>>, <<"groups">>, <<"groups", "rbac">>, <<"tasks">>} :
       todo \in Seq(Step) /\ todo \in Seq(Plain)
<1>1. /\ {"index", "delete", "groups", "tasks", "users", "auth", "rbac"} \subseteq Step
      /\ {"delete", "groups", "tasks", "users", "auth", "rbac"} \subseteq Plain
  BY DEF Step, Plain
<1>2. ASSUME NEW S, NEW x \in S, NEW y \in S, NEW z \in S
      PROVE  <<>> \in Seq(S) /\ <<x>> \in Seq(S) /\ <<x, y>> \in Seq(S) /\ <<x, y, z>> \in Seq(S)
  OBVIOUS
<1> HIDE DEF Plain
<1> QED
  BY <1>1, <1>2

LEMMA CommitsTyped ==
  ASSUME EffectTypeInv, NEW s \in Server, NEW i \in Item, NEW text \in Word \cup {Gone},
         NEW todo \in Seq(Step), text \in Word \/ todo \in Seq(Plain), Commits(s, i, text, todo)
  PROVE  EffectTypeInv'
  BY ChangeBegins DEF Commits

LEMMA JoinsTyped ==
  ASSUME EffectTypeInv, NEW s \in Server, NEW i \in Item, NEW todo \in Seq(Step), Joins(s, i, todo)
  PROVE  EffectTypeInv'
  BY CommitsTyped DEF Joins, Found

LEMMA ProfileCallTyped ==
  ASSUME EffectTypeInv, NEW s \in Server, NEW u \in Item, NEW text \in Word, ReindexProfile(s, u, text)
  PROVE  EffectTypeInv'
  BY ChangeBegins, TodosTyped DEF ReindexProfile, Found

LEMMA ChangeCallTyped ==
  ASSUME EffectTypeInv, NEW s \in Server, NEW i \in Item, Call(s, i)
  PROVE  EffectTypeInv'
<1>1. CASE GroupCall(s, i)
  BY <1>1, TodosTyped, CommitsTyped, JoinsTyped
     DEF GroupCall, CreateMyGroup, UpdateMyGroup, DeleteMyGroup, AddMemberToGroup,
         RemoveMemberFromGroup, ApproveJoinRequest, RejectJoinRequest, JoinGroup, ExitGroup
<1>2. CASE TaskCall(s, i)
  BY <1>2, TodosTyped, CommitsTyped, JoinsTyped
     DEF TaskCall, CreateTaskForGroup, UpdateMyTask, DeleteMyTask, AddUserToTask,
         RemoveUserFromTask, UpdateStatusTask, ExitTask, JoinTask, ApproveTaskJoinRequest,
         RejectTaskJoinRequest
<1>3. CASE UserCall(s, i)
  BY <1>3, TodosTyped, CommitsTyped, ProfileCallTyped DEF UserCall, IndexNewUser, UnindexProfile
<1> QED
  BY <1>1, <1>2, <1>3 DEF Call

LEMMA EffectTyped ==
  ASSUME EffectTypeInv, NEW s \in Server, Effect(s)
  PROVE  EffectTypeInv'
<1> DEFINE Calls == [Server -> Serving \cup {None}]
           Texts == [Item -> SUBSET Word]
<1>1. doc \in Texts /\ serving \in Calls /\ TextToIndex
  BY DEF EffectTypeInv, EffectTypeOK, SearchTypeOK
<1>2. served' = None /\ UNCHANGED <<row, asking>>
  BY DEF Effect, IndexItem, DeleteItem, SearchFails, Invalidate, Return
<1>3. serving[s] # None /\ serving[s] \in Serving
  BY <1>1 DEF Effect, IndexItem, DeleteItem, SearchFails, Invalidate, Return
<1>4. ASSUME Done(s), serving[s].todo # <<>> PROVE serving' \in Calls /\ TextToIndex'
  <2> DEFINE rest == [serving[s] EXCEPT !.todo = Tail(@)]
  <2>1. /\ Tail(serving[s].todo) \in Seq(Step)
        /\ serving[s].todo \in Seq(Plain) => Tail(serving[s].todo) \in Seq(Plain)
    BY <1>3, <1>4 DEF Serving
  <2>2. rest \in Serving /\ rest.text = serving[s].text /\ rest.todo = Tail(serving[s].todo)
    BY <1>3, <2>1 DEF Serving
  <2>3. serving' = [serving EXCEPT ![s] = rest]
    BY <1>4 DEF Done
  <2> HIDE DEF rest
  <2>4. \A r \in Server : serving'[r] = IF r = s THEN rest ELSE serving[r]
    BY <1>1, <2>3
  <2>5. TextToIndex'
    BY <1>1, <1>3, <2>1, <2>2, <2>4 DEF TextToIndex
  <2> QED
    BY <1>1, <2>2, <2>3, <2>5
<1>5. ASSUME serving' = [serving EXCEPT ![s] = None] PROVE serving' \in Calls /\ TextToIndex'
  <2>1. \A r \in Server : serving'[r] = IF r = s THEN None ELSE serving[r]
    BY <1>1, <1>5
  <2> QED
    BY <1>1, <1>5, <2>1 DEF TextToIndex
<1>6. serving' \in Calls /\ TextToIndex'
  BY <1>4, <1>5 DEF Effect, IndexItem, DeleteItem, SearchFails, Invalidate, Return
<1>7. doc' \in Texts
  <2>1. CASE IndexItem(s)
    <3>1. serving[s].todo # <<>> /\ Head(serving[s].todo) = "index" /\ serving[s].todo \in Seq(Step)
      BY <1>3, <2>1 DEF IndexItem, Serving
    <3>2. serving[s].todo \notin Seq(Plain)
      BY <3>1 DEF Plain
    <3>3. serving[s].text \in Word /\ serving[s].item \in Item
      BY <1>1, <1>3, <3>2 DEF TextToIndex, Serving
    <3>4. doc' = [doc EXCEPT ![serving[s].item] = @ \cup {serving[s].text}]
      BY <2>1 DEF IndexItem
    <3> QED
      BY <1>1, <3>3, <3>4
  <2>2. CASE ~IndexItem(s)
    BY <1>1, <2>2 DEF Effect, DeleteItem, SearchFails, Invalidate, Return
  <2> QED
    BY <2>1, <2>2
<1>8. row' \in [Item -> Word \cup {None, Gone}]
  BY <1>2 DEF EffectTypeInv, EffectTypeOK, SearchTypeOK
<1>9. CASE UNCHANGED cache
  BY <1>2, <1>6, <1>7, <1>8, <1>9, ChangeTyped DEF EffectTypeInv
<1>10. CASE Invalidate(s)
  <2>1. DOMAIN cache' \in SUBSET Keys /\ \A k \in DOMAIN cache' : cache'[k] \in AnswerShape
    BY <1>10 DEF Invalidate, EffectTypeInv, EffectTypeOK, SearchTypeOK
  <2> QED
    BY <1>2, <1>6, <1>7, <1>8, <2>1 DEF EffectTypeInv, EffectTypeOK, SearchTypeOK
<1> QED
  BY <1>9, <1>10 DEF Effect, IndexItem, DeleteItem, SearchFails, Return

LEMMA EffectTypesStep == EffectTypeInv /\ [EffectNext]_effectVars => EffectTypeInv'
<1> SUFFICES ASSUME EffectTypeInv, [EffectNext]_effectVars PROVE EffectTypeInv'
  OBVIOUS
<1>1. CASE UNCHANGED effectVars
  BY <1>1 DEF effectVars, EffectTypeInv, EffectTypeOK, SearchTypeOK, TextToIndex
<1>2. CASE Read /\ UNCHANGED serving
  BY <1>2, ReadTyped DEF EffectTypeInv, EffectTypeOK, TextToIndex
<1> QED
  BY <1>1, <1>2, ChangeCallTyped, EffectTyped DEF EffectNext

LEMMA EffectTypesStart == EffectInit => EffectTypeInv
  BY DEF EffectInit, SearchInit, EffectTypeInv, EffectTypeOK, SearchTypeOK, TextToIndex

(* Rows, documents, what is kept and computed and what requests have left   *)
(* to do keep their types: no key is ever kept that no request asks for,    *)
(* and no document is ever written of an item that is gone.                 *)
THEOREM SearchTypes == EffectSpec => []EffectTypeOK
<1>1. EffectTypeInv => EffectTypeOK
  BY DEF EffectTypeInv
<1> QED
  BY EffectTypesStart, EffectTypesStep, <1>1, PTL DEF EffectSpec
=============================================================================
