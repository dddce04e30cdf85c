----------------------------- MODULE MCServices -----------------------------
(***************************************************************************)
(* The services around the transactions on small instances.  They share no *)
(* variable, but for notifications, which publish through SseDelivery, so  *)
(* that their interleavings add nothing: a behaviour runs one part.        *)
(***************************************************************************)
EXTENDS Notifications, Experience, Accounts, Comments, Ratings, ServiceEffects

CONSTANT Part   \* the parts to check

VARIABLE part   \* the one that runs

allVars == <<part, noticeVars, sseVars, xpVars, accountVars, commentVars, ratingVars, effectVars>>

ServicesInit ==
  /\ part \in Part
  /\ SseInit /\ NoticeInit /\ XpInit /\ AccountInit /\ CommentInit /\ RatingInit /\ EffectInit
  /\ relay => part = "streams"

Streams == /\ part = "streams" /\ SseNext
           /\ UNCHANGED <<part, noticeVars, xpVars, accountVars, commentVars, ratingVars, effectVars>>
Notices == /\ part = "notices" /\ NoticeNext
           /\ UNCHANGED <<part, xpVars, accountVars, commentVars, ratingVars, effectVars>>
Awards == /\ part = "points" /\ XpNext
          /\ UNCHANGED <<part, noticeVars, sseVars, accountVars, commentVars, ratingVars, effectVars>>
People == /\ part = "accounts" /\ AccountNext
          /\ UNCHANGED <<part, noticeVars, sseVars, xpVars, commentVars, ratingVars, effectVars>>
Talk == /\ part = "comments" /\ CommentNext
        /\ UNCHANGED <<part, noticeVars, sseVars, xpVars, accountVars, ratingVars, effectVars>>
Votes == /\ part = "ratings" /\ RatingNext
         /\ UNCHANGED <<part, noticeVars, sseVars, xpVars, accountVars, commentVars, effectVars>>
Search == /\ part = "search" /\ EffectNext
          /\ UNCHANGED <<part, noticeVars, sseVars, xpVars, accountVars, commentVars, ratingVars>>

ServicesNext == Streams \/ Notices \/ Awards \/ People \/ Talk \/ Votes \/ Search

ServicesSpec == ServicesInit /\ [][ServicesNext]_allVars
ServicesFairSpec == ServicesSpec /\ SseFairness /\ EffectFairness

(* The types of every part's variables.                                     *)
ServicesTypeOK ==
  /\ SseTypeOK /\ NoticeTypeOK
  /\ XpTypeOK
  /\ AccountTypeOK
  /\ CommentTypeOK
  /\ RatingTypeOK
  /\ EffectTypeOK

-----------------------------------------------------------------------------
CONSTANTS t1, g1   \* the task and the group one can search for
ItemKind == [i \in Item |-> IF i = t1 THEN "task" ELSE IF i = g1 THEN "group" ELSE "user"]

Amounts == {0, 99, 100, 700}
Deadlines == {0, 3, 7}
Days == {1, 2, 14}
Weights == {30, 100}
StoryPoints == {1, 5}
Scores == {1, 5}
PageSizes == {2}
FirstWord == CHOOSE x \in Word : TRUE
PassingTexts == [f \in Filter |-> {FirstWord}]

One == CHOOSE u \in User : TRUE
Here == CHOOSE p \in Process : TRUE

(* What is left out of the instances.  Streams: a second user, whose queues *)
(* are other queues; with Redis a third event, without it a second process, *)
(* which no event reaches.  Notices: a second process.  Comments: a second  *)
(* author, whose comments differ in nothing a property looks at, and        *)
(* changes of a second comment.  Search: more than one item at a time and   *)
(* one answer kept, other texts of any but the task, a second user's row,   *)
(* and more than two of requests in progress and answers kept.              *)
Small ==
  /\ part = "streams" =>
       /\ \A s \in Stream : stream[s].user \in {None, One}
       /\ \A n \in DOMAIN published : published[n].to = One
       /\ relay => Len(published) <= 2
       /\ ~relay => /\ \A n \in DOMAIN published : published[n].at = Here
                    /\ \A s \in Stream : stream[s].process \in {None, Here}
  /\ part = "notices" => \A n \in DOMAIN published : published[n].at = Here
  /\ part = "comments" =>
       /\ \A i \in Present : comment[i].author = One
       /\ \A w \in Writer : /\ writing[w].at = "insert" => writing[w].row.author = One
                            /\ writing[w].at = "update" => writing[w].id = 1
  /\ part = "search" =>
       /\ Cardinality({i \in Item : row[i] # None}) <= 1
       /\ \A i \in Item \ {t1} : row[i] \in {None, Gone, FirstWord}
       /\ \A u \in User \ {One} : row[u] = None
       /\ Cardinality(DOMAIN cache) <= 1
       /\ Cardinality(DOMAIN cache) + Cardinality({a \in Asker : asking[a] # None})
             + Cardinality({s \in Server : serving[s] # None}) <= 2
=============================================================================
