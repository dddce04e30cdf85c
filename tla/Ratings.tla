------------------------------ MODULE Ratings -------------------------------
(***************************************************************************)
(* Ratings of tasks and groups: service/rating.py with its transactions,   *)
(* repository and endpoints.  One reads the target and the caller's rating *)
(* first and inserts later; meanwhile the target may change, and another   *)
(* request of the same user may have rated it.                             *)
(***************************************************************************)
EXTENDS Platform, Naturals, Sequences, FiniteSets

CONSTANTS Rater,       \* requests in progress, side by side
          TaskTarget,  \* tasks one may rate
          GroupTarget, \* groups one may rate
          Score,
          MaxRatings   \* bound: ratings ever inserted

ASSUME RatingAssumption ==
  /\ MaxRatings \in Nat
  /\ TaskTarget \cap GroupTarget = {}
  /\ Score \subseteq Nat

VARIABLES
  target,    \* the tasks and groups: "open", "done" (tasks) or "gone"
  rating,    \* the rows of table ratings, by id; None once deleted
  ratingNow  \* per request the rating it is about to insert, or None

ratingVars == <<target, rating, ratingNow>>

-----------------------------------------------------------------------------
Target == TaskTarget \cup GroupTarget
RatingRow == [user : User, target : Target, score : Score]

Given == {i \in DOMAIN rating : rating[i] # None}
RatingsOf(u, t) == {i \in Given : rating[i].user = u /\ rating[i].target = t}

\* The number of ratings that get_rating returns with their average.
RatingCount(t) == Cardinality({i \in Given : rating[i].target = t})

-----------------------------------------------------------------------------
\* What the task and group transactions do to the targets.
ChangeTarget(t, state) ==
  /\ target[t] # "gone"
  /\ t \in GroupTarget => state = "gone"
  /\ target' = [target EXCEPT ![t] = state]
  /\ UNCHANGED <<rating, ratingNow>>

\* create_rating: a task has to be DONE, a group active, and not rated yet.
CreateRating(r, u, t, score) ==
  /\ ratingNow[r] = None
  /\ target[t] = IF t \in TaskTarget THEN "done" ELSE "open"
  /\ RatingsOf(u, t) = {}
  /\ ratingNow' = [ratingNow EXCEPT ![r] = [user |-> u, target |-> t, score |-> score]]
  /\ UNCHANGED <<target, rating>>

\* Mutant: the unique constraint is missing.
InsertAnyRating(r) ==
  /\ ratingNow[r] # None
  /\ Len(rating) < MaxRatings
  /\ rating' = Append(rating, ratingNow[r])
  /\ ratingNow' = [ratingNow EXCEPT ![r] = None]
  /\ UNCHANGED target

\* The insert, whatever became of the target; uq_user_target_rating may refuse.
InsertRating(r) ==
  LET row == ratingNow[r] IN
  /\ row # None
  /\ Len(rating) < MaxRatings
  /\ rating' = IF RatingsOf(row.user, row.target) = {} THEN Append(rating, row) ELSE rating
  /\ ratingNow' = [ratingNow EXCEPT ![r] = None]
  /\ UNCHANGED target

\* One's own rating; deleting what another request has just deleted succeeds.
DeleteRating(u, i) ==
  /\ i \in Given /\ rating[i].user = u
  /\ rating' = [rating EXCEPT ![i] = None]
  /\ UNCHANGED <<target, ratingNow>>

-----------------------------------------------------------------------------
RatingInit ==
  /\ target = [t \in Target |-> "open"]
  /\ rating = <<>>
  /\ ratingNow = [r \in Rater |-> None]

RatingRequest(u) ==
  \/ \E r \in Rater, t \in Target, s \in Score : CreateRating(r, u, t, s)
  \/ \E i \in DOMAIN rating : DeleteRating(u, i)

RatingNext ==
  \/ \E t \in Target, s \in {"open", "done", "gone"} : ChangeTarget(t, s)
  \/ \E u \in User : RatingRequest(u)
  \/ \E r \in Rater : InsertRating(r)

RatingSpec == RatingInit /\ [][RatingNext]_ratingVars

-----------------------------------------------------------------------------
RatingTypeOK ==
  /\ target \in [Target -> {"open", "done", "gone"}]
  /\ rating \in Seq(RatingRow \cup {None}) /\ Len(rating) <= MaxRatings
  /\ ratingNow \in [Rater -> RatingRow \cup {None}]

(* However requests race, the number of ratings a target shows is the      *)
(* number of users who rate it: each counts once in its average             *)
(* (RatingTransaction.create_rating, RatingService.get_rating).             *)
OneVoteEach ==
  \A t \in Target :
    RatingCount(t) = Cardinality({rating[i].user : i \in {j \in Given : rating[j].target = t}})
=============================================================================
