----------------------------- MODULE Experience -----------------------------
(***************************************************************************)
(* Experience points: service/xp.py, transactions/xp.py, the skill rows    *)
(* and the award a completed task makes (service/task.py).  add_sphere_xp  *)
(* is taken at its interface, with any amount: its one caller passes 0.    *)
(* Weights are per cent, factors tenths; is_frozen is never set.           *)
(***************************************************************************)
EXTENDS Platform, Integers, Sequences, FiniteSets

CONSTANTS Awarder,     \* requests that award points, side by side
          Sphere,      \* TaskSphere
          Amount,      \* amounts given to add_sphere_xp
          Points,      \* TaskDifficulty: 1, 3, 5
          DeadlineDays, ActualDays, Weight,  \* inputs of calculate_task_xp
          MaxDailyXp   \* 500 in the code

ASSUME XpAssumption ==
  /\ Amount \subseteq Nat /\ Points \subseteq Nat /\ Weight \subseteq 10..100
  /\ DeadlineDays \subseteq Int /\ ActualDays \subseteq Nat \ {0}
  /\ MaxDailyXp \in Nat

VARIABLES
  skill,   \* the rows of table user_skills
  award,   \* per awarder, the call of add_sphere_xp it is in
  reply,   \* what the call that just ended returned, or None
  quote    \* what calculate_task_xp was just asked, or None

xpVars == <<skill, award, reply, quote>>

-----------------------------------------------------------------------------
Threshold == <<0, 100, 300, 700, 1500, 2500, 4000, 6000, 8500, 10000>>

\* Mutant: a threshold that is just reached does not count.
LevelBelow(xp) ==
  IF \E n \in 1..10 : xp > Threshold[n]
  THEN CHOOSE n \in 1..10 : xp > Threshold[n] /\ \A m \in n + 1..10 : xp <= Threshold[m]
  ELSE 1

\* get_level_from_xp: the highest threshold that is reached, looked for from the top.
LevelOf(xp) ==
  IF \E n \in 1..10 : xp >= Threshold[n]
  THEN CHOOSE n \in 1..10 : xp >= Threshold[n] /\ \A m \in n + 1..10 : xp < Threshold[m]
  ELSE 1

\* get_xp_to_next_level and get_progress_percent; from level 10 on the next
\* threshold is the tenth itself, and a level without range is complete.
NextThreshold(level) == Threshold[IF level < 10 THEN level + 1 ELSE 10]
XpToNextLevel(xp, level) == IF NextThreshold(level) > xp THEN NextThreshold(level) - xp ELSE 0
ProgressPercent(xp, level) ==
  LET range == NextThreshold(level) - Threshold[level]
      part == IF range > 0 THEN ((xp - Threshold[level]) * 100) \div range ELSE 100
  IN IF part > 100 THEN 100 ELSE part

\* Factors as fractions <<numerator, denominator>>.
\* Mutant: no upper and lower end of the bonus.
TimeBonusOpen(deadline, actual) ==
  IF deadline <= 0 THEN <<1, 1>> ELSE <<2 * deadline - actual, deadline>>

TimeBonus(deadline, actual) ==
  LET spare == 2 * deadline - actual IN
  CASE deadline <= 0 -> <<1, 1>>
    [] deadline > 0 /\ 2 * spare < deadline -> <<1, 2>>
    [] deadline > 0 /\ spare > 2 * deadline -> <<2, 1>>
    [] OTHER -> <<spare, deadline>>

StreakBonus(streak) == IF streak >= 10 THEN 15 ELSE IF streak >= 5 THEN 12 ELSE 10

\* int() of a product of floats: where the product is a whole number the
\* binary result may lie just below it.
Truncated(num, den) ==
  LET q == num \div den IN IF num % den = 0 /\ q > 0 THEN {q - 1, q} ELSE {q}

\* calculate_task_xp for one sphere.
Reward(points, weight, deadline, actual, streak) ==
  LET bonus == TimeBonus(deadline, actual)
  IN Truncated(points * 10 * weight * bonus[1] * StreakBonus(streak), bonus[2] * 1000)

-----------------------------------------------------------------------------
FreshSkill(u, s) == [user |-> u, sphere |-> s, total |-> 0, today |-> 0, level |-> 1,
                     streak |-> 0, last |-> "never"]

SkillsOf(u, s) == {i \in DOMAIN skill : skill[i].user = u /\ skill[i].sphere = s}
SkillRowOf(u, s) == skill[CHOOSE i \in SkillsOf(u, s) : TRUE]

\* _reset_daily_xp, then what _check_daily_cap lets through.
ResetDaily(row) == IF row.last = "today" THEN row ELSE [row EXCEPT !.today = 0]
Allowed(row, xp) ==
  LET left == MaxDailyXp - row.today IN
  IF row.last # "today" \/ xp <= left THEN xp ELSE IF left > 0 THEN left ELSE 0

\* _update_xp, _update_level; _update_streak then sees the date just written.
Credited(row, xp) ==
  LET total == row.total + (IF xp < MaxDailyXp THEN xp ELSE MaxDailyXp) IN
  [row EXCEPT !.total = total, !.level = LevelOf(total), !.last = "today"]

\* The points of a sphere in the distribution of a task: it is keyed by the
\* upper-case name and looked up by the lower-case value, so never found.
PointsFor(distribution, s) ==
  IF <<s, "value">> \in DOMAIN distribution THEN distribution[<<s, "value">>] ELSE 0

IdleAward == [at |-> "idle"]

-----------------------------------------------------------------------------
\* get_or_create_skill reads the row, or goes on to insert one.
AddSphereXp(a, u, s, xp) ==
  /\ award[a] = IdleAward
  /\ award' = [award EXCEPT ![a] =
       [at |-> IF SkillsOf(u, s) = {} THEN "adding" ELSE "crediting",
        user |-> u, sphere |-> s, xp |-> xp]]
  /\ reply' = None /\ quote' = None
  /\ UNCHANGED skill

\* Mutant: no unique constraint on user and sphere.
InsertAnyway(a) ==
  /\ award[a].at = "adding"
  /\ skill' = Append(skill, FreshSkill(award[a].user, award[a].sphere))
  /\ award' = [award EXCEPT ![a].at = "crediting"]
  /\ reply' = None /\ quote' = None

\* The insert commits, or meets uq_user_sphere and ends the request.
InsertSkill(a) ==
  /\ award[a].at = "adding"
  /\ IF SkillsOf(award[a].user, award[a].sphere) = {}
     THEN /\ skill' = Append(skill, FreshSkill(award[a].user, award[a].sphere))
          /\ award' = [award EXCEPT ![a].at = "crediting"]
     ELSE /\ award' = [award EXCEPT ![a] = IdleAward]
          /\ UNCHANGED skill
  /\ reply' = None /\ quote' = None

\* The transaction reads the row again and writes nothing; the points are
\* added to the copy the service has, which no session will save.
Credit(a) ==
  LET row == ResetDaily(SkillRowOf(award[a].user, award[a].sphere))
      xp == Allowed(row, award[a].xp)
      copy == IF xp = 0 THEN row ELSE Credited(row, xp)
  IN
  /\ award[a].at = "crediting"
  /\ reply' = [user |-> row.user, sphere |-> row.sphere, xp |-> xp, total |-> copy.total,
               copyLevel |-> copy.level, level |-> row.level,
               leveledUp |-> xp > 0 /\ row.level > copy.level]
  /\ award' = [award EXCEPT ![a] = IdleAward]
  /\ quote' = None
  /\ UNCHANGED skill

\* _process_assignee_xp for an assignee u and a sphere s of the task.
CompleteTask(a, u, s, points, weight, deadline, actual) ==
  LET streak == IF SkillsOf(u, s) = {} THEN 0 ELSE SkillRowOf(u, s).streak IN
  \E xp \in Reward(points, weight, deadline, actual, streak) :
    /\ award[a] = IdleAward
    /\ award' = [award EXCEPT ![a] =
         [at |-> IF SkillsOf(u, s) = {} THEN "adding" ELSE "crediting",
          user |-> u, sphere |-> s, xp |-> PointsFor([k \in {<<s, "NAME">>} |-> xp], s)]]
    /\ quote' = [points |-> points, weight |-> weight, deadline |-> deadline, actual |-> actual]
    /\ reply' = None
    /\ UNCHANGED skill

-----------------------------------------------------------------------------
XpInit == /\ skill = <<>>
          /\ award = [a \in Awarder |-> IdleAward]
          /\ reply = None
          /\ quote = None

XpNext ==
  \E a \in Awarder :
    \/ InsertSkill(a) \/ Credit(a)
    \/ \E u \in User, s \in Sphere, xp \in Amount : AddSphereXp(a, u, s, xp)
    \/ \E u \in User, s \in Sphere, p \in Points, w \in Weight,
          d \in DeadlineDays, n \in ActualDays : CompleteTask(a, u, s, p, w, d, n)

XpSpec == XpInit /\ [][XpNext]_xpVars

-----------------------------------------------------------------------------
XpTypeOK ==
  /\ skill \in Seq([user : User, sphere : Sphere, total : Nat, today : Nat, level : 1..10,
                    streak : Nat, last : {"never", "today", "earlier"}])
  /\ award \in [Awarder -> {IdleAward} \cup
                  [at : {"adding", "crediting"}, user : User, sphere : Sphere, xp : Nat]]

(* Requests that race to create it leave a user one row per sphere, and a   *)
(* request that credits points has one to credit them to                    *)
(* (XPTransaction.get_or_create_skill, uq_user_sphere).                     *)
OneSkillEach ==
  /\ \A i, j \in DOMAIN skill :
       skill[i].user = skill[j].user /\ skill[i].sphere = skill[j].sphere => i = j
  /\ \A a \in Awarder : award[a].at = "crediting" => SkillsOf(award[a].user, award[a].sphere) # {}

(* The level a credit computes is the number of thresholds reached, points  *)
(* are missing to the next level exactly below the top, and the progress    *)
(* shown agrees (get_level_from_xp, get_xp_to_next_level,                   *)
(* get_progress_percent).                                                   *)
LevelFits ==
  reply # None /\ reply.xp > 0 =>
    LET level == reply.copyLevel
        left == XpToNextLevel(reply.total, level)
    IN /\ level = Cardinality({n \in 1..10 : Threshold[n] <= reply.total})
       /\ (left > 0) = (level < 10)
       /\ ProgressPercent(reply.total, level) \in 0..(IF left > 0 THEN 99 ELSE 100)

\* Where the bonus of a streak changes.
Streaks == {0, 5, 10}

(* With any streak a task's points lie between half and twice its story     *)
(* points (10 each), times the bonus of the streak: at most three times as  *)
(* many.  One who finishes later, or has the shorter streak, never gets     *)
(* more.  All this but for a point that rounding takes (calculate_task_xp). *)
RewardFair ==
  quote # None =>
    LET Earned(days, streak) == Reward(quote.points, quote.weight, quote.deadline, days, streak) IN
    \A streak \in Streaks : \A xp \in Earned(quote.actual, streak) :
      LET full == quote.points * quote.weight * StreakBonus(streak) IN   \* in hundredths
      /\ 50 * xp <= full /\ full <= 200 * (xp + 1)
      /\ \A days \in ActualDays, shorter \in Streaks :
           days >= quote.actual /\ shorter <= streak =>
             \A less \in Earned(days, shorter) : less <= xp + 1
=============================================================================
