CONSTANTS
  User = {u1, u2}
  None = None
  Process = {p1, p2}
  Stream = {s1, s2}
  MaxQueue = 1
  MaxPublished = 2
  MaxNotices = 2
  PageLimit = 1
  Awarder = {a1, a2}
  Sphere = {backend}
  Amount <- Amounts
  Points <- StoryPoints
  DeadlineDays <- Deadlines
  ActualDays <- Days
  Weight <- Weights
  MaxDailyXp = 500
  Client = {c1, c2}
  Email = {e1, e2}
  Username = {n1, e1}
  Admin = {u1}
  Writer = {w1, w2}
  Board = {b1}
  Content = {x, y}
  MaxComments = 2
  Rater = {r1, r2}
  TaskTarget = {k1}
  GroupTarget = {h1}
  Score <- Scores
  MaxRatings = 2
  Asker = {q1}
  Item = {t1, g1, u1, u2}
  KindOf <- ItemKind
  Word = {x, y}
  Filter = {f1}
  Passing <- PassingTexts
  Limit <- PageSizes
  Server = {v1}
  EsFails = TRUE
  t1 = t1
  g1 = g1
  Part = {"notices", "points", "accounts", "comments", "ratings", "search"}
SPECIFICATION ServicesSpec
CONSTRAINT Small
CHECK_DEADLOCK FALSE
INVARIANTS
  ServicesTypeOK
  EventsTellRows
  WaitingIsAnswerable
  OneSkillEach
  LevelFits
  RewardFair
  OneAccountEach
  RepliesHaveParents
  CommentsFound
  OneVoteEach
  AnswersFit
PROPERTIES
  ReadStaysRead
  StaysDeleted
