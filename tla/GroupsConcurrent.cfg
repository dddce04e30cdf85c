CONSTANTS
  Worker = {w1, w2}
  User = {u1, u2}
  Staff = {}
  Group = {g1, g2}
  Task = {}
  Policy = {"REQUEST"}
  Name = {n1, n2}
  Title = {}
  Status = {todo}
  InitStatus = todo
  MaxRequests = 1
  None = None
SPECIFICATION Spec
SYMMETRY Symmetry
CONSTRAINT OwnersOrMembers
CHECK_DEADLOCK FALSE
INVARIANTS
  TypeOK
  AdminRoleSound
  OutboxFaithful
  NoticesTellTruth
PROPERTIES
  ApprovalDelivers
  ImplementsLedger
