CONSTANTS
  Worker = {w1, w2}
  User = {u1, u2}
  Staff = {}
  Group = {g1}
  Task = {t1}
  Policy = {"REQUEST"}
  Name = {n1}
  Title = {x}
  Status = {todo}
  InitStatus = todo
  MaxRequests = 1
  None = None
SPECIFICATION RaceSpec
SYMMETRY Symmetry
CHECK_DEADLOCK FALSE
INVARIANTS
  OwnerInv
PROPERTIES
  ApprovalDelivers
