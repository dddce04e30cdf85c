CONSTANTS
  Worker = {w1, w2}
  User = {u1}
  Staff = {}
  Group = {g1, g2}
  Task = {}
  Policy = {"OPEN"}
  Name = {n1, n2}
  Title = {}
  Status = {todo}
  InitStatus = todo
  MaxRequests = 0
  None = None
SPECIFICATION Spec
SYMMETRY Symmetry
CHECK_DEADLOCK FALSE
INVARIANTS
  AdminRoleComplete
