CONSTANTS
  Worker = {w1}
  User = {u1}
  Staff = {}
  Group = {g1}
  Task = {t1}
  Policy = {"REQUEST"}
  Name = {n1}
  Title = {x}
  Status = {todo}
  InitStatus = todo
  MaxRequests = 1
  None = None
SPECIFICATION Spec
SYMMETRY Symmetry
CHECK_DEADLOCK FALSE
PROPERTIES
  DecidedOnce
