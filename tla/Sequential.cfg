CONSTANTS
  Worker = {w1}
  User = {u1}
  Staff = {u1}
  Group = {g1, g2}
  Task = {t1}
  Policy = {"OPEN", "REQUEST"}
  Name = {n1, n2}
  Title = {x}
  Status = {todo, done}
  InitStatus = todo
  MaxRequests = 3
  None = None
SPECIFICATION Spec
SYMMETRY Symmetry
CONSTRAINT RolesOrRequests
CHECK_DEADLOCK FALSE
INVARIANTS
  AdminRoleComplete
  RolesGrantedOnce
  OutboxFaithful
  OnePendingRequest
PROPERTIES
  RejectedIsFinal
