CONSTANTS
  Worker = {w1, w2}
  Entity = {e1}
  Soft = {e1}
  Existing = {}
  Operation = {"create", "update", "updateStatus", "delete"}
  BatchSize = 2
  MaxRetries = 3
  MaxEvents = 2
  MaxInterrupts = 1
  Wired = TRUE
SPECIFICATION FairSpec
CHECK_DEADLOCK FALSE
INVARIANTS
  WorkerInv
  OneLostPerInterrupt
PROPERTIES
  EventuallySettled
