CONSTANTS
  Worker = {w1, w2}
  Entity = {e1}
  Soft = {e1}
  Existing = {e1}
  Operation = {"updateStatus"}
  BatchSize = 2
  MaxRetries = 3
  MaxEvents = 1
  MaxInterrupts = 0
  Wired = FALSE
SPECIFICATION FairSpec
CHECK_DEADLOCK FALSE
PROPERTIES
  EventuallyConsistent
