CONSTANTS
  Worker = {w1}
  Entity = {e1, e2}
  Soft = {e1}
  Existing = {e1, e2}
  Operation = {"updateStatus", "delete"}
  BatchSize = 2
  MaxRetries = 3
  MaxEvents = 3
  MaxInterrupts = 0
  Wired = TRUE
SPECIFICATION FairSpec
CHECK_DEADLOCK FALSE
PROPERTIES
  ImplementsPromise
  EveryEventCloses
