SPECIFICATION ProgressSpec
CONSTANTS
  Job = {j1}
  Worker = {w1,w2,ghost}
  Ghost = ghost
  Recycle = FALSE
  MaxAttempts = 2
  Lease = 3
  RenewEvery = 1
  MaxClock = 2
  NULL = NULL
  Faults = {"crash"}
INVARIANTS
  OneConverter
PROPERTIES
  RetryDelivers
CHECK_DEADLOCK FALSE
