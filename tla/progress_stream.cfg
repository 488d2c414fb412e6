SPECIFICATION ProgressSpec
CONSTANTS
  Job = {j1,j2}
  Worker = {w1,ghost}
  Ghost = ghost
  Recycle = TRUE
  MaxAttempts = 2
  Lease = 1
  RenewEvery = 1
  MaxClock = 2
  NULL = NULL
  Faults = {"crash"}
INVARIANTS
  IInv
PROPERTIES
  EveryJobEnds
  NoStolenLease
CHECK_DEADLOCK FALSE
