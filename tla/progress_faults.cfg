SPECIFICATION ProgressSpec
CONSTANTS
  Job = {j1}
  Worker = {w1,ghost}
  Ghost = ghost
  Recycle = FALSE
  MaxAttempts = 2
  Lease = 2
  RenewEvery = 1
  MaxClock = 3
  NULL = NULL
  Faults = {"crash","error","commitError","stall","slowRenew"}
PROPERTIES
  EveryJobEnds
  ResidueVanishes
CHECK_DEADLOCK FALSE
