SPECIFICATION Spec
CONSTANTS
  Job = {j1}
  Worker = {w1,w2}
  MaxAttempts = 2
  Lease = 3
  RenewEvery = 1
  MaxClock = 5
  NULL = NULL
  Faults = {}
SYMMETRY Symmetry
PROPERTIES
  HolderRecordsFailure
CHECK_DEADLOCK FALSE
