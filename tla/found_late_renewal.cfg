SPECIFICATION Spec
CONSTANTS
  Job = {j1}
  Worker = {w1,w2}
  MaxAttempts = 2
  Lease = 2
  RenewEvery = 1
  MaxClock = 4
  NULL = NULL
  Faults = {"slowRenew"}
SYMMETRY Symmetry
PROPERTIES
  RenewalExtends
CHECK_DEADLOCK FALSE
