SPECIFICATION Spec
CONSTANTS
  Job = {j1}
  Worker = {w1,w2}
  MaxAttempts = 2
  Lease = 2
  RenewEvery = 1
  MaxClock = 4
  NULL = NULL
  Faults = {"crash", "error", "commitError", "stall", "slowRenew"}
SYMMETRY Symmetry
INVARIANTS
  TypeOK
  RowCoherent
  AttemptsBounded
  LatestAttemptLands
  OfficialIsRegistered
  IInv
PROPERTIES
  NoStolenLease
  ImplementsLifecycle
CHECK_DEADLOCK FALSE
