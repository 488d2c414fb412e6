SPECIFICATION ApiSpec
CONSTANTS
  Job = {j1}
  Worker = {w1,w2}
  Client = {c1}
  Archived = {}
  MaxAttempts = 2
  Lease = 2
  RenewEvery = 1
  MaxClock = 3
  NULL = NULL
  Faults = {"crash","error"}
  Outside = {"apiCrash","damage"}
SYMMETRY Symmetry
INVARIANTS
  DeliveredIsRegistered
  NewsStaysTrue
  SourcePrecedesRow
  ApiInv
  SucceededHasFile
  DownloadWorks
CHECK_DEADLOCK FALSE
