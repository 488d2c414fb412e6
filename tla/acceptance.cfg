SPECIFICATION AcceptanceSpec
CONSTANTS
  Heavy = heavy
  Broken = broken
  Job = {heavy,broken}
  Worker = {w1,ghost}
  Ghost = ghost
  Recycle = FALSE
  MaxAttempts = 3
  Lease = 3
  RenewEvery = 1
  MaxClock = 3
  NULL = NULL
  Client = {verifier}
  Verifier = verifier
  Archived = {legacy}
  Legacy = legacy
  Faults = {"crash"}
  Outside = {}
INVARIANTS
  NoCheckFails
PROPERTIES
  ScriptEnds
CHECK_DEADLOCK FALSE
