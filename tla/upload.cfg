SPECIFICATION Spec
CONSTANTS
  Limit = 5
  Chunk = 2
  MaxLength = 8
  MaxMembers = 3
  OtherName = "other"
INVARIANTS
  AcceptsDocumentsOnly
  LimitIsExact
CHECK_DEADLOCK FALSE
