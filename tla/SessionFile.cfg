CONSTANTS
  Requests <- MCGet
  MaxRequests = 1
  LargeBody = 1
  BodyLimit = 2
  Behaviours = {"auto", "inline"}
  ResponseTypes = {"string", "file"}
  Pipelining = FALSE
SPECIFICATION Spec
CHECK_DEADLOCK FALSE
INVARIANTS
  NoNullResponse
