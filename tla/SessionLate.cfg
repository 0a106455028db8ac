CONSTANTS
  Requests <- MCGet
  MaxRequests = 1
  LargeBody = 1
  BodyLimit = 2
  Behaviours = {"auto", "defer"}
  ResponseTypes = {"string"}
  Pipelining = FALSE
SPECIFICATION Spec
CHECK_DEADLOCK FALSE
INVARIANTS
  NoDanglingStream
