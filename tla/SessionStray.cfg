CONSTANTS
  Requests <- MCStray
  MaxRequests = 2
  LargeBody = 1
  BodyLimit = 2
  Behaviours = {"auto"}
  ResponseTypes = {"string"}
  Pipelining = FALSE
SPECIFICATION Spec
CHECK_DEADLOCK FALSE
INVARIANTS
  InFrame
