CONSTANTS
  Requests <- MCBodies
  MaxRequests = 3
  LargeBody = 1
  BodyLimit = 2
  Behaviours = {"auto", "inline", "inlineThrow", "throw"}
  ResponseTypes = {"string"}
  Pipelining = TRUE
SPECIFICATION Spec
CHECK_DEADLOCK FALSE
INVARIANTS
  AnswersIncrease
  AheadInv
  CloseHonoured
  WholeBody
  BodyInv
  BufferConsumed
