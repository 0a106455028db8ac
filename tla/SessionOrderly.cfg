CONSTANTS
  Requests <- MCAll
  MaxRequests = 2
  LargeBody = 1
  BodyLimit = 2
  Behaviours = {"auto", "inline", "defer", "throw"}
  ResponseTypes = {"string"}
  Pipelining = FALSE
SPECIFICATION FairSpec
CHECK_DEADLOCK FALSE
INVARIANTS
  TypeOK
  OneWriter
  AnswersInOrder
  InFrame
  IInv
  BodyInv
PROPERTIES
  ExchangeSpec
  SessionEnds
  AnsweredInTime
  TimeoutEndsSession
