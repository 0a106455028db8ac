CONSTANTS
  s1 = s1
  s2 = s2
  Keys = {s1, s2}
  Conns = {k1, k2, k3}
  MaxIdle = 1
  SizeModulus = 16
  Calls = {c1, c2}
  Requests <- MCAsk
  Responses <- MCRedirects
  MaxRedirects = 1
  MaxRetries = 1
  MaxRequestSize = 1
  MaxResponseSize = 1
  ParserLimit = 2
  Sync = FALSE
  MaxUnderWay = 1
SPECIFICATION FairSpec
INVARIANTS
  TypeOK
  Exclusive
  PooledReady
  OwnAnswer
  AttemptsBounded
  IInv
PROPERTIES
  OwnershipSpec
  CallsReturn
