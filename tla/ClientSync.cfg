CONSTANTS
  s1 = s1
  s2 = s2
  Keys = {s1}
  Conns = {k1, k2}
  MaxIdle = 1
  SizeModulus = 16
  Calls = {c1}
  Requests <- MCEveryAsk
  Responses <- MCEveryResponse
  MaxRedirects = 1
  MaxRetries = 1
  MaxRequestSize = 1
  MaxResponseSize = 1
  ParserLimit = 2
  Sync = TRUE
  MaxUnderWay = 2
SPECIFICATION FairSpec
INVARIANTS
  CallInv
PROPERTIES
  OwnershipSpec
  SyncCallsReturn
