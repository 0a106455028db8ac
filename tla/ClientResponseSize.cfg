CONSTANTS
  s1 = s1
  s2 = s2
  Keys = {s1}
  Conns = {k1}
  MaxIdle = 1
  SizeModulus = 16
  Calls = {c1}
  Requests <- MCAsk
  Responses <- MCSizes
  MaxRedirects = 1
  MaxRetries = 1
  MaxRequestSize = 1
  MaxResponseSize = 1
  ParserLimit = 2
  Sync = FALSE
  MaxUnderWay = 1
SPECIFICATION Spec
INVARIANTS
  ResponseSizeLimited
