CONSTANTS
  Threads = {t1, t2, t3}
  Clients = {s1, s2}
  Silent = {s1}
  MaxTasks = 1
  Nobody = Nobody
  MaxRuns = 2
SPECIFICATION VisitedSpec
CHECK_DEADLOCK FALSE
INVARIANTS
  TypeOK
  ReturnsQuiet
  AtMostOneLate
PROPERTIES
  StopEndsUnlessHeld
  Served
