CONSTANTS
  Threads = {t1, t2}
  Clients = {s1, s2}
  Silent = {}
  MaxTasks = 1
  Nobody = Nobody
  MaxRuns = 1
SPECIFICATION FairSpec
CHECK_DEADLOCK FALSE
PROPERTIES
  StopEndsServer
