SPECIFICATION Spec
CONSTANTS
  Threads = {t1, t2, t3}
  NULL = NULL
INVARIANTS KillReachesAll
CHECK_DEADLOCK FALSE
