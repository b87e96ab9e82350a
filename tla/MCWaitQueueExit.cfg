SPECIFICATION WQFairSpec
CONSTANTS
  Readers = {r1}
  MaxReads = 1
PROPERTIES ExitReachesThread
CHECK_DEADLOCK FALSE
