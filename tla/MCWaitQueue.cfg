SPECIFICATION WQFairSpec
CONSTANTS
  Readers = {r1, r2}
  MaxReads = 2
INVARIANTS WQTypeOK NoMissedWake CountedReadsHappened
PROPERTIES RaisedFlagAnswered
CHECK_DEADLOCK FALSE
