SPECIFICATION WGFairSpec
CONSTANTS
  Tasks = {t1, t2, t3}
  Workers = {w1, w2}
  Waiters = {v1, v2}
  NoOwner = NoOwner
  MaxSpurious = 1
INVARIANTS WGTypeOK NoLostWakeup
PROPERTIES LeaveOnlyWhenDone WaitReturns
