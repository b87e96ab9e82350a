SPECIFICATION Spec
CONSTANTS
  c1 = c1
  c2 = c2
  c3 = c3
  Clients <- MCClients
  Lines <- MCLines
  Segs <- MCSegs
  Killable <- MCKillable
  FdLimit = 8
  OPENMAX = 3
INVARIANTS NeverBlocksInRead
CHECK_DEADLOCK FALSE
