SPECIFICATION FairSpec
CONSTANTS
  c1 = c1
  c2 = c2
  c3 = c3
  Clients <- MCClients
  Lines <- MCLines
  Segs <- MCSegs
  Killable <- MCKillable
  FdLimit = 6
  FDSETSIZE = 6
INVARIANTS TableConsistent NeverBlocksInRead EchoesOwnLines
PROPERTIES ReplyComes
CHECK_DEADLOCK FALSE
