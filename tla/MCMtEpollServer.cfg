SPECIFICATION FairSpec
CONSTANTS
  c1 = c1
  c2 = c2
  Clients <- MCClients
  Lines <- MCLines
  Segs <- MCSegs
  Killable <- MCKillable
  FdLimit = 6
  Threads = {t1, t2}
  BufSegs = 1
INVARIANTS ServedByOne NoEdgeLost BacklogNoticed NeverBlocksInRead EchoesOwnLines
PROPERTIES ReplyComesUnlessCaught
CHECK_DEADLOCK FALSE
