SPECIFICATION FairSpec
CONSTANTS
  c1 = c1
  c2 = c2
  c3 = c3
  Clients <- MCClients
  Lines <- MCLines
  Segs <- MCSegs
  Killable <- MCKillable
  FdLimit = 6
INVARIANTS TypeOK NoEdgeLost EchoesOwnUnlessBatched
PROPERTIES ReplyComesUnlessMixed
CHECK_DEADLOCK FALSE
