CONSTANTS
  p1 = p1
  p2 = p2
  s1 = s1
  k1 = k1
  k2 = k2
  k3 = k3
  a = a
  b = b
  c = c
  None = None
  Blank = Blank
  Keys = {k1, k2, k3}
  Values = {a, b, c}
  Procs = {p1, p2}
  Scanners = {s1}
  NHash = 2
  Hash <- MCHash
  KLen <- MCKLen
  VLen <- MCVLen
  Preload <- MCPreload
  Quota <- MCQuota
  Ops <- MCOps
SPECIFICATION Spec
INVARIANTS OnDisk ScanComplete
PROPERTIES ImplementsKeyValue ScanReadsLive OpReturns
CHECK_DEADLOCK FALSE
