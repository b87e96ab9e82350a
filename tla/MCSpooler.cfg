SPECIFICATION FairSpec
CONSTANTS
  Subs = {s1, s2}
  MaxJob = 2
  MaxStops = 1
  MaxFaults = 1
  None = None
INVARIANTS AckedOnDisk HeldOnce PrintsFinishedFiles RefusedNotPrinted ConfirmedOncePerLife ReuseNeedsLag HangupNotLost
PROPERTIES AckedIsPrinted
