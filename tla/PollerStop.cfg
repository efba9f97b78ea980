CONSTANTS
  main = main
  t1 = t1
  s1 = s1
  s2 = s2
  Nobody = Nobody
  Main = main
  Threads <- Pool
  Stoppers <- TwoStoppers
  Detachable = {FALSE, TRUE}
  MaxListens = 2
  MaxStops = 2
SPECIFICATION FairSpec
INVARIANTS
  StopInv
  WakeupNotLost
PROPERTIES
  StopEndsListen
