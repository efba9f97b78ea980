CONSTANTS
  t1 = t1
  t2 = t2
  c1 = c1
  c2 = c2
  Nobody = Nobody
  Threads <- TwoThreads
  Conns <- TwoConns
  Timeout = 2
  Day = 1
  MaxTime = 10
SPECIFICATION Spec
SYMMETRY Alike
INVARIANTS
  TimerAlive
  OverdueAtMostADay
PROPERTIES
  GivesUpOnlyIdle
