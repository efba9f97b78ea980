CONSTANTS
  t1 = t1
  t2 = t2
  t3 = t3
  i1 = i1
  i2 = i2
  d1 = d1
  d2 = d2
  d3 = d3
  Nil = Nil
  Threads <- ThreeThreads
  Ids <- TwoIds
  Dicts <- TwoDicts
  Overlapping <- First
  Removable <- TwoIds
  Emptiable <- TwoIds
  MaxServed = 4
  MaxRestarts = 1
  Backends = {"memory", "redis", "sqlite3"}
SPECIFICATION Spec
CHECK_DEADLOCK FALSE
SYMMETRY Alike
INVARIANTS
  RefsExact
  UsedWhileAlive
  RemovedGone
  SavedStays
  SessionsInv
CONSTRAINT Defined
