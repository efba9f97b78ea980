CONSTANTS
  t1 = t1
  t2 = t2
  t3 = t3
  i1 = i1
  i2 = i2
  d1 = d1
  d2 = d2
  d3 = d3
  Nil = Nil
  Threads <- TwoThreads
  Ids <- TwoIds
  Dicts <- TwoDicts
  Overlapping <- TwoIds
  Removable <- TwoIds
  Emptiable <- None
  MaxServed = 4
  MaxRestarts = 0
  Backends = {"memory"}
SPECIFICATION Spec
CHECK_DEADLOCK FALSE
SYMMETRY Alike
INVARIANTS
  NoUseAfterFree
