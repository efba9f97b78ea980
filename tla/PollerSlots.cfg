CONSTANTS
  t1 = t1
  t2 = t2
  l1 = l1
  r1 = r1
  r2 = r2
  r3 = r3
  None = None
  Threads <- TwoThreads
  ListenPoints <- OnePoint
  Requests <- ThreeRequests
  MaxFd = 6
  MaxListens = 1
  MayYield = TRUE
SPECIFICATION Spec
CHECK_DEADLOCK FALSE
SYMMETRY Alike
INVARIANTS
ChainSound
CallbackExclusive
FreedOnlyByWorker
SlotsInv
PROPERTIES
ImplementsSet
