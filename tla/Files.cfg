CONSTANTS
  Missing = Missing
  Threads = {t1, t2}
  Paths <- MCPaths
  Tree <- MCTree
  Requests <- MCRequests
  MaxRequests = 2
  Buffer = 2
  SendfileFrom = 6
  ErrorText = 1
SPECIFICATION FairSpec
CHECK_DEADLOCK FALSE
INVARIANTS
  GetsTheFile
  EffectDone
PROPERTY
  AlwaysAnswered
