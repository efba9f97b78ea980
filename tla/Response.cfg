CONSTANTS
  BufferSize = 3
  HeaderSizes = {2, 3, 7}
  WriteSizes = {1, 2, 5, 8}
  Lengths = {0, 2, 6}
  Rooms = {1, 6, 40}
  MaxBody = 9
  Word = 32
  None = None
  Heads <- Both
  HTTP10 = FALSE
  Tidy = TRUE
  YieldsLate = TRUE
SPECIFICATION FairSpec
INVARIANTS
  KeepAliveDelimited
  AnswerComplete
  ContentInOrder
PROPERTIES
  WriteReturns
