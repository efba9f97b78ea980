CONSTANTS
  Lengths <- SomeLengths
  PingLengths <- SomePings
  ReadSizes <- SomeReads
  WholePings = TRUE
  MaxFrames = 3
  MaxFails = 1
SPECIFICATION Spec
INVARIANTS
  HandlerGetsData
  PingsAnswered
