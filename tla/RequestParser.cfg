CONSTANTS
  Null = Null
  Clients <- Everything
  MaxPostSize = 30
  MaxFileSize = 24
  Pieces <- Cuts
  Pipelined = FALSE
  HangsUp = TRUE
SPECIFICATION Spec
CHECK_DEADLOCK FALSE
INVARIANTS
  HandledAsSent
  LimitsKept
  FilesFollowRequest
  EveryRequestAnswered
