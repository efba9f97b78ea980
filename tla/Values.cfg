SPECIFICATION Spec
CONSTANTS
  GrowMin = 2
  GrowLimit = 4
  MimeTypeSize = 4
  ExtensionSize = 3
  CookieSize = 14
  Tasks <- MCTasks
  Pieces <- MCPieces
  MaxText = 5
  WordOrder <- MCWordOrder
  Plugins <- MCPlugins
CHECK_DEADLOCK FALSE
INVARIANTS
  RoundTrips
  BuffersSuffice
  PagesAsWritten
