SPECIFICATION ProgressSpec
CONSTANTS
  Pieces <- MCPieces
  MaxPieces = 4
INVARIANTS
  ScanIsExact
  ShownIsWholeWords
  ShownTextGrows
CHECK_DEADLOCK FALSE
