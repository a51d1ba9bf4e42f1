CONSTANTS
  Char = {a, b}
  Nul = Nul
  Uninit = Uninit
  FirstBlocks <- Blocks
  MaxLength = 4
  MaxPiece = 2
SPECIFICATION Spec
CHECK_DEADLOCK FALSE
PROPERTIES
  InsertEdits
