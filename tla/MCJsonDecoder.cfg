CONSTANTS
  Literal <- MCLiteral
  Printed <- MCPrinted
  Quoted <- MCQuoted
  MaxLevel = 2
  MaxTokens = 9
  MaxLength = 2
SPECIFICATION ParserSpec
CHECK_DEADLOCK FALSE
INVARIANTS
  DecodesAsMeant
  OwnsWhatItBuilt
  EncodingDecodes
