\* Two bytes that differ; writes of one and two bytes, and seeks as far as the fourth.
CONSTANTS
  Byte = {a, b}
  Uninit = Uninit
  Null = Null
  AllocOutcome <- MayFail
  MaxBuffer = 2
  MaxSize = 4
  MaxWrite = 2
SPECIFICATION Spec
CHECK_DEADLOCK FALSE
INVARIANTS
  TypeOK
  InBounds
PROPERTIES
  FailureChangesNothing
  OnlyGrowthLoses
  ImplementsStream
