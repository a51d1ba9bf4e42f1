CONSTANTS
  Sock = {s1, s2}
  Program = Program
  Closed = Closed
  MaxFd = 2
  MaxLost = 2
  Unit = {"sockets", "file", "random", "hash", "cipher", "vector", "base", "utf8", "codes", "sort"}
  MaxFile = 2
  Word = 16
  StreamBlocks = 3
  StreamBlock = 2
  MaxMove = 7
  HashBlock = 4
  LengthAt = 3
  DigestSize = 2
  MaxMessage = 9
  CipherBlock = 4
  MaxText = 9
  Item = {1, 2}
  Uninit = 0
  MaxSize = 4
  MaxRun = 2
  Char = {0, 47, 57, 61, 70, 97, 122, 255}
  Byte = {65, 128, 191, 195, 224, 239, 243, 255}
  CodePoint = {127, 128, 2047, 2048, 55296, 57343, 65535, 65536, 1114111}
  Key = {1, 2, 3}
  MaxInput = 5
SPECIFICATION Spec
CHECK_DEADLOCK FALSE
SYMMETRY Symmetry
INVARIANTS
  DigestOfMessage
  CipherInverts
  BaseInverts
  UnicodeInverts
  SortIsStable
PROPERTIES
  ClosesItsOwn
  LosesOnlyThere
  KeepsToItsFile
  ReadsOn
  EditsItems
