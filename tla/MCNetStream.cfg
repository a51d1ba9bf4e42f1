\* Two bytes in one direction, sent and received in one part or in two.
CONSTANTS
  Side = {l, r}
  Writer = l
  Timeout = 1
  Window = 2
  Faults <- EveryFault
  MaxBytes <- OneWay
  MaxCall = 2
SPECIFICATION FairSpec
INVARIANTS
  InOrder
  NothingLost
PROPERTIES
  TimeoutMeansEnd
  EndsAfterClose
