\* The code has no answer to a silent peer.
CONSTANTS
  Side = {l, r}
  Writer = l
  Timeout = 2
  Window = 1
  Faults <- NoFault
  MaxBytes <- OneWay
  MaxCall = 2
SPECIFICATION FairSpec
PROPERTIES
  ReadEnds
