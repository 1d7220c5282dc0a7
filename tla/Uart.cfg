SPECIFICATION FairSpec
CONSTANTS
  Ports = {0}
  N = 2
  Bytes = {0, 1}
  HaltKey = 1
  Empty <- None
INVARIANTS
  RingsAgree
  ReadIsOldest
  NoStall
PROPERTIES
  ImplementsQueues
  OutputDrains
