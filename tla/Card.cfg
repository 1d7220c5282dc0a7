SPECIFICATION Spec
CONSTANTS
  Sectors <- SomeSectors
  BlockSize = 2
  PowerTime = 1
  InitTime = 2
  DataTime = 1
  ReadyTime = 1
  MaxCount = 2
INVARIANTS
  TransfersAreExact
  SuccessIsComplete
PROPERTIES
  CallsReturn
