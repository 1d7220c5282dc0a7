SPECIFICATION FairSpec
CONSTANTS
  LineMax = 2
  MaxFaults = 2
  MaxFaultsInBatch = 1
  Numbers = 8
  IntHalf = 8
  SyncTries = 2
  MaxRetrans = 2
  EotTries = 2
  BatchTries = 3
  XmtxSizes = {0, 3}
  Sizes <- TwoFiles
  Unsized = {1}
INVARIANTS PrefixInPlace SuccessIsComplete
PROPERTIES CleanTransferSucceeds BothReturn
CHECK_DEADLOCK FALSE
