SPECIFICATION Spec
CONSTANTS
  LineMax = 1
  MaxFaults = 0
  MaxFaultsInBatch = 0
  Numbers = 4
  IntHalf = 4
  SyncTries = 2
  MaxRetrans = 3
  EotTries = 2
  BatchTries = 3
  Unsized = {}
  XmtxSizes = {4}
  Sizes <- NoFiles
INVARIANT MetadataIsMetadata
CHECK_DEADLOCK FALSE
