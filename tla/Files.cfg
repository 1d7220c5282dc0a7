SPECIFICATION Spec
CONSTANTS
  Names = {a, b, c}
  Wild = any
  Slots = {1, 2, 3}
  Clusters = {1, 2}
  Records = {0, 1}
  Values = {v1, v2}
  ExtRecords = 1
SYMMETRY NamesAndValues
INVARIANTS
  CacheIsHonest
  ReadsAreRight
PROPERTIES
  ImplementsNamedFiles
CHECK_DEADLOCK FALSE
