SPECIFICATION Spec
CONSTANTS
  B = 4
  RecCount = 2
  ExtCount = 2
  ModCount = 4
  Lengths = {0, 3, 4, 9, 16}
  All = 3
INVARIANTS
  EntriesCoverFile
PROPERTIES
  SequentialAdvances
  ExtentsInOrder
  RandomComesBack
