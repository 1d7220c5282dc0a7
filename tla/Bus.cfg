SPECIFICATION FairSpec
CONSTANT
  Timeout = 3
INVARIANTS
  NoContention
  CliOwnsBus
  DmaIsConfined
  StopHasCause
PROPERTIES
  ServedOnce
  StopsWhenTold
  NothingHangs
