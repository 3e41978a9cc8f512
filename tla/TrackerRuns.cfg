SPECIFICATION FairSpec
CONSTANTS
  Capacity = 3
  MaxLines = 5
  MaxBlocks = 2
INVARIANTS
  TypeOK
  NothingLostInside
  CleanExitLosesNothing
PROPERTIES
  EventuallySent
CHECK_DEADLOCK FALSE
