CONSTANTS
  Batch = 2
  MaxTroubles = 1
SPECIFICATION FairSpec
INVARIANTS
  CompleteIsTrue
PROPERTIES
  
  StreamEnds
CHECK_DEADLOCK FALSE
