SPECIFICATION FairSpec
CONSTANTS
  MaxEntries = 3
  Markers = 3
  PerUser = 2
INVARIANTS TypeOK NothingInOrderIsMissed FoundIsReferenced
PROPERTY Ends
CHECK_DEADLOCK FALSE
