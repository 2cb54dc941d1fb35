SPECIFICATION FairSpec
CONSTANTS
  Length = 5
  Texts <- MCTexts
  Markers <- MCMarkers
  MaxPending = 8
INVARIANTS TypeOK FoundIsReached EachFunctionGivesOne RangesAreTheSet
PROPERTY Ends
CHECK_DEADLOCK FALSE
