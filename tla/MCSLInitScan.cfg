SPECIFICATION FairSpec
CONSTANTS
  Length = 4
  Policies <- MCPolicies
  MaxSteps = 6
INVARIANTS TypeOK FirstStoreBehindString EachStoreServesOne
PROPERTY Ends
CHECK_DEADLOCK FALSE
