SPECIFICATION Spec
CONSTANTS
  Matchers = {"local_only", "def_policy", "single_user", "sl_policy"}
  Instructions <- MCInstructions
  Start = 2
  Window = 5
  ImageSize = 9
  None = None
  r1 = r1
  r2 = r2
  b1 = b1
  b2 = b2
SYMMETRY MCSymmetry
INVARIANTS
  TypeOK
  LocalOnlySameExit
  DefPolicyFits
  SingleUserFits
  WindowIsRead
CHECK_DEADLOCK FALSE
