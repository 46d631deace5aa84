SPECIFICATION Spec
CONSTANTS
  Bytes = 8
  IndexMod = 16
  ShortMod = 8
  Sizes = {3, 5}
INVARIANTS
  GrantMeansRoom
CHECK_DEADLOCK FALSE
