SPECIFICATION Spec
CONSTANTS
  Size = 2
  IndexMod = 4
  MaxRestarts = 1
INVARIANTS
  RingSafe
PROPERTIES
  ImplementsChannel
  AllAnswered
CHECK_DEADLOCK FALSE
