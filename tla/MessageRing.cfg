SPECIFICATION Spec
CONSTANTS
  Bytes = 8
  IndexMod = 16
  ShortMod = 16
  Sizes = {3, 5}
INVARIANTS
  MessagesSafe
PROPERTIES
  ImplementsChannel
  RoomIsFound
CHECK_DEADLOCK FALSE
