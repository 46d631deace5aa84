SPECIFICATION V4vSpec
CONSTANTS
  RingLen = 10
  MaxLen = 5
  Handles = {k1, k2, k3, k4}
  None = None
  HANDLE = {u1, u2, u3, u4}
  Null = Null
  Contexts = {c1, c2}
  MaxPending = 2
SYMMETRY Symmetry
INVARIANTS
  ReaderSafe
  KernelSafe
  UserSafe
PROPERTIES
  ImplementsQueue
  KernelKeepsWord
CHECK_DEADLOCK FALSE
