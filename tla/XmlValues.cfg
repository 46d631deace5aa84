SPECIFICATION Spec
CONSTANTS
  Elements = {e1, e2}
  Attrs = {a1, a2, a3, a4}
  None = None
  Names <- MCNames
  AttrValues <- MCValues
  Strings = {s1, s2}
  Blocks = {b1, b2, b3}
  nullrep_ = nullrep_
  Chars = {"a", "b"}
  Spare = 0
  MaxLen = 2
  TabSize = 2
  MaxLength = 3
SYMMETRY Symmetry
INVARIANTS
  AttributesConsistent
  Located
  BlocksOwned
PROPERTIES
  Dictionary
  ValueSemantics
CHECK_DEADLOCK FALSE
