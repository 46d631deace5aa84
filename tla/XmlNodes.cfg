SPECIFICATION Spec
CONSTANTS
  Nodes = {n1, n2, n3, n4, n5}
  Null = Null
  Values = {"a", "b"}
SYMMETRY Symmetry
INVARIANTS
  Consistent
  Navigation
PROPERTIES
  ImplementsOrderedTree
