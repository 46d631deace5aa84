SPECIFICATION Spec
CONSTANTS
  Texts <- MCTexts
  ShortLen = 5
  ContentLen = 3
  AttributeLen = 4
  CodedLen = 3
INVARIANTS
  LoadedAsSaved
PROPERTIES
  Advances
