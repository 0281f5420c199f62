CONSTANTS
  W = 3
  HighW = 1
  LowW = 2
SPECIFICATION Spec
INVARIANTS
  PartsDisjoint
  DifferenceComplete
  PartsStayInClass
  FewestParts
PROPERTIES
  Implements
CHECK_DEADLOCK FALSE
