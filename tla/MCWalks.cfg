CONSTANTS
  W = 4
  HighW = 2
  LowW = 2
SPECIFICATION Spec
PROPERTIES
  Implements
CHECK_DEADLOCK FALSE
