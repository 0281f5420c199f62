CONSTANTS
  W = 4
  IndexW = 2
SPECIFICATION CursorSpec
INVARIANTS
  CountExact
PROPERTIES
  Implements
