CONSTANTS
  W = 3
  MaxLen = 4
  Inputs <- Descending
SPECIFICATION Spec
INVARIANTS
  OnlyTheTopMatters
  ResultMinimal
PROPERTIES
  Implements
CHECK_DEADLOCK FALSE
