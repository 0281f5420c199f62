CONSTANTS
  W = 2
  MaxLen = 5
  SplitInputs <- SortedSlices
SPECIFICATION SplitSpec
INVARIANTS
  CountersExact
  FirstGreatestWins
  GatheredInOrder
CHECK_DEADLOCK FALSE
