CONSTANTS
  W = 4
  HighW = 2
  LowW = 2
  ChunkSize = 2
  MaxLen = 3
  Inputs <- OneSlicePerBag
SPECIFICATION Spec
INVARIANTS
  NoClassPreservingPair
CHECK_DEADLOCK FALSE
