CONSTANTS
  W = 4
  HighW = 2
  LowW = 2
  ChunkSize = 2
  MaxLen = 4
  Inputs <- OneSlicePerBag
SPECIFICATION Spec
INVARIANTS
  UnionPreserved
  SearchedInOrder
  ResultClosed
PROPERTIES
  Terminates
CHECK_DEADLOCK FALSE
