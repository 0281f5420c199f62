CONSTANTS
  W = 3
  MaxLen = 4
  Inputs <- Offered
SPECIFICATION Spec
INVARIANTS
  TypeOK
  UnionPreserved
  StackBelowCandidates
  StackClosed
  ResultIrreducible
PROPERTIES
  CandidatesUntouched
  Implements
CHECK_DEADLOCK FALSE
