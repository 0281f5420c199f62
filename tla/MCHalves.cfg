CONSTANTS
  H = 2
  B = 1
SPECIFICATION EitherSpec
INVARIANTS
  TypeOK
  KernelsAgree
PROPERTIES
  Implements
