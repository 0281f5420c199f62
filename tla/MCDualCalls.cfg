CONSTANTS
  W4 = 2
  W6 = 4
  Mapped <- MCMapped
  Slices <- MCSlices
SPECIFICATION Spec
INVARIANTS
  TypeOK
  ResultsOfFamily
  AnswersOfFamily
  ViewsReadBack
