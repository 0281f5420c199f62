CONSTANT W = 3
SPECIFICATION Spec
INVARIANTS
  TypeOK
  IntersectionExact
  MergeExact
  CoversLeast
  ContainsExact
