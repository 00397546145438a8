SPECIFICATION Spec
CONSTANTS
  Attrs = {1, 2, 3}
  MaxValue <- MCMaxValue
  NULL = NULL
INVARIANTS
  RangesExact
  LookupTruth
  InOrderWalkCovers
