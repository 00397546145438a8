SPECIFICATION Spec
CONSTANTS
  NoValue = NoValue
  Size4 = 2
  Size16 = 3
  Size48 = 4
  NrBytes = 5
  Keys <- MCFewKeys
  Stems <- MCStems
  ValuesOf <- MCFewValuesOf
  RewriteChains = TRUE
INVARIANTS
  SizeTruth
