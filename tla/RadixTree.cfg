SPECIFICATION Spec
CONSTANTS
  NoValue = NoValue
  Size4 = 2
  Size16 = 3
  Size48 = 4
  NrBytes = 5
  Keys <- MCKeys
  Stems <- MCStems
  ValuesOf <- MCValuesOf
  RewriteChains = FALSE
INVARIANTS
  WellFormed
  IterateExact
PROPERTIES
  ImplementsRadixMap
