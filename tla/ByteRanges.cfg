SPECIFICATION Spec
CONSTANTS
  SectorBytes = 2
  BlockSectors = 2
  NrBlocks = 4
  MaxCalls = 1
  Faults = {"get"}
PROPERTIES
  UpdateExact
  ReadExact
  CacheInvisible
  OnlyTouchedDirty
CHECK_DEADLOCK FALSE
