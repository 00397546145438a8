SPECIFICATION Spec
SYMMETRY MCAlike
CONSTANTS
  k1 = k1
  k2 = k2
  k3 = k3
  NoKey = NoKey
  Keys <- MCThreeKeys
  DevOf <- MCOneDev
  GetModes <- MCDirtyModes
  NrCacheBlocks = 2
  BlockSectors = 3
  MaxIo = 2
  Width = 4
  Low = 1
  High = 2
  WritebackBatch = 2
  Ops = {"get", "put", "flush", "invalidate_block", "destroy"}
  QuietOps = {"flush", "destroy"}
  MaxHeld = 2
  MaxRef = 2
  Faults = {"full", "read", "write"}
INVARIANTS
  NoLostWrite
  HoldersSeeData
  NoAbort
  TypeOK
PROPERTIES
  FlushTruth
  InvalidateTruth
  DestroySaves
CHECK_DEADLOCK FALSE
