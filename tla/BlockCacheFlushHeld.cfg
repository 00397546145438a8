SPECIFICATION Spec
CONSTANTS
  k1 = k1
  k2 = k2
  k3 = k3
  NoKey = NoKey
  Keys <- MCTwoKeys
  DevOf <- MCDevOfTwo
  GetModes <- MCReadDirty
  NrCacheBlocks = 2
  BlockSectors = 1
  MaxIo = 2
  Width = 4
  Low = 1
  High = 2
  WritebackBatch = 2
  Ops = {"get", "put", "flush"}
  QuietOps = {}
  MaxHeld = 1
  MaxRef = 2
  Faults = {}
PROPERTIES
  FlushTruth
