SPECIFICATION Spec
CONSTANTS
  k1 = k1
  k2 = k2
  k3 = k3
  NoKey = NoKey
  Keys <- MCThreeKeys
  DevOf <- MCDevOfThree
  GetModes <- MCSectorModes
  NrCacheBlocks = 2
  BlockSectors = 2
  MaxIo = 2
  Width = 4
  Low = 1
  High = 2
  WritebackBatch = 2
  Ops = {"get", "put", "prefetch", "flush", "invalidate_block", "invalidate_dev", "invalidate_all", "destroy"}
  QuietOps = {"flush", "invalidate_dev", "invalidate_all", "destroy"}
  MaxHeld = 2
  MaxRef = 2
  Faults = {}
INVARIANTS
  HoldersSeeData
  HeldNotInFlight
  NoConcurrentWrites
  ListsOK
  OneFramePerBlock
  CountersOK
