SPECIFICATION MFairSpec
CONSTANTS
  k1 = k1
  k2 = k2
  k3 = k3
  NoKey = NoKey
  Keys <- MCKeys
  DevOf <- MCDevOf
  GetModes <- MCReadDirty
  NrCacheBlocks = 2
  BlockSectors = 1
  MaxIo = 2
  Width = 4
  Low = 1
  High = 2
  WritebackBatch = 2
  Ops = {"get", "put", "prefetch", "flush", "invalidate_block", "destroy"}
  QuietOps = {"flush", "destroy"}
  MaxHeld = 2
  MaxRef = 1
  Faults = {}
  Paths = {1, 2}
  max_cache_devs = 1
  Idevs = {1, 2}
  NoDev = NoDev
  Handles = {1, 2}
  Closed = Closed
  Free = Free
  NoHandle = NoHandle
  NoGet = NoGet
  GetFlags <- MCFlags
  DevFaults = {"open"}
INVARIANTS
  DevicesStayOpen
PROPERTIES
  ImplementsDevTable
  CallReturns
