SPECIFICATION TSpec
CONSTANTS
  NoKey = NoKey
  Keys <- MCKeys
  DevOf <- MCDevOf
  GetModes <- MCNoModes
  NrCacheBlocks = 16
  BlockSectors = 64
  MaxIo = 16
  Width = 65536
  Low = 5
  High = 10
  WritebackBatch = 16
  Ops = {"get", "put", "prefetch", "flush", "invalidate_block", "invalidate_dev", "destroy"}
  QuietOps = {}
  MaxHeld = 16
  MaxRef = 2
  Faults = {"issue", "read", "write"}
  Paths <- MCPaths
  max_cache_devs = 4
  Idevs = {1, 2, 3, 4, 5}
  NoDev = NoDev
  Handles <- MCPaths
  Closed = Closed
  Free = Free
  NoHandle = NoHandle
  NoGet = NoGet
  GetFlags = {}
  DevFaults = {}
  Tests <- MCTests
INVARIANTS
  TestsPass
