SPECIFICATION Spec
CONSTANTS
  p1 = p1
  p2 = p2
  p3 = p3
  h1 = h1
  h2 = h2
  h3 = h3
  f1 = f1
  f2 = f2
  f3 = f3
  dev2 = dev2
  NoDev = NoDev
  Closed = Closed
  Free = Free
  NoHandle = NoHandle
  Paths <- MCThreePaths
  max_cache_devs = 2
  Idevs = {1, 2, 3}
  Handles = {h1, h2, h3}
  Frames = {f1, f2, f3}
  Faults = {"open"}
INVARIANTS
  RefCountsTrack
  TableOK
  AccessGranted
PROPERTIES
  ExclusiveStartsEmpty
  ClosesLeastRecentlyUsed
SYMMETRY MCSymmetry
