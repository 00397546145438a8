SPECIFICATION Spec
CONSTANTS
  j1 = j1
  j2 = j2
  j3 = j3
  j4 = j4
  End = End
  Jobs <- MCJobs
  LenOf <- MCLenOf
  Covers <- MCCovers
  batch_size = 2
  Faults = {"alloc", "get_dev", "read"}
INVARIANTS
  InOrder
  PrefetchBudget
  ResourcesOK
PROPERTIES
  ImplementsJobQueue
