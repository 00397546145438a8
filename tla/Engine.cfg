SPECIFICATION Spec
CONSTANTS
  r1 = r1
  r2 = r2
  w1 = w1
  w2 = w2
  w3 = w3
  Ios <- MCIos
  DirOf <- MCDirOf
  IsAligned <- MCIsAligned
  Where <- MCWhere
  NrBytes = 2
  DeviceEnd = 14
  IntWidth = 8
  Cbs = {1, 2}
  MAX_EVENT = 2
  Kinds = {"async", "sync", "test"}
  Faults = {"submit", "aio", "rw"}
INVARIANTS
  TypeOK
  CbsOK
  ResultTruth
PROPERTIES
  ImplementsIoEngine
