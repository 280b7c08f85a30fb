SPECIFICATION Spec
CONSTANTS
  a = a
  b = b
  Name <- AB
  EmptyName = emptyName
  Znode <- Chain
  ApiPath <- OnlyA
  MaxZxid = 3
  MaxFaults = 0
  MaxDrops = 0
  WriterOps = {"setData"}
  MaxCalls = 2
  MayCall <- AddThenAny
  RacyReads = FALSE
  Patient = {"callers", "writers"}
INVARIANTS
  RemovedStaysRemoved
CHECK_DEADLOCK FALSE
