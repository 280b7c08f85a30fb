SPECIFICATION Spec
CONSTANTS
  a = a
  b = b
  Name <- AB
  EmptyName = emptyName
  Znode <- FromRoot
  ApiPath <- FromRoot
  MaxZxid = 3
  MaxFaults = 0
  MaxDrops = 0
  WriterOps = {"create", "delete", "setData"}
  MaxCalls = 1
  MayCall <- AddsOnly
  RacyReads = FALSE
  Patient = {"callers", "writers"}
INVARIANTS
  QuietMeansCoherent
CHECK_DEADLOCK FALSE
