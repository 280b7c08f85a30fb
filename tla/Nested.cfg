SPECIFICATION Spec
CONSTANTS
  a = a
  b = b
  Name <- AB
  EmptyName = emptyName
  Znode <- Fork
  ApiPath <- Fork
  MaxZxid = 5
  MaxFaults = 0
  MaxDrops = 0
  WriterOps = {"create", "delete", "setData"}
  MaxCalls = 2
  MayCall <- AddsOnly
  RacyReads = FALSE
  Patient = {"callers", "writers"}
INVARIANTS
  QuietMeansCoherent
CHECK_DEADLOCK FALSE
