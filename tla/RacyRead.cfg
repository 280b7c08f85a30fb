SPECIFICATION Spec
CONSTANTS
  a = a
  b = b
  Name <- AB
  EmptyName = emptyName
  Znode <- Chain
  ApiPath <- OnlyA
  MaxZxid = 4
  MaxFaults = 0
  MaxDrops = 0
  WriterOps = {"create", "delete", "setData"}
  MaxCalls = 2
  MayCall <- AddsOnly
  RacyReads = TRUE
  Patient = {"callers", "writers"}
INVARIANTS
  QuietMeansCoherent
CHECK_DEADLOCK FALSE
