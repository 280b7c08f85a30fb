SPECIFICATION Spec
CONSTANTS
  a = a
  b = b
  Name <- AB
  EmptyName = emptyName
  Znode <- OnlyA
  ApiPath <- OnlyA
  MaxZxid = 4
  MaxFaults = 0
  MaxDrops = 0
  WriterOps = {"create", "delete", "setData"}
  MaxCalls = 2
  MayCall <- AddsOnly
  RacyReads = FALSE
  Patient = {"callers", "writers"}
INVARIANTS
  RequestedIsMirrored
CHECK_DEADLOCK FALSE
