SPECIFICATION FairSpec
CONSTANTS
  a = a
  b = b
  Name <- AB
  EmptyName = emptyName
  Znode <- Chain
  ApiPath <- OnlyA
  MaxZxid = 2
  MaxFaults = 1
  MaxDrops = 1
  WriterOps = {"create", "delete", "setData"}
  MaxCalls = 2
  MayCall <- AddThenAny
  RacyReads = TRUE
  Patient = {}
INVARIANTS
  KeptMeansWatched
PROPERTIES
  ComesToRest
  StopEnds
  CachedDataNeverRegresses
  AddsAreAnswered
CHECK_DEADLOCK FALSE
