SPECIFICATION Spec
CONSTANTS
  a = a
  b = b
  Name <- AB
  EmptyName = emptyName
  Znode <- Chain
  ApiPath <- Chain
  MaxZxid = 3
  MaxFaults = 0
  MaxDrops = 0
  WriterOps = {"create", "delete", "setData"}
  MaxCalls = 2
  MayCall <- AddThenAny
  RacyReads = TRUE
  Patient = {}
INVARIANTS
  TypeOK
  PromiseCompletedOnce
  OnlyRequestedSubtrees
  StoppedMeansEmpty
  KeptMeansWatched
PROPERTIES
  KeepsContract
CHECK_DEADLOCK FALSE
