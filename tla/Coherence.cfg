SPECIFICATION FairSpec
CONSTANTS
  a = a
  b = b
  Name <- AB
  EmptyName = emptyName
  Znode <- Fork
  ApiPath <- OnlyA
  MaxZxid = 4
  MaxFaults = 0
  MaxDrops = 0
  WriterOps = {"create", "delete", "setData"}
  MaxCalls = 3
  MayCall <- AddRemoveAdd
  RacyReads = FALSE
  Patient = {"writers"}
INVARIANTS
  QuietMeansCoherent
  EntriesHaveWatches
PROPERTIES
  FollowsZooKeeper
CHECK_DEADLOCK FALSE
