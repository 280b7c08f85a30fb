SPECIFICATION FairSpec
CONSTANTS
  a = a
  b = b
  Name <- AB
  EmptyName = emptyName
  Znode <- OnlyA
  ApiPath <- OnlyA
  MaxZxid = 3
  MaxFaults = 0
  MaxDrops = 0
  WriterOps = {"setData"}
  MaxCalls = 1
  MayCall <- AddsOnly
  RacyReads = FALSE
  Patient = {}
PROPERTIES
  FollowsZooKeeper
CHECK_DEADLOCK FALSE
