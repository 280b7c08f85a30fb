SPECIFICATION ApisSpec
CONSTANTS
  a = a
  c1 = c1
  c2 = c2
  Name <- OnlyName
  EmptyName = emptyName
  Znode <- OnlyA
  ApiPath <- OnlyA
  MaxZxid = 1
  MaxFaults = 0
  MaxDrops = 0
  WriterOps = {"setData"}
  MaxCalls = 3
  MayCall <- AnyCall
  RacyReads = FALSE
  Patient = {}
  Client <- Clients
  MaxAsks = 3
  MayAsk <- AddsAndRemoves
  MaxJavaCalls = 0
INVARIANTS
  EveryMessageIsAnswered
CHECK_DEADLOCK FALSE
