SPECIFICATION ApisSpec
CONSTANTS
  a = a
  c1 = c1
  c2 = c2
  Name <- OnlyName
  EmptyName = emptyName
  Znode <- OnlyA
  ApiPath <- OnlyA
  MaxZxid = 2
  MaxFaults = 0
  MaxDrops = 0
  WriterOps = {"setData"}
  MaxCalls = 3
  MayCall <- AnyCall
  RacyReads = FALSE
  Patient = {}
  Client <- Clients
  MaxAsks = 4
  MayAsk <- RemoveBetweenReads
  MaxJavaCalls = 1
INVARIANTS
  ApisTypeOK
  AnswersFindTheirSender
  ReadsNeverGoBack
  StopEndsReads
  RemovalsAreAnswered
PROPERTIES
  ReadsAreAnswered
CHECK_DEADLOCK FALSE
