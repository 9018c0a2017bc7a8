SPECIFICATION PartsSpec
CONSTANTS
  b1 = b1
  b2 = b2
  b3 = b3
  m1 = m1
  m2 = m2
  Packets <- MCPackets
  Slack = 1
  MaxTime = 4
  MaxArrivals = 0
  MaxNested = 0
  MaxThreads = 1
  Paths <- MCPaths
  Matched <- MCMatched
  Specs <- MCSpecs
  Messages <- MCMessages
  MaxMethods = 3
  MaxMessages = 1
  Names = {"a", "b"}
  Fds = {1, 2, 3, 4, 5}
  MaxTries = 2
  MaxNews = 3
  Descriptors = {1}
  MaxConns = 2
  MaxCalls = 3
  Num = 2
  Tcp = {1}
  Unit = 2
  WaitSlack = 2
  Longest = 2
  Timeouts = {0, 1, 3}
  WaitTime = 6
  WaitArrivals = 2
  MaxClients = 2
  W = 4
  Speed = 1
  Files <- MCFiles
  MaxValues = 3
  FileStart = 3
  Micro = 2
  FileTime = 7
CHECK_DEADLOCK FALSE
SYMMETRY Symmetric
INVARIANTS
  MethodsExact
  SocketsAccounted
  Delivered
  WaitTells
  FileAsWritten
  CountsExact
