SPECIFICATION ServerSpec
CONSTANTS
  Packets <- MCPackets
  Slack = 1
  MaxTime = 4
  MaxArrivals = 2
  MaxNested = 1
  MaxThreads = 3
  Values <- MCValues
  TypeStrings <- MCTypeStrings
  Destinations <- MCDestinations
  Noise = {0, 4, 98, 105}
  MaxTypes = 2
  MaxDamage = 1
  Alphabet <- MCAlphabet
  Meaning <- MCMeaning
  Letters <- MCLetters
  MaxPieces = 3
  Peers = {"p1", "p2"}
  SlipPeers = {"p2"}
  Script <- MCScript
  MinBuffer = 8
  MaxMsgSize = 16
  MaxLength = 3
INVARIANTS
  InOrder
  NothingLost
  Framed
  OneThread
  MessageFits
  RoundTrips
  GlobMatches
PROPERTIES
  Handover
  Served
CHECK_DEADLOCK FALSE
