SPECIFICATION Spec
CONSTANTS
  Peers = {"p1", "p2"}
  SlipPeers = {"p2"}
  Script <- MCScript
  MinBuffer = 8
  MaxMsgSize = 16
INVARIANTS
  ContextPerSocket
CHECK_DEADLOCK FALSE
