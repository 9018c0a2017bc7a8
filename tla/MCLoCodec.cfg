SPECIFICATION CodecSpec
CONSTANTS
  Values <- MCValues
  TypeStrings = {}
  Destinations = {}
  Noise = {}
  MaxTypes = 1
  MaxDamage = 0
  Alphabet <- NoPieces
  Meaning <- NoPieces
  Letters = {}
  MaxPieces = 0
  MaxLength = 0
  Peers = {}
  SlipPeers = {}
  Script <- NoPieces
  MinBuffer = 64
  MaxMsgSize = 32768
INVARIANTS
  DataFits
