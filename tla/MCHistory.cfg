SPECIFICATION PartsSpec
CONSTANTS
  HISTORY_LENGTH = 4
  RECENT_LENGTH = 2
  RecomputePeriod = 3
  Samples = {0, 1, 2}
  MaxSquare = 4
  Rounding <- MCRounding
  MaxRounding = 1
  GateThreshold = 1
  RecentThreshold = 13
  RaceLength = 2
  RacePeriod = 3
  RaceSamples <- MCRaceSamples
  RaceSquare = 1
  RaceThreshold = 1
  V_RAW = "raw"
  V_RAWDIST = "rawdist"
  Chain <- MCChain
  Plain = Plain
  Unit = 1
  RangeHigh = 1
  RangeLow = 3
  InitialPeriod = 2
  Far = 3
  Wild <- MCWild
INVARIANTS
  DriftBounded
  RecentBounded
  RaceSound
  CleanStart
  GainsFit
PROPERTIES
  OnsetOpensGate
  ImplementsWindow
  SilenceCloses
