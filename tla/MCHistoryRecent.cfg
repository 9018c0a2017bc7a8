SPECIFICATION PartsSpec
CONSTANTS
  HISTORY_LENGTH = 4
  RECENT_LENGTH = 2
  RecomputePeriod = 3
  Samples = {0, 1}
  MaxSquare = 1
  Rounding <- MCExact
  MaxRounding = 0
  GateThreshold = 1
  RecentThreshold = 2
  RaceLength = 2
  RacePeriod = 3
  RaceSamples <- MCRaceSamples
  RaceSquare = 1
  RaceThreshold = 1
  V_RAW = "raw"
  V_RAWDIST = "rawdist"
  Chain <- MCChain
  Plain = Plain
  Unit = 1
  RangeHigh = 1
  RangeLow = 3
  InitialPeriod = 2
  Far = 3
  Wild <- MCWild
INVARIANTS
  RecentExact
