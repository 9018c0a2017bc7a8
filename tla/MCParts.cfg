SPECIFICATION PartsSpec
CONSTANTS
  DELAY_HISTORY_LENGTH = 60
  delay_repeats = 3
  Unit = 4
  Delta = 45
  Significand = 16
  Ulps <- MCUlps
  MaxUlp = 16
  Never = Never
  DeviceLists <- MCDeviceLists
  Indices <- MCIndices
  Codes <- MCCodes
  Keys <- MCKeys
  Configs = {"weak", "strong"}
  Default = "weak"
  MaxLevel = 4
  Ramp = 4
  MaxMessages = 2
  HistoryLength = 2
  RecentLength = 1
  Duration = 2
  Samples <- MCSamples
  BlockSize = 2
  TenSeconds = 3
INVARIANTS
  EchoDelayed
  NthDevice
  Released
  NumbersAsTyped
  PageAndNodeAgree
  SetupHeals
PROPERTIES
  GentleOnset
  Recovers
