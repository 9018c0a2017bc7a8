SPECIFICATION MCFairSpec
CONSTANTS
  MaxDigit = 2
  KbdDefault = 1
  SynthDefault <- MCSynthDefault
  MaxKeys = 2
  MaxCrashes = 1
  Empty = Empty
  Missing = Missing
  Unset = Unset
INVARIANTS
  IndexInBounds
  VolumeMatchesVoice
  NoSelfInflictedDeath
  GateApplied
PROPERTIES
  Converges
