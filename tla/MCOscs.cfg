SPECIFICATION FairSpec
CONSTANTS
  HISTORY_LENGTH = 12
  DURATION = 3
  N_OSCS_PER_LAYER = 2
  Unit = 2
  Voices <- MCVoices
  Recipe <- MCRecipe
  Raw = {"raw"}
  MaxSpeed = 2
  RangeHigh <- MCRangeHigh
  RangeLow <- MCRangeLow
  Attack <- MCAttack
  MaxAmp = 2
  MaxGap = 3
INVARIANTS
  ReadsInHistory
  Staggered
PROPERTIES
  StealsOnlyReleased
  NoteEnds
