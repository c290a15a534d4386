SPECIFICATION OffsetFairSpec
CONSTANTS
  Limit = 1
  Change = 1
  MinInterval = 2
  StaticSeed = 0
  PriorIsLow = TRUE
  Garbage = Garbage
  NoOffset = NoOffset
  MaxOffset = 2
  MaxAge = 1
INVARIANTS PolicyMatchesFlash
PROPERTIES SeedIsSane ErasesAreSpaced SettledOffsetIsStored
CHECK_DEADLOCK FALSE
