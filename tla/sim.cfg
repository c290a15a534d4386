SPECIFICATION SimSpec
CONSTANTS
  SimConfigs <- MCSimConfigs
  MaxSlow = 1
  Stall = 5
  MaxLen = 2
CHECK_DEADLOCK FALSE
INVARIANTS
  ReplayFeedsFilter
  PaceNeverDrifts
  OpenLoopTracksTruth
  SimTunesWhatShips
  MountCancels
  MagErrorIsOnlyLag
