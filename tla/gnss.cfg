SPECIFICATION FairSpec
CONSTANTS
  MaxLost = 2
  MaxLate = 1
  MaxRejected = 1
  MaxRestarts = 1
  MaxEpoch = 3
  MaxLine = 4
  DoNotUse = DoNotUse
INVARIANTS ReadyMeansConfigured SamplesPairOneEpoch CompleteEpochsSampled
PROPERTIES BringUpCompletes
CHECK_DEADLOCK FALSE
