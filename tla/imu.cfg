SPECIFICATION FairSpec
CONSTANTS
  PeriodModulus = 4
  MaxQueue = 2
  MaxLostCommands = 1
  MaxLostCargos = 1
  MaxSlow = 1
  MaxResets = 1
  MaxBadNorms = 1
  None = None
INVARIANTS TriadsAreRecent
PROPERTIES BringUpCompletes ReadyYieldsSamples
CHECK_DEADLOCK FALSE
