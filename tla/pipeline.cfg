SPECIFICATION FairSpec
CONSTANTS
  ImuQueueLen = 2
  GnssQueueLen = 2
  TelemetryInterval = 1
  RudderInterval = 1
  SeqModulus = 3
  MaxClock = 3
  MaxImu = 3
  MaxGnss = 3
INVARIANTS QueuesInOrder PublishedCoversQueuedFixes RudderTickConsistent TelemetryBudget
PROPERTIES RudderNeverRegresses QueuedFixApplied
CHECK_DEADLOCK FALSE
