SPECIFICATION RingSpec
CONSTANTS
  Size = 4
  MaxChunk = 3
  MaxBytes = 10
INVARIANTS DumpIsLatest PollIsIntact NothingMissed RepeatsOnlyAfterRace
CHECK_DEADLOCK FALSE
