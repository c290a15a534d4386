SPECIFICATION GateSpec
CONSTANTS
  GateLimit = 3
  MagGateLimit = 4
  Grace = 2
  Seeded = TRUE
  PinsInOutage = TRUE
  Week = 8
  MaxClock = 8
INVARIANTS FixGateOpens
PROPERTIES ForcedAfterStreak MagForcedOnlyAdrift
CHECK_DEADLOCK FALSE
