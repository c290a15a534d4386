SPECIFICATION LiveSpec
CONSTANTS
  MaxLen = 2
  MaxSessions = 2
  MaxLines = 3
  MenuLines = 2
  MenuKinds = {"I turn"}
  Panels <- MCPanels
  Window = 1
  SerialKinds = {"I turn","G","F board"}
  ReplayKinds = {"F west","I turn","G"}
CHECK_DEADLOCK FALSE
INVARIANTS
  CaptureHoldsTheStream
  OpenLoopIsAnchorPlusTurn
PROPERTIES
  BannerTellsFailure
  ViewSettles
  ViewsShowTheLog
