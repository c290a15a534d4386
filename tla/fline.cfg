SPECIFICATION LiveSpec
CONSTANTS
  MaxLen = 2
  MaxSessions = 1
  MaxLines = 1
  MenuLines = 1
  MenuKinds = {"I turn"}
  Panels <- MCPanels
  Window = 1
  SerialKinds = {"I turn","G","F board"}
  ReplayKinds = {"F west","I turn","G"}
CHECK_DEADLOCK FALSE
INVARIANT BoardLinesParse
