SPECIFICATION Spec
CONSTANTS
  Writers = {fusion, gnss, persist}
  NoWriter = NoWriter
  HasMutex = TRUE
  MaxParts = 2
  MaxLines = 2
  MaxToggles = 2
SYMMETRY MCSymmetry
INVARIANTS LinesReachWireWhole CdcNeverSplices
CHECK_DEADLOCK FALSE
