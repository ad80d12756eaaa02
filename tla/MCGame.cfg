SPECIFICATION Spec
CONSTANTS
  Matrix <- SmallMatrix
  X_START = 4
  Y_START = 1
  SIGHT = 3
  LIVES = 2
  NULL = NULL
INVARIANTS TypeOK PointsAreEaten
PROPERTIES NobodyPasses PhantomsGetCloser SeenIsCaught
CHECK_DEADLOCK FALSE
