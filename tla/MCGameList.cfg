SPECIFICATION Spec
CONSTANTS
  Matrix <- SmallMatrix
  X_START = 4
  Y_START = 1
  SIGHT = 3
  LIVES = 2
  NULL = NULL
PROPERTY TakenIsDeleted
CHECK_DEADLOCK FALSE
