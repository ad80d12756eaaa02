SPECIFICATION Spec
CONSTANTS
  BUFFER_SIZE = 3
  Char = {0, 1, 2}
  MaxRead = 4
PROPERTIES
  KeyQueueSpec
  KeyDroppedOnlyWhenFull
