SPECIFICATION Spec
CONSTANTS
  NR_TASKS = 3
  NUM_PAG_KERNEL = 2
  NUM_PAG_CODE = 1
  NUM_PAG_DATA = 1
  TOTAL_PAGES = 6
  TOTAL_FRAMES = 13
  NSHM = 1
  GuardPages = {}
  Value = {0, 1}
  UserPages = {3}
  ShmatPages = {}
  RefSlack = 0
INVARIANT FreeFramesUnmapped
CHECK_DEADLOCK FALSE
