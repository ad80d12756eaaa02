SPECIFICATION Spec
CONSTANTS
  NR_TASKS = 3
  NUM_PAG_KERNEL = 2
  NUM_PAG_CODE = 1
  NUM_PAG_DATA = 1
  TOTAL_PAGES = 6
  TOTAL_FRAMES = 12
  NSHM = 2
  GuardPages = {}
  Value = {0}
  UserPages = {}
  ShmatPages = {0, 3}
  RefSlack = 1
INVARIANTS
  BootFramesKept
  ReferencesAreMapped
  KernelMapped
CHECK_DEADLOCK FALSE
