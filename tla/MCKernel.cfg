SPECIFICATION Spec
CONSTANTS
  NR_TASKS = 4
  DEFAULT_QUANTUM = 1
  MaxPID = 1003
  NUM_PAG_KERNEL = 2
  NUM_PAG_CODE = 1
  NUM_PAG_DATA = 1
  TOTAL_PAGES = 6
  TOTAL_FRAMES = 12
  NSHM = 1
  GuardPages = {}
  Value = {0}
  UserPages = {3}
  ShmatPages = {5}
  RefSlack = 0
INVARIANTS
  LiveIsProcess
  WaitingAreResumable
PROPERTY OnlyLoneYieldGoesAstray
CHECK_DEADLOCK FALSE
