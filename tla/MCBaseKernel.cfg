SPECIFICATION KernelSpec
CONSTANTS
  NR_TASKS = 4
  QUANTUM = 2
  MaxPID = 1003
  MaxPending = 1
  Slot = {0, 1, 2, 3}
  NUM_PAG_KERNEL = 2
  NUM_PAG_CODE = 2
  NUM_PAG_DATA = 3
  TOTAL_FRAMES = 23
  Value = {0, 1}
  UserPages = {4}
INVARIANTS QueuesAgree NoUnblockLost ChildrenAreLive OnlyTask1Hangs PartsAgree ForksShareNoFrame
PROPERTIES IdleIsTheEnd OnlyParentWakes ForkLeavesNoTrace ReadyRuns
CHECK_DEADLOCK FALSE
