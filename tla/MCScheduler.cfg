SPECIFICATION FairSpec
CONSTANTS
  NR_TASKS = 5
  DEFAULT_QUANTUM = 2
  MaxPID = 1004
INVARIANTS
  TaskInOnePlace
  IdleOnlyWhenNoProcess
  StateMatchesQueue
  ProcessPIDsUnique
  WaitBounded
PROPERTIES
  NoOvertaking
  ReadyRuns
