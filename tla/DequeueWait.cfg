SPECIFICATION DequeueSpec
CONSTANTS
  Job <- MCJob
  Capacity = 2
  Producer = {p1, p2}
  Consumer = {c1}
INVARIANTS
  DequeueType
  SleepersAreNotified
PROPERTIES
  NoJobSleptOn
  DrainsAfterShutdown
CHECK_DEADLOCK FALSE
