SPECIFICATION QueueSpec
CONSTANTS
  Job <- MCJob
  Capacity = 4
INVARIANTS
  QueueType
  DepthIsLength
  UrgentFirst
 
CHECK_DEADLOCK FALSE
