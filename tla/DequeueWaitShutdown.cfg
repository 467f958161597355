SPECIFICATION DequeueSpec
CONSTANTS
  Job <- MCJob
  Capacity = 2
  Producer = {p1}
  Consumer = {c1}
PROPERTY ShutdownEndsDequeues
CHECK_DEADLOCK FALSE
