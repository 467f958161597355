SPECIFICATION Spec
CONSTANTS
  Chunk = {a, b}
  Client = {k1, k2}
  Worker = {w1}
  ChannelCapacity = 1
  Tier <- MCTier
  Backend <- MCBackend
  ClientTier <- MCRam
  Route <- MCRoute
  Large <- MCSmall
  Job <- MCJob
  Capacity = 1
  MaxRetries = 1
  DebugAssertions = FALSE
  NoJob = NoJob
INVARIANTS
  MigratingIsMoving
CHECK_DEADLOCK FALSE
