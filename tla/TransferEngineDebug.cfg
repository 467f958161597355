SPECIFICATION Spec
CONSTANTS
  Chunk = {a}
  Client = {k1}
  Worker = {w1}
  ChannelCapacity = 1
  Tier <- MCTier
  Backend <- MCBackend
  ClientTier <- MCRam
  Route <- MCRoute
  Large <- MCSmall
  Job <- MCJob
  Capacity = 1
  MaxRetries = 1
  DebugAssertions = TRUE
  NoJob = NoJob
INVARIANTS
  NeverPoisoned
CHECK_DEADLOCK FALSE
