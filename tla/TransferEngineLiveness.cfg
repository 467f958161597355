SPECIFICATION FairSpec
CONSTANTS
  Chunk = {a, b}
  Client = {k1}
  Worker = {w1}
  ChannelCapacity = 1
  Tier <- MCTier
  Backend <- MCBackend
  ClientTier <- MCRam
  Route <- MCRoute
  Large <- MCSmall
  Job <- MCJob
  Capacity = 1
  MaxRetries = 1
  DebugAssertions = FALSE
  NoJob = NoJob
PROPERTIES
  DispatchedMigrationSettles
  
  ShutdownStopsEveryTask
CHECK_DEADLOCK FALSE
