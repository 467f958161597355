SPECIFICATION FairSpec
CONSTANTS
  Chunk = {a, b}
  Client = {k1}
  Worker = {w1}
  ChannelCapacity = 1
  Tier <- MCTier
  Backend <- MCBackend
  ClientTier <- MCRam
  Route <- MCAnyRoute
  Large = {TRUE, FALSE}
  Job <- MCJob
  Capacity = 1
  MaxRetries = 0
  DebugAssertions = TRUE
  NoJob = NoJob
INVARIANTS
  InFlightIsMigrating
PROPERTIES
  ShutdownStopsEveryTask
CHECK_DEADLOCK FALSE
