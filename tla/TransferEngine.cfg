SPECIFICATION Spec
CONSTANTS
  Chunk = {a, b}
  Client = {k1, k2}
  Worker = {w1, w2}
  ChannelCapacity = 1
  Tier <- MCTier
  Backend <- MCBackend
  ClientTier <- MCRam
  Route <- MCMove
  Large <- MCSmall
  Job <- MCJob
  Capacity = 1
  MaxRetries = 0
  DebugAssertions = FALSE
  NoJob = NoJob
SYMMETRY MCSymmetry
INVARIANTS
  TypeOK
  InFlightIsMigrating
  OneMigrationInFlight
PROPERTIES
  ReportsSettleMigrations
  ImplementsLifecycle
CHECK_DEADLOCK FALSE
