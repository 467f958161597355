SPECIFICATION AutoSpec
CONSTANTS
  Chunk = {a}
  Client = {k1}
  Worker = {w1}
  ChannelCapacity = 1
  Tier <- MCTier
  Backend <- MCRam
  ClientTier <- MCRam
  Route <- MCMove
  Large <- MCSmall
  Job <- MCJob
  Capacity = 1
  MaxRetries = 0
  DebugAssertions = FALSE
  NoJob = NoJob
  RamTier = "Ram"
  AutoTarget = "Disk"
  MaxConcurrent = 1
  MaxPerCycle = 2
INVARIANTS
  ReportsAreOfMigratingChunks
CHECK_DEADLOCK FALSE
