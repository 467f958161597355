SPECIFICATION AutoSpec
CONSTANTS
  Chunk = {a, b}
  Client = {k1}
  Worker = {w1}
  ChannelCapacity = 1
  Tier <- MCTier
  Backend <- MCTier
  ClientTier <- MCRam
  Route <- MCMove
  Large <- MCSmall
  Job <- MCJob
  Capacity = 1
  MaxRetries = 0
  DebugAssertions = FALSE
  NoJob = NoJob
  RamTier = "Ram"
  AutoTarget = "Disk"
  MaxConcurrent = 1
  MaxPerCycle = 2
SYMMETRY MCSymmetry
INVARIANTS
  AutoType
  
  
CHECK_DEADLOCK FALSE
