SPECIFICATION Spec
CONSTANTS
  GroupCount = 2
  PerGroup <- LargerGroups
  Total <- LargerVolume
  CacheSize = 1
  TableSize = 2
  DirectPointers = 1
  Junk = 30
  Handles = {h1}
  Reserved <- TwoLeft
  MaxSize = 16
  Buffers <- ByLevels
  Positions = {2}
  ReadSizes = {}
  OpenModes <- AnyWrite
  Leftovers = {30}
INVARIANTS BlocksOwnedOnce InodesExact CountersExact
