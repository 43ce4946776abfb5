SPECIFICATION Spec
CONSTANTS
  GroupCount = 2
  PerGroup <- GroupSize
  Total <- VolumeSize
  CacheSize = 1
  TableSize = 2
  DirectPointers = 1
  Junk = 20
  Handles = {h1}
  Reserved <- OneLeft
  MaxSize = 10
  Buffers <- Stamped
  Positions = {2, 6}
  ReadSizes = {3}
  OpenModes <- ReadWrite
  Leftovers = {20}
INVARIANTS ClosedIsOnDisk HandleInStep
PROPERTIES ReadsBack
