SPECIFICATION Spec
CONSTANTS
  GroupCount = 2
  PerGroup <- GroupSize
  Total <- VolumeSize
  CacheSize = 1
  Names = {"a", "b", "x"}
  NameUnits <- ShortAndLong
  TooLong = {"x"}
  BlockUnits = 13
  FreeBlocks = 2
  Paths <- SomePaths
  RootLinks = 2
INVARIANTS Tiled InodesAccounted RootCacheSound NamesFollow
