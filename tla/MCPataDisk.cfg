SPECIFICATION Spec
CONSTANTS
  Sectors = 3
  Words = 2
  TableOf <- Table
  FirstDisk <- Boot
  Handles = {h1, h2}
  OpenModes <- Modes
  Buffers <- Writes
  ReadSizes = {3}
  Seeks = {1, 3}
  PataIndex = 1
  Failing = {2}
  MaxGeneration = 1
INVARIANTS HooksExact
PROPERTIES PartitionKept ReadsDisk
SYMMETRY HandleSymmetry
VIEW StateView
CHECK_DEADLOCK FALSE
