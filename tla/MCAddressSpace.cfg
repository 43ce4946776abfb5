SPECIFICATION Spec
CONSTANTS
  Fan = 2
  Top = 7
  LowerSlots = 2
  SharedSlots <- SharedPair
  Procs = {p1, p2}
  HeapSizes = {4, 15, 36}
  BootPages = 8
  MaxLoads = 2
  Programs <- SomePrograms
  ArgumentPages = {1}
  StackPages = 3
  SpareBuffers = 1
  IstStacks <- Ists
  FrameBuffers <- Screens
  DIRECT_MAPPING_OFFSET <- Offset
SYMMETRY Symmetry
INVARIANTS
  MappedToOwner
  FramesOwnedOnce
  KernelShared
  VerifyExact
CHECK_DEADLOCK FALSE
