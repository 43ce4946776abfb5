SPECIFICATION Spec
CONSTANTS
  MaxPid = 2
  Steps = 1
  MaxUserPages = 1
  MaxKernelPages = 2
  Buffers = 1
  Calls <- SomeCalls
INVARIANTS QueuedOnce RunnableIntact DeadReleased SpinFree SourcesTrackMode OwnBases
PROPERTIES SyscallContext FairTurn
CHECK_DEADLOCK FALSE
