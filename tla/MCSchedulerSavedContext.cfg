SPECIFICATION Spec
CONSTANTS
  MaxPid = 1
  Steps = 2
  MaxUserPages = 2
  MaxKernelPages = 3
  Buffers = 1
  Calls <- AllCalls
PROPERTIES
  SavedContext
CHECK_DEADLOCK FALSE
