SPECIFICATION TestSpec
CONSTANTS
  Threads <- MCThreads
  MAX_SEMAPHORE = 1
  TARGET_SEMAPHORE = 0
  MAX_PRIORITY = 100
  UINT_MAX = 4
  OSPrio <- MCOSPrio
  StackInts = {0}
  NoThread = NoThread
  MAX_THREAD = 3
  MAX_LOOP = 2
  priority <- MCpriority
  Ids = {0}
  StartValues = {0, 1}
  Modes = {0, 1, 2}
  Priorities = {30, 60}
INVARIANTS
  ExpectedResult
PROPERTIES
  Terminates
  KeepsDiscipline
  WakeOrder
