SPECIFICATION SerialSpec
CONSTANTS
  t1 = t1
  t2 = t2
  t3 = t3
  Threads = {t1, t2, t3}
  MAX_SEMAPHORE = 1
  MAX_PRIORITY = 2
  UINT_MAX = 2
  OSPrio <- MCOSPrio
  StackInts = {7}
  NoThread = NoThread
  Ids <- MCIds
  StartValues <- MCStartValues
  Modes = {0, 1, 2, 3}
  Priorities <- MCPriorities
SYMMETRY MCSymmetry
INVARIANTS
  SerialInv
  QueueInv
  NoIdlePermit
  UserPriorityDefined
  NoLostWakeUp
PROPERTIES
  OopsOnlyUninitialised
  ImplementsCounting
CHECK_DEADLOCK FALSE
