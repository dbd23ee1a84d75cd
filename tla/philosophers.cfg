SPECIFICATION Spec
CONSTANTS
  MAX_PHILOSOPHER_NUM = 5
INVARIANTS
  ForksExclusive
  NoMissedForks
PROPERTIES
  ForksArrive
