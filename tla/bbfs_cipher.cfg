SPECIFICATION Spec
CONSTANTS
  CHAR_BIT = 8
  Additions = {0, 300}
  Shifts = {0, 3, 11}
INVARIANTS
  ReadBack
  RotatesBits
