SPECIFICATION Spec
CONSTANTS
  f1 = f1
  a = a
  NUL = NUL
  Junk = Junk
  Files = {f1}
  Texts <- OneText
  LAST = 5
  Offsets = {0, 1, 2}
  Sizes = {1, 2}
  Policies = {0, 1, 2}
  TruncateTo = {1}
  MAX_LIST_SIZE = 2
INVARIANTS
  CountIsLength
  NoUseAfterFree
PROPERTIES
  OneCopyPerChunk
