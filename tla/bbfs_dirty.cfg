SPECIFICATION Spec
CONSTANTS
  f1 = f1
  a = a
  NUL = NUL
  Junk = Junk
  Files = {f1}
  Texts <- OneText
  LAST = 5
  Offsets = {0, 2}
  Sizes = {2}
  Policies = {2}
  TruncateTo = {}
  MAX_LIST_SIZE = 2
INVARIANTS
  DirtyWhenChanged
