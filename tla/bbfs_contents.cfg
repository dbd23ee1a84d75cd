SPECIFICATION HSpec
CONSTANTS
  f1 = f1
  f2 = f2
  f3 = f3
  b = b
  a = a
  NUL = NUL
  Junk = Junk
  Files = {f1, f2, f3}
  Texts <- TwoTexts
  LAST = 3
  Offsets = {2}
  Sizes = {2}
  Policies = {0, 1, 2}
  TruncateTo = {2}
  MAX_LIST_SIZE = 2
INVARIANTS
  ReadsLatest
PROPERTIES
  ReadReturnsView
  EvictsLeastRecent
SYMMETRY Swaps
VIEW Lasting
