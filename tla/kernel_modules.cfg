SPECIFICATION KernelSpec
CONSTANTS
  Readers = {r1}
  Writers = {w1, w2}
  Main = main
  Other = other
  Sent = {0, 1, 10}
  NUMLOOP = 2
  Providers = {p1, p2}
  Consumers = {c1, c2}
  Cleaners = {k1}
  Bytes = {0, 5}
  TopIndex = 2
  Nobody = nobody
  Listers = {l1}
  Choosers = {s1, s2}
  Requests <- MCRequests
  Tables <- MCTables
  None = none
  NUM_LED = 2
  INT_MAX = 7
INVARIANTS
  ListShape
  ListingAsAsked
  QuietWhenStopped
  CounterShown
PROPERTIES
  ImplementsPool
  ImplementsStack
