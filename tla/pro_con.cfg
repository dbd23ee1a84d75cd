SPECIFICATION Spec
CONSTANTS
  p1 = p1
  p2 = p2
  c1 = c1
  c2 = c2
  Producers = {p1, p2}
  Consumers = {c1, c2}
  LOOPS = 3
  N = 2
INVARIANTS
  InBounds
  ItemsConserved
PROPERTIES
  Terminates
