SPECIFICATION Spec
CONSTANTS
  m1 = m1
  m2 = m2
  m3 = m3
  Monkeys = {m1, m2, m3}
  Balls = {0, 1}
  MAX_MONKEYS = 2
  TARGET_TRAINING = 2
  Nobody = Nobody
INVARIANTS
  CheckNeverWaits
  NothingIsWrong
  OneMonkeyPerBowl
PROPERTIES
  TrainingEnds
