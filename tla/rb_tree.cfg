SPECIFICATION Spec
CONSTANTS
  N = 7
  Inputs <- MCInputs
INVARIANTS
  InsertionKeepsRules
  DrainsInOrder
  FaultNeedsCause
