CONSTANTS
  Messages = {m1, m2}
  RuntimeContext = ctx
  MaxStep = 2
  MaxNesting = 2
SPECIFICATION Spec
SYMMETRY MessageSymmetry
PROPERTY LiveDriverClaims
CHECK_DEADLOCK FALSE
