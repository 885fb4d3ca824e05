SPECIFICATION Spec
CONSTANTS
  c1 = c1
  c2 = c2
  Calls <- MCCalls
  MaxTurns = 2
  MaxSteps = 2
  MaxCrashes = 2
INVARIANTS
  RepairResumes
  LogValid
  RepairComplete
  RanNotDenied
  RequestsKept
CHECK_DEADLOCK FALSE
SYMMETRY Symmetry
