CONSTANTS
  Callers = {c1, c2}
  Ops = {"prepare", "switch"}
  MaxSessions = 1
  MaxEvents = 2
  MaxUpsets = 0
  MaxFaults = 0
SPECIFICATION Spec
SYMMETRY CallerSymmetry
CHECK_DEADLOCK FALSE
INVARIANT FlushedIsStored
