CONSTANTS
  Callers = {c1, c2}
  Ops = {"prepare", "load", "inspect", "switch", "create"}
  MaxSessions = 1
  MaxEvents = 2
  MaxUpsets = 1
  MaxFaults = 1
SPECIFICATION Spec
SYMMETRY CallerSymmetry
CHECK_DEADLOCK FALSE
INVARIANTS
  ReservedIsCurrent
  AckedIsStored
  NoStaleRead
  ClosedOnce
  OwnerPresent
  WaitersAwaited
