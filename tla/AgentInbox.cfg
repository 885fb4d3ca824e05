SPECIFICATION Spec
CONSTANTS
  m1 = m1
  m2 = m2
  Messages <- MCMessages
  MaxEvents = 5
  Starts <- MCStarts
  Counts <- MCCounts
  Inserts <- MCInserts
INVARIANTS
  ReplayIsLive
  WorkAccounted
  PendingOnce
SYMMETRY Symmetry
