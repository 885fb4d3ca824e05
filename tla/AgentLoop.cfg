CONSTANTS
  Messages = {m1, m2}
  RuntimeContext = ctx
  MaxStep = 2
  MaxNesting = 2
SPECIFICATION FairSpec
INVARIANTS TypeOK TurnBracketed NoMessageTwice DriverInvariant
PROPERTIES TurnsDoNotOverlap AbortOpensNothing CancelConverges LatchedWakeRuns
CHECK_DEADLOCK FALSE
