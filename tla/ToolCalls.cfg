CONSTANTS
  N = 3
  MaxParallel = 2
SPECIFICATION FairSpec
INVARIANTS ModelOrder EveryCallAnswered FailureDrains ExclusiveAlone
PROPERTIES AbortStartsNothing Terminates
CHECK_DEADLOCK FALSE
