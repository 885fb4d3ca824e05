CONSTANTS
  MaxEvents = 4
  MaxSeed = 2
  MaxFlushes = 2
  MaxCrashes = 1
SPECIFICATION FairSpec
INVARIANTS NothingLost WorkHasOwner
PROPERTIES ImplementsDurableLog BarrierSettles EventuallyStored
CHECK_DEADLOCK FALSE
