CONSTANTS
  MaxAttempts = 1
SPECIFICATION Spec
INVARIANT OwnerAwaitsQuiescence
CHECK_DEADLOCK FALSE
