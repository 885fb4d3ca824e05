CONSTANTS
  MaxAttempts = 2
SPECIFICATION FairSpec
INVARIANTS NothingLeftBehind LiveIsRegistered UnloadIsFinal
PROPERTY UnloadEnds
CHECK_DEADLOCK FALSE
