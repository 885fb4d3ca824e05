SPECIFICATION FairSpec
CONSTANTS
  j1 = j1
  j2 = j2
  w1 = w1
  w2 = w2
  a1 = a1
  Unowned = unowned
  Jobs <- MCJobs
  Waiters <- MCWaiters
  Agents <- MCAgents
  Limit = 1
INVARIANTS NotToldTwice NotLost
PROPERTY TeardownEnds
CHECK_DEADLOCK FALSE
