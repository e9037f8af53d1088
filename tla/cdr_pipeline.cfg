CONSTANTS
  c1 = c1  c2 = c2
  Calls <- MCCalls
  Poison <- MCPoison
  QueueMax = 1
  BatchMax = 1
  Attempts = 2
  InboxMax = 1
  MaxDeliver = 2
  MaxFaults = 2
SPECIFICATION FairSpec
INVARIANTS TypeOK LossBounded
PROPERTIES SpoolKeeps Delivered
CHECK_DEADLOCK FALSE
