CONSTANTS
  c1 = c1  c2 = c2
  Calls <- MCCalls
  LastRoute = 2
  UserMax = 1
  TenantMax = 1
  MaxEnders = 3
  MaxAtOnce = 2
SPECIFICATION Spec
INVARIANTS CountsExact NobodyLockedOut OnlyBurstsExceed
SYMMETRY Symmetry
CHECK_DEADLOCK FALSE
