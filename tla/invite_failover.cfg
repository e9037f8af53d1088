CONSTANTS
  LastRoute = 2
  MaxQueue = 2
  MaxInFlight = 2
SPECIFICATION Spec
INVARIANT FailoverSendsInvite
CHECK_DEADLOCK FALSE
