CONSTANTS
  c1 = c1  c2 = c2  n1 = n1  n2 = n2  g1 = g1  g2 = g2  e1 = e1  e2 = e2
  NoNumber = NoNumber
  NoLease = NoLease
  Redirected = Redirected
  Calls <- MCCalls
  Numbers <- MCNumbers
  Gateways <- MCGateways
  Edges <- MCEdges
  EdgeOf <- MCEdgeOf
  NumberMax <- MCNumberMax
  TrunkMax <- MCTrunkMax
  Plans <- MCPlans
  TTL = 2
  MaxTime = 4
  MaxHangups = 0
SPECIFICATION LSpec
INVARIANTS Covered WithinLimits NothingStranded
CHECK_DEADLOCK FALSE
