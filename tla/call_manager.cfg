CONSTANTS
  g1 = g1  g2 = g2  Redirect = Redirect  NoGateway = NoGateway
  Gateways <- MCGateways
  Tables <- MCTables
  Pools <- MCPools
  Groups <- MCGroups
  MaxRoutes = 3
  MaxLate = 1
SPECIFICATION Spec
INVARIANTS TypeOK EndedOnce PinnedOrRedirected NoRouteTwice
CHECK_DEADLOCK FALSE
