CONSTANTS
  c1 = c1  c2 = c2  c3 = c3  n1 = n1  n2 = n2  g1 = g1  g2 = g2
  NoNumber = NoNumber
  NoLease = NoLease
  Calls <- MCCalls
  Numbers <- MCNumbers
  Gateways <- MCGateways
  NumberMax <- MCNumberMax
  TrunkMax <- MCTrunkMax
  TTL = 2
  MaxTime = 5
SPECIFICATION Spec
INVARIANTS TypeOK KeysAgree CapacityRespected ExpiredBlocksNobody
PROPERTIES ImplementsCapacityLease NeverShortened
SYMMETRY Symmetry
