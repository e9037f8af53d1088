SPECIFICATION Spec
CONSTANTS
  Calls = {a, b}
  Stray = stray
  None = none
  here = here
  there = there
  h1 = h1
  h2 = h2
  t1 = t1
  Nodes = {here, there}
  LocalNodes = {here}
  Ports <- MCPorts
  NodeOf <- MCNodeOf
  MaxTroubles = 1
SYMMETRY Symmetry
INVARIANTS SessionsHoldTheirPorts LeaksAreNamed
CHECK_DEADLOCK FALSE
