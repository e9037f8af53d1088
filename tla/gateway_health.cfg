CONSTANTS
  Calls = {c1, c2}
  NoCall = NoCall
  FailureThreshold = 2
  CloseThreshold = 2
  MinSamples = 3
  MinPercent = 30
  MaxGoods = 3
  MaxBads = 4
SPECIFICATION FairHealthSpec
INVARIANTS HealthTypeOK CircuitMatchesFailures SlotIsAccounted
PROPERTY RecoversUnlessLeaked
