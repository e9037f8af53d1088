CONSTANTS
  c1 = c1  c2 = c2  k1 = k1
  Calls <- MCCalls
  Keys = {k1}
  Opening = 1
  Limits = {0, 1}
  CreditOf <- MCCreditOf
  Pulse = 2
  Lag = 1
  Missing = Missing
  FreeMax = 1
  MaxEvents = 2
SPECIFICATION Spec
INVARIANTS BooksBalance CacheExact BoughtIsPaid
SYMMETRY Symmetry
CHECK_DEADLOCK FALSE
