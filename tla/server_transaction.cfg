SPECIFICATION FairServerSpec
CONSTANTS
  ChanMax = 2
  Resends = 2
  MaxLosses = 2
  MaxCopies = 2
INVARIANTS OneCall
PROPERTY Answered
CHECK_DEADLOCK FALSE
