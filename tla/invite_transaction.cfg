CONSTANTS
  LastRoute = 2
  MaxQueue = 2
  MaxInFlight = 2
SPECIFICATION Spec
INVARIANTS OneLateCopy FirstInviteWatched AnswerEndsRunner
PROPERTIES AnsweredStays NoCopyAfterResponse
CHECK_DEADLOCK FALSE
