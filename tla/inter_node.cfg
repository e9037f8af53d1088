SPECIFICATION FairSpec
CONSTANTS
  ringing = ringing
  answer = answer
  bye = bye
  Msgs = {ringing, answer, bye}
  Responses = {ringing, answer}
  Provisional = {ringing}
  MaxRetries = 1
  TtlTries = 2
  QueueMax = 1
  MaxFaults = 2
  None = None
INVARIANTS TypeOK ExactlyOnce ResponsesInOrder
PROPERTY Returns
CHECK_DEADLOCK FALSE
