\* No fault and no crash: a cancellation during the call.
CONSTANTS
  Request = {r1}
  Account = {a1}
  LastDay = 1
  Hours = {1}
  Allowance = {2}
  NULL = NULL
  MaxRetries = 2
  ClaimLimit = 1
  Faults = {}
  MaxCrashes = 0
  AnswerHasReference = TRUE
SPECIFICATION FairProcessorSpec
PROPERTIES
  CancelledIsReversed
CHECK_DEADLOCK FALSE
