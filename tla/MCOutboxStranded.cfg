\* One crash and no other fault.
CONSTANTS
  Request = {r1}
  Account = {a1}
  LastDay = 1
  Hours = {1}
  Allowance = {2}
  NULL = NULL
  MaxRetries = 2
  ClaimLimit = 1
  Faults = {}
  MaxCrashes = 1
  AnswerHasReference = TRUE
SPECIFICATION FairProcessorSpec
PROPERTIES
  EveryPostSettles
CHECK_DEADLOCK FALSE
