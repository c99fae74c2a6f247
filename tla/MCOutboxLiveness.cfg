\* No crash, every other fault: nothing waits for ever, one entry claimed at a time.
CONSTANTS
  Request = {r1, r2}
  Account = {a1}
  LastDay = 2
  Hours = {1}
  Allowance = {2}
  NULL = NULL
  MaxRetries = 2
  ClaimLimit = 1
  Faults = {"transient", "permanent", "disconnect"}
  MaxCrashes = 0
  AnswerHasReference = TRUE
SPECIFICATION FairProcessorSpec
INVARIANTS
  ProcessingIsClaimed
PROPERTIES
  EveryPostSettles
  EveryRefundSettles
CHECK_DEADLOCK FALSE
