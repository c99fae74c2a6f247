\* The answer of src/mock-hcm-server: reference_id, not hcm_reference_id.
CONSTANTS
  Request = {r1}
  Account = {a1}
  LastDay = 1
  Hours = {1}
  Allowance = {2}
  NULL = NULL
  MaxRetries = 2
  ClaimLimit = 1
  Faults = {}
  MaxCrashes = 0
  AnswerHasReference = FALSE
SPECIFICATION ProcessorSpec
INVARIANTS
  CancellationsFindTheirDeduction
CHECK_DEADLOCK FALSE
