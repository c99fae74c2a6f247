\* Single updates and reconciliation beside the sweep: a small drift is repaired,
\* a large one is flagged.
CONSTANTS
  Request = {r1, r2}
  Account = {a1}
  LastDay = 2
  Hours = {1}
  Allowance = {2}
  NULL = NULL
  MaxRetries = 1
  ClaimLimit = 1
  Faults = {}
  MaxCrashes = 0
  AnswerHasReference = TRUE
  Channels = {"single", "reconcile"}
  Run = {n1}
  AutoRepairThreshold = 1
  HcmChanges <- ClearedOnly
  MaxHcmChanges = 1
SPECIFICATION FairSyncSpec
INVARIANTS
  HoldAwaitsDecision
  WaitingRequestHasItsPost
  ApprovedIsDeducted
PROPERTIES
  ProjectionsConverge
CHECK_DEADLOCK FALSE
