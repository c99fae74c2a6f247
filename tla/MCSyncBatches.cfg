\* Batches only, overtaking each other, beside a sweep whose calls may fail.
CONSTANTS
  Request = {r1, r2}
  Account = {a1}
  LastDay = 2
  Hours = {1}
  Allowance = {2}
  NULL = NULL
  MaxRetries = 1
  ClaimLimit = 1
  Faults = {"transient"}
  MaxCrashes = 0
  AnswerHasReference = TRUE
  Channels = {"batch"}
  Run = {n1, n2}
  AutoRepairThreshold = 1
  HcmChanges <- CutOrSpent
  MaxHcmChanges = 1
SPECIFICATION SyncSpec
SYMMETRY Symmetry
INVARIANTS
  SyncTypeOK
  OverbookedIsFlagged
PROPERTIES
  FlaggedAwaitsPerson
  NewVersionsOnly
CHECK_DEADLOCK FALSE
