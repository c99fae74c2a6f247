\* Every fault, one crash, two requests that compete for one account.
CONSTANTS
  Request = {r1, r2}
  Account = {a1}
  LastDay = 2
  Hours = {1, 2}
  Allowance = {2}
  NULL = NULL
  MaxRetries = 2
  ClaimLimit = 2
  Faults = {"transient", "permanent", "disconnect"}
  MaxCrashes = 1
  AnswerHasReference = TRUE
SPECIFICATION ProcessorSpec
SYMMETRY Symmetry
INVARIANTS
  ProcessorTypeOK
  NoOverbooking
  HoldFollowsRequest
  WaitingRequestHasItsPost
  ApprovedIsDeducted
  BooksMatchOutbox
  OffersNoTakenHours
  CancellationsFindTheirDeduction
PROPERTIES
  LegalTransitions
  ImplementsLedger
CHECK_DEADLOCK FALSE
