\* Three requests on two accounts: two days to overlap on, hours that fit an
\* allowance singly and not together.
CONSTANTS
  Request = {r1, r2, r3}
  Account = {a1, a2}
  LastDay = 2
  Hours = {1, 2}
  Allowance = {2, 3}
  NULL = NULL
SPECIFICATION Spec
SYMMETRY Symmetry
INVARIANTS
  TypeOK
  NoOverbooking
  NoOverlap
  HoldFollowsRequest
  NoPostLeftBehind
\* Every request may be rejected or cancelled: then no handler accepts a call.
CHECK_DEADLOCK FALSE
