\* Two reconciliation runs that overlap, pages of one row, an employee with two rows,
\* one pull at a time whose items may fail, and crashes.
CONSTANTS
  Account = {1, 2, 3}
  Elsewhere = {}
  Run = {n1}
  PushId = {}
  WritesFail = TRUE
  MaxTime = 2
  NULL = NULL
  EmployeeOf <- TwoAndOne
  BatchSize = 1
  Job = {j1, j2}
SPECIFICATION FairCursorSpec
INVARIANTS
  CursorTypeOK
PROPERTIES
  FirstRowsConverge
  PullsDeliver
  OnlyRepairsGoBack
CHECK_DEADLOCK FALSE
