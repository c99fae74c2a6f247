\* Two pulls that overlap, a pushed batch that may come late or twice, an employee
\* who does not work at HQ, writes that fail, and crashes.
CONSTANTS
  Account = {a1, a2}
  Elsewhere = {a2}
  Run = {n1, n2}
  PushId = {b1}
  WritesFail = TRUE
  MaxTime = 2
  NULL = NULL
SPECIFICATION PullSpec
SYMMETRY Symmetry
INVARIANTS
  PullTypeOK
  CompletedIsStored
  NothingForgotten
\* Once the HCM has stopped changing, a pull finds nothing to do.
CHECK_DEADLOCK FALSE
