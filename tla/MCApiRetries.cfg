\* Lost answers and repeated calls, crashes before the answer is stored, keys that
\* expire and that users may share.
CONSTANTS
  Request = {r1, r2}
  Account = {a1}
  LastDay = 1
  Hours = {1}
  Allowance = {2}
  NULL = NULL
  Client = {c1, c2, c3, c4}
  Key = {k1, k2}
  KeysAreUnique = FALSE
  MayCrash = TRUE
  KeysExpire = TRUE
SPECIFICATION ApiSpec
SYMMETRY Symmetry
INVARIANTS
  ApiTypeOK
  TransitionsHappenOnce
  AcceptedHappened
  RepeatsAreSafe
CHECK_DEADLOCK FALSE
