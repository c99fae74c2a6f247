\* Four calls that overlap, a threshold they can reach together.
CONSTANTS
  Caller = {c1, c2, c3, c4}
  FailureThreshold = 3
  Cooldown = 2
  MaxFailures = 5
SPECIFICATION FairSpec
INVARIANTS
  BreakerTypeOK
  ClosedBelowThreshold
PROPERTIES
  OutageEnds
