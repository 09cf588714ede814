SPECIFICATION FairSpec
CONSTANTS
  None = None
  Timings <- MCTimings
INVARIANTS
  ReservedUnderPriorMode
  AllowancesSuffice
PROPERTIES
  HoldIsReleased
