SPECIFICATION Spec
CONSTANTS
  Contents = {c1}
  MaxRuns = 2
  MaxMoments = 2
  Ways <- MCHandThenAsked
  MaxFaults = 1
  Keep = 1
  None = None
INVARIANTS
  TypeOK
  OneRunAMoment
PROPERTIES
  ImplementsDurable
  ConfirmedEpochIsNew
