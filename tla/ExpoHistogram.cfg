SPECIFICATION FairSpec
CONSTANTS
  Config <- MCConfig
INVARIANTS
  SuffixHeld
  WindowHeld
  BucketsExact
  ErrorBound
  QueryTail
PROPERTIES
  UpdateEnds
CHECK_DEADLOCK FALSE
