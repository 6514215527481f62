SPECIFICATION Spec
CONSTANTS
  GrowChunk = 2
  SparsityDivisor = 2
  NumIndex = 5
  Threshold = {1, 2}
  Word = 8
  Config <- MCConfig
INVARIANTS
  StoreAccounted
  HighEndExact
  QuantileExact
CHECK_DEADLOCK FALSE
