SPECIFICATION Spec
CONSTANTS
  GrowChunk = 2
  SparsityDivisor = 2
  NumIndex = 6
  Threshold = {3}
  Word = 8
  Config <- MCCappedGOS
INVARIANTS
  InRange
CHECK_DEADLOCK FALSE
