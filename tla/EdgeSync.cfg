SPECIFICATION Spec
CONSTANTS
  NumRows = 3
  NumCols = 2
  NumKeys = 4
  ColOf <- MCColOf
  SignOf <- MCSignOf
  TrackerSize = 3
  TopKSize = 2
  Weight = {1, 2}
  Config <- MCConfig
INVARIANTS
  CellsAccounted
  NormsExact
  TopKCurrent
PROPERTIES
  TrackerKeeps
CHECK_DEADLOCK FALSE
