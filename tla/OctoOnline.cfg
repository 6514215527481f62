SPECIFICATION Spec
CONSTANTS
  up = up
  down = down
  nil = nil
  NumWorkers = 1
  BatchCap = 1
  PoolSize = 1
  InputCap = 1
  MaxItems = 8
  Key <- MCKey
  Ignored <- MCIgnored
  Rows = 2
  Col <- MCCol
  ColOf <- MCColOf
  SignOf <- MCSignOf
  RefColOf <- MCColOf
  TauMin = 2
  TauMax = 2
  TauStep = 0
  TauInitial = 2
INVARIANTS
  OnlineAccuracy
