SPECIFICATION Spec
CONSTANTS
  key = key
  NumWorkers = 1
  BatchCap = 2
  PoolSize = 1
  InputCap = 1
  MaxItems = 1
  Key <- MCKey
  Ignored = {}
  Rows <- MCRows
  Col <- MCCol
  ColOf <- MCColOf
  SignOf <- MCSignOf
  RefColOf <- MCRefColOf
  TauMin = 1
  TauMax = 1
  TauStep = 0
  TauInitial = 1
INVARIANTS
  Converged
