SPECIFICATION FairSpec
CONSTANTS
  k1 = k1
  k2 = k2
  NumWorkers = 2
  BatchCap = 2
  PoolSize = 1
  InputCap = 1
  MaxItems = 2
  Key <- MCKey
  Ignored = {}
  Rows = 2
  Col <- MCCol
  ColOf <- MCColOf
  SignOf <- MCSignOf
  RefColOf <- MCColOf
  TauMin = 1
  TauMax = 2
  TauStep = 1
  TauInitial = 2
INVARIANTS
  Converged
PROPERTIES
  Transport
  Shutdown
