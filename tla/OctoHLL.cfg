SPECIFICATION Spec
CONSTANTS
  NumWorkers = 2
  BatchCap = 2
  PoolSize = 1
  InputCap = 1
  MaxItems = 3
  NumRegs = 2
  MaxRank = 2
  TauMin = 1
  TauMax = 2
  TauStep = 1
  TauInitial = 2
INVARIANTS
  NothingLost
  Converged
  OneDeltaPerChange
