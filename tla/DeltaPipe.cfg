SPECIFICATION FairSpec
CONSTANTS
  NumWorkers = 2
  BatchCap = 2
  PoolSize = 1
  Delta = {d1, d2}
INVARIANTS
  PoolConserved
  NoMutualWait
PROPERTIES
  ExactlyOnceInOrder
  HandoffCompletes
