SPECIFICATION Spec
CONSTANT WordBits = 6
INVARIANTS
  FoldedIsFull
  RegistersAreMaxima
  QueriesComplete
  VotesConserved
  EstimatesAddUp
  RankError
  GSumExact
  WeightConserved
  SamplingExact
  SubpopulationsExact
PROPERTY OneRowPerBit
CHECK_DEADLOCK FALSE
