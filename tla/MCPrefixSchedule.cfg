SPECIFICATION MCSpec
CONSTANTS
  Requests = 2
  SpecTokens = 2
  Unit = 2
  Confidences = {0, 1, 2}
  Rates = {1, 2, 3}
  NoRate = NoRate
  TpSize = 2
  ShardSize = 3
  Vocab = 4
  KernelBlock = 2
  BlockSize = 2
  Scores <- BaseScores
  Biases <- MarkovHeads
  NegInf <- BelowAll
  PosInf = 9
INVARIANTS
  TypeOK
  SchedulersOptimal
  NonAnticipating
  DraftsAreGreedy
CHECK_DEADLOCK FALSE
