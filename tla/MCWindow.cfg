SPECIFICATION Spec
CONSTANTS
  Reqs = {r1, r2, r3}
  None = None
  MaxBatchSize = 2
  WindowSize = 2
  SpecTokens = 1
  Configs <- AllConfigs
INVARIANTS
  TypeOK
  SlotsPartition
  NoSlotExhaustion
  DraftSeesOwnRun
PROPERTIES
  SlotsSticky
  RaisesOnlyUneven
  RefinesPrivateHistory
SYMMETRY ReqSymmetry
CHECK_DEADLOCK FALSE
