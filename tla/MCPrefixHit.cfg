SPECIFICATION Spec
CONSTANTS
  Reqs = {r1, r2, r3}
  None = None
  MaxBatchSize = 2
  WindowSize = 2
  SpecTokens = 1
  Configs <- CacheHits
INVARIANT DraftReadsOwnWindow
SYMMETRY ReqSymmetry
CHECK_DEADLOCK FALSE
