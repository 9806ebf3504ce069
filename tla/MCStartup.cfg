SPECIFICATION Spec
CONSTANTS
  Layers <- ThreeLayers
  Engines <- ExpectedEngines
  None = None
  Page = 8
  Heads = 2
  CaptureSizes = {2, 4, 6, 8}
  MaxBatch = 3
  MaxTokens = 8
  QueryLen = 2
  Blocks = 2
  ProbeBlocks = 1
  Reloads = 1
INVARIANTS
  TypeOK
  BlocksDisjoint
  StepsAreCaptured
  ServesOnLiveState
CHECK_DEADLOCK FALSE
