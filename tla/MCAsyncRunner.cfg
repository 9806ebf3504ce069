SPECIFICATION Spec
CONSTANTS
  Reqs = {r1, r2}
  None = None
  MaxRows = 2
  SpecTokens = 1
  PromptLen <- Prompts
  MaxChunk = 2
  MaxModelLen = 5
INVARIANTS
  TypeOK
  PositionsExact
  CpuAgreesWithGpu
  InputsAreOwn
CHECK_DEADLOCK FALSE
