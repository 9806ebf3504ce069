SPECIFICATION EagleSpec
CONSTANTS
  Reqs = {r1, r2, r3}
  None = None
  MaxRows = 3
  SpecTokens = 2
  MaxChunk = 2
  MaxModelLen = 9
  Starts = {0, 3}
INVARIANTS
  TypeOK
  InputIdsExact
  DraftsJudgedInPlace
  DrafterInputsShifted
  SlotsWrittenOnce
  DraftStepsContiguous
SYMMETRY ReqSymmetry
