SPECIFICATION Spec
CONSTANTS
  MaxReqs = 2
  MaxModelLen = 8
  MaxTokens = 6
  BlockSize = 2
  Workspace = 9
  MaxLogits = 44
  Supertile = 13
  Configs <- CappedReplay
INVARIANT NeverTruncated
