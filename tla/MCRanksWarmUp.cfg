SPECIFICATION Spec
CONSTANTS
  k1 = k1
  k2 = k2
  Ranks = {k1, k2}
  GraphSizes = {1, 3}
  MaxBatch = 4
  Deployments <- ColdOnly
INVARIANT CollectivesAligned
