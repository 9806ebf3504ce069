SPECIFICATION Spec
CONSTANTS
  plain = plain
  grammar = grammar
  Reqs = {plain, grammar}
  Structured = {grammar}
  Batches <- ThreeBatches
  Ids = 3
  Lag = 2
  Engines = {TRUE}
PROPERTY ZerosAreRead
