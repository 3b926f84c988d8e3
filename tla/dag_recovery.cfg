\* Runs, repairs and re-runs of a small graph.
SPECIFICATION RSpec
CONSTANTS
  a = a
  b = b
  c = c
  d = d
  Nodes = {a, b, c, d}
  Edges <- Chain
  MaxConcurrent = 2
  InitialStatuses <- Fresh
  MaxRetries = 1
  Fallbacks = FALSE
  MaxPutBacks = 2
INVARIANTS
  AttemptsBounded
  InputsCompleted
PROPERTIES
  FinishedWorkKept
  RecoveryEnds
CHECK_DEADLOCK FALSE
