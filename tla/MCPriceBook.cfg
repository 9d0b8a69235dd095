CONSTANTS
  None = None
  Price = {1, 2}
  Qty = {0, 1}
  MaxDeltas = 2
  MAX_BUFFERED_DELTAS = 2
  MAX_LEVELS_PER_BOOK = 1
  MAX_REBUILD_SERVE_NS = 1
  REANCHOR_MIN_SHORTFALL_LEVELS = 0
  REANCHOR_SHORTFALL_PERCENT = 10
  REANCHOR_MIN_INTERVAL_NS = 1
  Deltas <- MCDeltas2
  ResetBooks <- MCResetBooks
  DepthBounds = {0}
  Fifo = TRUE
  MaxChan = 2
  MaxSnaps = 3
  MaxResets = 1
  MaxSessions = 2
  MaxTime = 99
SPECIFICATION Spec
VIEW Aged
INVARIANTS ServedIsTruth ReplayIsLoop ClaimAges
PROPERTY TwoRotations
