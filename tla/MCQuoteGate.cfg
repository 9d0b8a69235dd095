SPECIFICATION Spec
CONSTANTS
  None = None
  p1 = p1
  p2 = p2
  p3 = p3
  Path <- Paths
  Encoders <- Fleets
  HALF = 8
  max_jump = 1
  QUOTE_ID_REGIME_TIMEOUT_NS = 2
  QUOTE_ID_DISABLE_NS = 1
  MAX_FUTURE_SKEW_NS = 1
  QUOTE_TICK_CAP = 1
  Padding = 1
  Scale = {1, 2}
  Stamped = TRUE
  Ahead = 0
  Rate = 2
  Delay = 2
  First = 14
  MaxUpdates = 4
  MaxTime = 4
SYMMETRY Symmetry
INVARIANTS
  CounterStaysOn
  NeverDark
PROPERTIES
  NoRegress
