SPECIFICATION Spec
CONSTANTS
  None = None
  p1 = p1
  p2 = p2
  m1 = m1
  Path <- Paths
  Market <- Markets
  market = m1
  Scopes <- AllFaults
  MAX_PENDING_CHANGES = 2
  MAX_WITHHELD_BATCHES = 2
  Start = 0
  Changes = 3
  Resent = FALSE
  Now = 1
  leader_timeout_ns = 0
  REVERT_HOLD_NS = 1
  REVERT_DEADLINE_NS = 1
  MAX_LABELLED_PATHS = 2
  MAX_TRACKED_MARKETS = 1
  MAX_WINDOW_SAMPLES = 0
  sample_interval_ns = 1
  transfer_margin_ns = 0
  transfer_win_percent = 50
  min_window_samples = 1
SYMMETRY Symmetry
PROPERTIES
  AbandonedIsIncomplete
