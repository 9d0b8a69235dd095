SPECIFICATION Spec
CONSTANTS
  None = None
  p1 = p1
  p2 = p2
  p3 = p3
  m1 = m1
  m2 = m2
  m3 = m3
  Path <- Paths3
  Market <- Markets2
  Clears <- Either
  Lead <- WinOrLose
  MAX_LABELLED_PATHS = 2
  MAX_TRACKED_MARKETS = 1
  MAX_WINDOW_SAMPLES = 1
  REVERT_HOLD_NS = 1
  REVERT_DEADLINE_NS = 2
  leader_timeout_ns = 1
  sample_interval_ns = 1
  transfer_margin_ns = 0
  transfer_win_percent = 50
  min_window_samples = 1
  Now = 2
SYMMETRY Symmetry32
INVARIANTS
  HeldRevert
  BoundedExile
  SilenceOnly
  NeverDeaf
  SwitchIsAnnounced
  ServesHealthy
