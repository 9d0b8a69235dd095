SPECIFICATION Spec
CONSTANTS
  l1 = l1
  l2 = l2
  Level <- Levels
  None = None
  Gone = Gone
  Dark = Dark
  Torn = Torn
  Touch <- Singles
  Whole <- One
  MAX_PENDING_CHANGES = 1
  backbone_capacity = 1
  broadcast_capacity = 1
  max_subs = 1
  MaxBatches = 3
  MaxControl = 3
CHECK_DEADLOCK FALSE
PROPERTIES
  KeepsPromise
  BootstrapComes
