SPECIFICATION Spec
CONSTANTS
  None = None
  s1 = s1
  s2 = s2
  SourceId <- Sources
  OrderId = {1, 2, 3}
  PriceOf <- Prices
  Deltas <- Alphabet
  FirstBook <- Opening
  ResetBook <- AfterReset
  MAX_ORDERS_PER_BOOK = 2
  MAX_PENDING_DELTAS = 1
  MaxDeltas = 2
  MaxChan = 2
  MaxBatch = 2
  MaxSnaps = 2
  MaxRepeats = 1
  MaxFaults = 1
  Faults = {"rename", "reset", "undefine", "evict", "session"}
SYMMETRY Symmetry
CHECK_DEADLOCK FALSE
INVARIANTS
  NamedIsShown
