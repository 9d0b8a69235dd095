SPECIFICATION MCSpec
CONSTANTS
  None = None
  p1 = p1
  p2 = p2
  m1 = m1
  Path <- Paths
  Market <- OneMarket
  OrdersOf <- TwoOrders
  retention_ns = 2
  max_ts_jump_ns = 1
  reseat_after_ns = 2
  ClockStart = 3
  ClockEnd = 9
  Stamp = {0, 1, 2, 3, 4, 5, 6, 7, 8}
  Ahead = 0
  MAX_FUTURE_SKEW_NS = 1
  book_dedup_window_ns = 0
  MAX_SEEN_ORDER_EVENTS = 2
  MAX_GUARDED_ORDERS = 1
  MAX_FORGOTTEN_PER_BATCH = 1
  PEER_SERVING_NS = 1
  FORCED_REBASELINE_MIN_INTERVAL_NS = 1
  MAX_TOMBSTONES_TOTAL = 1
  AddSize <- Sizes
  Behind = {0}
  Start = 2
  MaxNow = 5
  MaxLog = 3
  MaxBatch = 3
  Faults = {"gap","depart","reset","session","drop","channel"}
  MaxFaults = 1
  Nobody = Nobody
  NoMatch = NoMatch
  TapePath <- Paths
  Signature = {g1}
  window_ns = 1
  MAX_PENDING = 3
  MAX_PER_SIGNATURE = 2
  NO_ID_TAPE_HANDOVER_NS = 1
  TRADE_DEDUP_WINDOW = 2
  TapeLag = 1
  TapeEnd = 7
  MaxPrints = 3
  MaxLost = 1
  MaxTerms = 1
  window_slots = 2
  EpochLen = 2
  ShredModes = {"sigverify", "dedup"}
  MaxSlot = 6
  RpcLag = 1
  MaxRpcErrors = 1
  o1 = o1
  o2 = o2
  SinkOrder <- SinkOrders
  MaxSize = 1
  Absent = Absent
  Bare = Bare
  Resync = Resync
  sink_backbone = 1
  PREPARED_CAPACITY = 2
  MaxSinkBatches = 3
  MaxChanges = 2
  MaxSinkControls = 3
  MaxSinkFaults = 1
  k1 = k1
  k2 = k2
  k3 = k3
  Product <- Products
  Channel <- Channels
  Unheld = Unheld
  NANOS = 2
  WINDOW_SECS = 1
  TRADE_RING = 2
  MAX_PRODUCTS = 2
  MAX_BUCKETS_ACROSS_PRODUCTS = 2
  MAX_PLAUSIBLE_FUTURE_SKEW_NS = 1
  Price = {1, 2}
  Granularity = {1, 2}
  HistoryStart = 4
  HistoryEnd = 5
  MaxFed = 3
  MaxPurges = 1
  Lanes = {"orders", "clock", "tape", "shreds", "sink", "history"}
SYMMETRY Symmetry
VIEW View
CHECK_DEADLOCK FALSE
INVARIANTS
  GuardAddsUp
  NoResurrection
  RemovalReachesWire
  ClockCatchesUp
  PairsAreCopies
  DefersOnce
  PrintedOnce
  ForwardedOnce
  L4Follows
  CandlesAreTape
PROPERTIES
  NoRewind
