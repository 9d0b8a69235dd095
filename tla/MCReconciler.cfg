SPECIFICATION Spec
CONSTANTS
  None = None
  tob = tob
  mbp = mbp
  Key <- Keys
  Kind <- Kinds
  Status <- Venue
  Channel <- OneChannel
  Port <- Ports
  Code <- OwnCode
  Elsewhere <- Keys
  MAX_DRAIN_TICKS = 1
  Incarnations <- Overlap
INVARIANTS
  DepartedIsDark
  OneTape
  NeverPinnedUp
PROPERTIES
  TapeHeals
  OnlyNarrowingPurges
