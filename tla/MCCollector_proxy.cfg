SPECIFICATION Spec
CONSTANTS
  Callers = {g1, g2}
  Ids = {a, b, c}
  NoId = NoId
  Timeout = 3
  MaxPending = 2
  Buffer = 1
  Posted = FALSE
  MaxIngest = 4
  MaxNow = 8
  MaxLag = 1
SYMMETRY Symmetry
INVARIANTS
  OrderMatchesPending
  PendingBounded
  StatsAddUp
  PartnersInTime
  LonerLeavesInTime
PROPERTIES
  OldestLeavesFirst
