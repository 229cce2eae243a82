SPECIFICATION FairSpec
CONSTANTS
  Callers = {g1, g2}
  Ids = {a, b}
  NoId = NoId
  Timeout = 1
  MaxPending = 1
  Buffer = 1
  Posted = TRUE
  MaxIngest = 4
  MaxNow = 1
  MaxLag = 1
INVARIANTS
  TypeOK
  PairsWellFormed
  NoCaptureTwice
  EveryCaptureAccounted
  PairsAccounted
PROPERTIES
  ImplementsCorrelation
  IngestReturns
