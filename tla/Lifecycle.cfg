SPECIFICATION FairSpec
CONSTANTS
  MaxInFlight = 1
  Backlog = 1
INVARIANTS
  TypeOK
  FailureIsNotClean
  ReportMeansClean
PROPERTIES
  StopsWhenTold
