SPECIFICATION FairSpec
CONSTANTS
  MaxInFlight = 1
  Backlog = 1
INVARIANT
  GraceIsGiven
