SPECIFICATION FairSpec
CONSTANTS
  Requests = {r1, r2}
  Inflight = 1
  ReadsOnly = TRUE
INVARIANT
  PrimaryAnswerReachesClient
