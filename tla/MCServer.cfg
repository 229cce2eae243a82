SPECIFICATION FairServerSpec
CONSTANTS
  Callers = {c1, c2}
  TTL = 2
  MaxNow = 2
  MaxCalls = 2
  Requests <- MCRequests
  Proxied <- MCProxied
  Token = TRUE
  ReadsOnly = TRUE
  MaxBodyBytes = 20
  ScrubFields = {"password"}
  Credentials = {"set-cookie"}
INVARIANTS
  ServerTypeOK
  KillTakesEffect
  IngestExposesNothing
  AcceptedIsStored
PROPERTIES
  OneStatPerTTL
  AskedIsAnswered
  AdmittedBeforeKill
