SPECIFICATION ServerSpec
CONSTANTS
  Callers = {c1}
  TTL = 2
  MaxNow = 1
  MaxCalls = 1
  Requests <- MCRequests
  Proxied <- MCLongAnswer
  Token = TRUE
  ReadsOnly = TRUE
  MaxBodyBytes = 20
  ScrubFields = {"password"}
  Credentials = {"set-cookie"}
INVARIANTS
  NothingStoredRaw
