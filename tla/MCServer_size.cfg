SPECIFICATION ServerSpec
CONSTANTS
  Callers = {c1}
  TTL = 2
  MaxNow = 4
  MaxCalls = 1
  Requests <- MCLargeRequests
  Proxied = {}
  Token = TRUE
  ReadsOnly = TRUE
  MaxBodyBytes = 1048576
  ScrubFields = {"password"}
  Credentials = {"set-cookie"}
PROPERTIES
  LargestIsAccepted
