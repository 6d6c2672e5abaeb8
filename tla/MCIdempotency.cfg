SPECIFICATION FairSpec
CONSTANTS
  Callers = {c1, c2}
  Services <- MCServices
  Ttl = 4
  Lease = 3
  Budget = 1
  Latency = 1
  Punctual = TRUE
  MaxTime = 8
  LastCall = 5
  MaxClaims = 4
INVARIANTS TypeOK OneRunner
PROPERTIES ClaimRespected ResultsHold CallsEnd
CHECK_DEADLOCK FALSE
