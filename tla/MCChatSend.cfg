SPECIFICATION SendSpec
CONSTANTS
  Callers = {c1, c2}
  Services <- MCServices
  Ttl = 4
  Lease = 2
  Budget = 1
  Latency = 0
  Punctual = FALSE
  MaxTime = 6
  LastCall = 6
  MaxClaims = 3
PROPERTIES TurnStands
CHECK_DEADLOCK FALSE
