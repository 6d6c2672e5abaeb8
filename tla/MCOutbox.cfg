SPECIFICATION Spec
CONSTANTS
  Workers = {w1, w2, w3}
  Events = {e1}
  MaxAttempts = 2
  HandlerTimeout = 1
  StuckThreshold = 4
  BaseBackoff = 1
  MaxBackoff = 2
  Latency = 1
  Punctual = FALSE
  GhostTime = 0
  Delays = {0, 1}
  Outcomes = {"done", "failed", "continued"}
  MaxTime = 6
  MaxClaims = 3
SYMMETRY Symmetry
CHECK_DEADLOCK FALSE
INVARIANTS TypeOK
PROPERTIES NoClobber CompletedStays AttemptsNeverLost ImplementsLeaseQueue
