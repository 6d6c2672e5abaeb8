SPECIFICATION Spec
CONSTANTS
  Workers = {w1, w2}
  Events = {e1}
  MaxAttempts = 2
  HandlerTimeout = 2
  StuckThreshold = 5
  BaseBackoff = 1
  MaxBackoff = 2
  Latency = 1
  Punctual = TRUE
  GhostTime = 5
  Delays = {0, 1}
  Outcomes = {"done", "failed", "continued"}
  MaxTime = 12
  MaxClaims = 3
SYMMETRY Symmetry
CHECK_DEADLOCK FALSE
INVARIANTS RunsUnderLease NoOverlap
