SPECIFICATION RunSpec
CONSTANTS
  p1 = p1
  p2 = p2
  p3 = p3
  k1 = k1
  k2 = k2
  Contexts = {p1, p2}
  First = {p1, p2}
  Timed = {}
  MaxEntries = 2
  MaxRetries = 1
  Outcomes = {"completed", "failed", "timeout"}
  Refusals = {"retry"}
  Crashes = TRUE
  Cancellers = {k1, k2}
  Signals = {TRUE, FALSE}
  Publishes = {TRUE, FALSE}
  Aborts = {TRUE, FALSE}
  Polls = 0
CHECK_DEADLOCK FALSE
INVARIANTS QueuedWaits
