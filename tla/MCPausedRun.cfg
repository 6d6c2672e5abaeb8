SPECIFICATION RunSpec
CONSTANTS
  p1 = p1
  p2 = p2
  p3 = p3
  k1 = k1
  k2 = k2
  Contexts = {p1, p2, p3}
  First = {p1, p2}
  Timed = {p3}
  MaxEntries = 3
  MaxRetries = 1
  Outcomes = {"completed", "paused", "failed", "cancelled"}
  Refusals = {"retry", "reject"}
  Crashes = TRUE
  Cancellers = {k1}
  Signals = {TRUE}
  Publishes = {TRUE}
  Aborts = {FALSE}
  Polls = 1
CHECK_DEADLOCK FALSE
INVARIANTS TypeOK OneExecutes SeesEveryAnswer CountsAgree AnsweredOnce
PROPERTIES CancelledStays
