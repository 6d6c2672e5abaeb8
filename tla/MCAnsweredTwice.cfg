SPECIFICATION RunSpec
CONSTANTS
  p1 = p1
  p2 = p2
  p3 = p3
  k1 = k1
  k2 = k2
  Contexts = {p1, p2}
  First = {p1}
  Timed = {}
  MaxEntries = 3
  MaxRetries = 1
  Outcomes = {"completed", "paused"}
  Refusals = {}
  Crashes = FALSE
  Cancellers = {k1}
  Signals = {TRUE, FALSE}
  Publishes = {TRUE}
  Aborts = {FALSE}
  Polls = 0
CHECK_DEADLOCK FALSE
INVARIANTS AnsweredOnce
