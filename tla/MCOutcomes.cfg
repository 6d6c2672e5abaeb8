SPECIFICATION Spec
CONSTANTS
  Dags <- MCDags
  MaxIterations = 2
  MayCancel = TRUE
INVARIANTS TypeOK LoopResultsComplete LockIsSound ResultIsFinal
PROPERTIES ResponseIsFinal RunReturns
