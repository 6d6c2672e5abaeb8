SPECIFICATION RerunSpec
CONSTANTS
  Dags <- MCDags
  MaxIterations = 1
  MayCancel = FALSE
  SnapshotHasEdges = TRUE
  MaxRuns = 2
CHECK_DEADLOCK FALSE
INVARIANTS OnlySelectedRun
