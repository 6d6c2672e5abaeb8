SPECIFICATION RerunSpec
CONSTANTS
  Dags <- MCDags
  MaxIterations = 2
  MayCancel = TRUE
  SnapshotHasEdges = FALSE
  MaxRuns = 2
INVARIANTS OnlySelectedRun OnlyDirtyRun DirtyFollowed
