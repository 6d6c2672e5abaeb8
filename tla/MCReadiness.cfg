SPECIFICATION ParallelSpec
CONSTANTS
  Dags <- MCDags
  MaxIterations = 2
  MayCancel = FALSE
INVARIANTS NoOvertaking OnlySelectedRun NothingStranded FreshIteration BranchesComplete
PROPERTIES NoRelaunch ImplementsDataflow
