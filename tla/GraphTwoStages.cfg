SPECIFICATION Spec
CONSTANTS
  Stages <- TwoStages
  Inputs <- TwoInputs
  Partitions <- WideScan
  Executors = {e1, e2}
  MaxTaskFailures = 2
  MaxStageFailures = 2
  MaxSlice = 2
  MaxBatch = 2
  Faults <- TwoStageFaults
SYMMETRY Symmetry
INVARIANTS
  GraphInv
  ReadsComplete
  InputsOnce
  OneOwner
  RunningTasksReport
  NoPhantomSuccess
  LaunchesDistinct
PROPERTIES
  FailedIsFinal
  NewAttemptOnRestart
