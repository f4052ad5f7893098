SPECIFICATION FairSpec
CONSTANTS
  Stages <- TwoStages
  Inputs <- TwoInputs
  Partitions <- WideScan
  Executors = {e1, e2}
  MaxTaskFailures = 2
  MaxStageFailures = 2
  MaxSlice = 2
  MaxBatch = 1
  Faults <- EndFaults
PROPERTIES
  JobEnds
