SPECIFICATION Spec
CONSTANTS
  Stages <- JoinStages
  Inputs <- JoinInputs
  Partitions <- JoinPartitions
  Executors = {e1, e2}
  MaxTaskFailures = 2
  MaxStageFailures = 3
  MaxSlice = 1
  MaxBatch = 2
  Faults <- FetchTwiceExpiry
SYMMETRY Symmetry
INVARIANTS
  ReadsComplete
  
