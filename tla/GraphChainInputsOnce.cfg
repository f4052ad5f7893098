SPECIFICATION Spec
CONSTANTS
  Stages <- ThreeStages
  Inputs <- ThreeInputs
  Partitions <- ThreePartitions
  Executors = {e1, e2}
  MaxTaskFailures = 2
  MaxStageFailures = 3
  MaxSlice = 2
  MaxBatch = 1
  Faults <- FetchOnce
SYMMETRY Symmetry
INVARIANTS
  InputsOnce
