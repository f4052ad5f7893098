SPECIFICATION FairSpec
CONSTANTS
  Tasks = {t1, t2}
  Keys = {t1, t2}
  KeyOf <- DistinctKeys
  BufSize = 1
  HEARTBEAT_FAILURE_TERMINATION_THRESHOLD = 2
  Patience = {TRUE, FALSE}
  FaultSets = {{"decode", "setup"}, {"setup", "rpc"}, {"signal", "heartbeat"}, {"signal", "rpc"}, {"stop"}}
INVARIANTS
  NoReadAfterClean
PROPERTIES
  TaskReported
  ShutdownEnds
CHECK_DEADLOCK FALSE
