SPECIFICATION FairSpec
CONSTANTS
  Parts = {"poll", "client", "history"}
  Tasks = {t1, t2, t3}
  Vcores = 2
  Endless = {t1, t2}
  FaultSets = {{"setup"}, {"rpc"}}
  StageAttempt <- MCZeros
  Modes = {"pull", "push"}
  STATUS_BUFFER = 3
  MaxUpdates = 2
  Jobs = {j1}
  LogBuffer = 2
  MaxReports = 2
  MaxRequests = 2
INVARIANTS
  PermitForEachTask
  ClientAgrees
  

  
CHECK_DEADLOCK FALSE
