SPECIFICATION MCSpec
CONSTANTS
  Parts = {"cache", "budget"}
  Keys = {k1, k2}
  Jobs = {j1, j2}
  NoJob = none
  Executors = {x1}
  HeldBy <- MCHeldBy
  Sessions = {s1}
  SessionOf <- MCSessionOf
  Callers = {c1, c2}
  e1 = e1
  e2 = e2
  j1 = j1
  j2 = j2
  Collapse = {j2}
  MaxSlice = 2
  Policies = {"Bias", "RoundRobin"}
  FaultSets = {{"retry", "cancel"}, {"retry", "crash"}, {"cancel", "crash"}, {"expiry"}, {"rpc"}, {"reject"}, {"rollback"}}
INVARIANTS
  StaleIsOrphan
  UnpinnedOnce
  InvalidatedBefore
  
  RunningTaskInFlight
PROPERTIES
  ClaimsSurvive
CHECK_DEADLOCK FALSE
