SPECIFICATION Spec
CONSTANTS
  Jobs = {j1}
  MaxReports = 2
  MaxResolved = 1
  MaxRequests = 2
  MaxAborts = 1
INVARIANTS
  ToldOnce
  JobInv
PROPERTIES
  KeepsPromise
