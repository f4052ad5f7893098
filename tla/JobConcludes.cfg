SPECIFICATION FairSpec
CONSTANTS
  Jobs = {j1, j2}
  MaxReports = 1
  MaxResolved = 1
  MaxRequests = 0
  MaxAborts = 0
PROPERTIES
  JobConcludes
