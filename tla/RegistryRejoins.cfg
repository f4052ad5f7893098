CONSTANTS
  Executors = {e1}
  Handlers = {h1}
  Removers = {r1}
  Modes = {TRUE, FALSE}
  MaxFaults = 2
SPECIFICATION FairSpec
INVARIANTS
  RegisteredHasVcores
  LossAnnounced
PROPERTIES
  HealthyRejoins
CHECK_DEADLOCK FALSE
