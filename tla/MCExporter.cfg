SPECIFICATION FairSpec
CONSTANTS
  c1 = c1
  c2 = c2
  Clients <- MCClients
  Kinds <- MCKinds
  Stallers <- MCStallers
  MAX_INFLIGHT = 1
  REQUEST_TIMEOUT = 3
  DRAIN_TIMEOUT = 2
  BufSize = 2
INVARIANTS
  PermitsAreTasks
  HoldsPermitBriefly
  AnswerReaches
PROPERTIES
  PermitsReturn
CHECK_DEADLOCK FALSE
