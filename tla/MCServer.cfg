SPECIFICATION FairSpec
CONSTANTS
  Ips <- MCIps
  Hosts <- MCHosts
  Conns <- MCConns
  Peer <- MCPeer
  Local <- MCLocal
  Caps <- MCCaps
INVARIANTS
  SlotsAreTasks
  OutcomesAddUp
  ReturnsClean
  HeaderTellsClient
PROPERTIES
  NobodyHangs
  ServesAsTask
CHECK_DEADLOCK FALSE
