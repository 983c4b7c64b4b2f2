SPECIFICATION Spec
CONSTANTS
  a = a
  b = b
  NoIp = NoIp
  NoConn = NoConn
  Ips <- MCIps
  Conns <- MCConns
  Caps <- MCCaps
INVARIANTS
  TypeOK
  SlotAccounting
  CapsRespected
  WarnedBeforeRejecting
  TotalWarnsOnce
PROPERTY
  Admission
