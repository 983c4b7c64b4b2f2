SPECIFICATION Spec
CONSTANTS
  a = a
  b = b
  x = x
  y = y
  Ips <- TwoIps
  Srcs <- TwoSrcs
  IpOf <- OwnIp
  Caps <- SomeCaps
  Idles = {0}
  CleanTick = 0
  QueueSize = 1
  MaxSetups = 2
  MaxLag = 0
  MaxAge = 1
INVARIANTS
  OneSetupPerSource
  SlotsAreSessions
  GaugeTracksMap
  ClosedOnce
CHECK_DEADLOCK FALSE
