SPECIFICATION Spec
CONSTANTS
  a = a
  b = b
  x = x
  y = y
  Ips <- OneIp
  Srcs <- OneSrc
  IpOf <- OnlyIp
  Caps <- Unlimited
  Idles = {0}
  CleanTick = 0
  QueueSize = 1
  MaxSetups = 2
  MaxLag = 0
  MaxAge = 1
INVARIANTS
  DrainedMeansEmpty
CHECK_DEADLOCK FALSE
