SPECIFICATION FairSpec
CONSTANTS
  a = a
  b = b
  x = x
  y = y
  Ips <- OneIp
  Srcs <- OneSrc
  IpOf <- OnlyIp
  Caps <- Unlimited
  Idles = {1, 3}
  CleanTick = 2
  QueueSize = 1
  MaxSetups = 1
  MaxLag = 1
  MaxAge = 4
INVARIANTS
  SleepCoversDeadlines
PROPERTIES
  EvictsOnlySilent
  IdleEvicted
CHECK_DEADLOCK FALSE
