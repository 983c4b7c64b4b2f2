SPECIFICATION FairSpec
CONSTANTS
  Configs <- MCShort
  Tick = 1
  Floor = 1
  BufSize = 2
  Window = 0
  MaxBytes <- MCOneByte
  MaxAge = 2
PROPERTIES
  EndsOnError
  EndsOnShutdown
  EndsWhenSilent
