SPECIFICATION SpecProgress
CONSTANTS
  Configs <- MCHalfOnly
  Tick = 3
  Floor = 1
  BufSize = 3
  Window = 1
  MaxBytes <- MCDownload
  MaxAge = 4
INVARIANT
  OnlySilentKilled
CHECK_DEADLOCK FALSE
