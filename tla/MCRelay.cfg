SPECIFICATION Spec
CONSTANTS
  Configs <- MCConfigs
  Tick = 3
  Floor = 2
  BufSize = 2
  Window = 1
  MaxBytes <- MCMaxBytes
  MaxAge = 5
INVARIANTS
  TypeOK
  EofMeansDelivered
  HalfCloseFaithful
  NapNeverOversleeps
