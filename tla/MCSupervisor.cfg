SPECIFICATION FairSpec
CONSTANTS
  Inputs <- MCInputs
  MaxProxies = 3
  MaxUserTimeout = 100000
  Resolve <- MCResolve
INVARIANTS
  ExitCodeTellsFailures
  EndsAfterAll
  LoadExact
  OptionsTake
PROPERTIES
  SignalEnds
  FailureEnds
CHECK_DEADLOCK FALSE
