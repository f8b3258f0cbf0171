SPECIFICATION TickingSpec
CONSTANTS
  Overlap = {"ignored"}
  Collisions = FALSE
  Configs <- TimeoutConfigs
  TxLens = {1}
  RxLens = {1}
  ClockMod = 3
PROPERTIES
  TimedCallsReturn
  DeinitGetsOut
  RecoveryWhenDue
