SPECIFICATION HealthySpec
CONSTANTS
  Overlap = {"queued", "ignored"}
  Collisions = FALSE
  Configs <- UntimedConfigs
  TxLens = {0, 2}
  RxLens = {1, 3}
  ClockMod = 1
INVARIANTS
  EveryReturnLeavesCalm
PROPERTIES
  CallsReturn
