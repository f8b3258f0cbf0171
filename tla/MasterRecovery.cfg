SPECIFICATION Spec
CONSTANTS
  Overlap = {"queued"}
  Collisions = FALSE
  Configs <- TimedConfigs
  TxLens = {1}
  RxLens = {1}
  ClockMod = 2
PROPERTIES
  CompletedRecoveryReported
