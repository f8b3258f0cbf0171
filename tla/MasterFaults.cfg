SPECIFICATION Spec
CONSTANTS
  Overlap = {"queued", "ignored"}
  Collisions = TRUE
  Configs <- TimedConfigs
  TxLens = {1}
  RxLens = {2}
  ClockMod = 2
INVARIANTS
  TypeOK
  PendingMatchesStage
  OkLeavesCalm
  DeviceReleasedBeforeStop
PROPERTIES
  RequestsDoNotOverlap
  ConditionsFollowPending
  PendingEndsReleased
  ImplementsSession
