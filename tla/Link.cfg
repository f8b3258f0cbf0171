SPECIFICATION LinkSpec
CONSTANTS
  Overlap = {"ignored"}
  Collisions = FALSE
  Configs <- MC_Configs
  ClockMod = 1
  TxLens = {0, 2}
  RxLens = {1, 3}
  Stretches = {TRUE}
  MaxAhead = 4
INVARIANTS
  TransfersMatch
  AppFollowsPending
  StretchingSlaveAccepts
  NoStandoff
PROPERTIES
  ReadsLoadedBytes
  LinkCallsReturn
