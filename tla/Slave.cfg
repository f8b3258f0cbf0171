SPECIFICATION Spec
CONSTANTS
  Stretches = {TRUE, FALSE}
  Prompts = {TRUE, FALSE}
  MaxAhead = 2
INVARIANTS
  AckedBytesDelivered
  LoadedBeforeRelease
  OneByteAhead
  StretchPreventsOverflow
  SclHeldForService
PROPERTIES
  CallbacksInOrder
  SclReleased
  OverflowCleared
CHECK_DEADLOCK FALSE
