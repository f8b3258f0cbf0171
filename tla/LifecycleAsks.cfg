SPECIFICATION Spec
CONSTANTS
  AsksFirst = TRUE
  Prompts = {TRUE, FALSE}
  Rates <- AllRates
INVARIANTS
  OneEngine
  RecordsAgree
  ServesSlaveOnly
  FreshSlaveUndisturbed
  ServesWholeConfig
  RunsAtAskedRate
PROPERTIES
  ClockChangesOff
