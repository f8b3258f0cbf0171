SPECIFICATION Spec
CONSTANTS
  AsksFirst = FALSE
  Prompts = {FALSE}
  Rates <- OneRate
INVARIANTS
  OneEngine
