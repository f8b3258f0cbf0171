SPECIFICATION Spec
CONSTANTS
  Stretches = {TRUE}
  Prompts = {FALSE}
  MaxAhead = 2
PROPERTIES
  ReentryHoldsNoClock
CHECK_DEADLOCK FALSE
