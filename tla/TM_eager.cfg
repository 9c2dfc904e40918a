SPECIFICATION Spec
CONSTANTS
  Stops = 2
  LocationOf <- TwoStops
  SilentPoIs = {2}
  Watchdogs = {w1}
  Commands = {"nextPoi"}
  Eager = TRUE
  Punctual = TRUE
  LongTexts = FALSE
INVARIANTS TypeOK StandsAtPoI
CHECK_DEADLOCK FALSE
