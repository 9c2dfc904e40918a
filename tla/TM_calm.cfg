SPECIFICATION FairSpec
CONSTANTS
  Stops = 3
  LocationOf <- ThreeStops
  SilentPoIs = {2}
  Watchdogs = {w1}
  Commands = {"explain", "fallback", "nextPoi", "resetTourManager"}
  Eager = FALSE
  Punctual = FALSE
  LongTexts = TRUE
INVARIANTS AtPoIMeansThere FallbacksBounded LoadsInRange
PROPERTIES CallsReturn SkipsOnlyWhenThere
CHECK_DEADLOCK FALSE
