SPECIFICATION FairTreeSpec
CONSTANTS
  Stops = 2
  LocationOf <- Apart
  SilentPoIs = {2}
  Watchdogs = {}
  Commands = {"nextPoi"}
  Eager = FALSE
  Punctual = TRUE
  LongTexts = TRUE
  Readings <- MotorReadings
  Crowds = {0, 1}
PROPERTIES RobotGoes
CHECK_DEADLOCK FALSE
