SPECIFICATION FairTreeSpec
CONSTANTS
  Stops = 1
  LocationOf <- Apart
  SilentPoIs = {1}
  Watchdogs = {"motors"}
  Commands = {}
  Eager = FALSE
  Punctual = TRUE
  LongTexts = TRUE
  Readings <- MotorReadings
  Crowds = {0}
INVARIANTS TreeTypeOK
PROPERTIES TickReturns FaultStopsRobot RobotGoes
CHECK_DEADLOCK FALSE
