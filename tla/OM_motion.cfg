SPECIFICATION FairMotionSpec
CONSTANTS
  Frames <- Passers
  Angles = {0, 1}
  Limit = 3
  Cap = 4
  Started <- Applications
INVARIANTS MotionTypeOK
PROPERTIES LostWhileFaulty StopsWhenLost Recovers HeadLooksBack HeadFollowsPath HeadComesToRest
CHECK_DEADLOCK FALSE
