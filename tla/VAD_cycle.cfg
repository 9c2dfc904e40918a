\* The first status of the recorder arrives while sound is being processed.
SPECIFICATION FairSpec
CONSTANTS
  BufferSize = 1
  Adversities = {"lateStatus"}
  MaxQueue = 1
  MaxPackets = 3
  Sounds <- SomeSounds
PROPERTIES StatusHandled
CHECK_DEADLOCK FALSE
