\* The status arrives before the sound and keeps up with the recorder.
SPECIFICATION FairSpec
CONSTANTS
  BufferSize = 1
  Adversities = {}
  MaxQueue = 1
  MaxPackets = 3
  Sounds <- SomeSounds
INVARIANTS NoMutexCycle
PROPERTIES StatusHandled HearsAgain
