\* Every adversity; the two mutexes can then block each other for good.
SPECIFICATION Spec
CONSTANTS
  BufferSize = 2
  Adversities = {"lateStatus", "quickRestart", "stopIgnored"}
  MaxQueue = 2
  MaxPackets = 4
  Sounds <- SomeSounds
INVARIANTS TypeOK PacketsKept WholeUtterance SomeoneReopens
CHECK_DEADLOCK FALSE
