\* Two clients, every call about speech and hearing, unreliable devices.
SPECIFICATION Spec
CONSTANTS
  Clients = {c1, c2}
  Calls = {"say", "reset", "pauseSpeaking", "continueSpeaking"}
  Statuses = {"Failure"}
  MayFail = TRUE
  LongTexts = FALSE
  MaxSays = 3
SYMMETRY ClientSymmetry
INVARIANTS TypeOK OneVoice
PROPERTIES SpokenInOrder SpeechEndsInSilence KeepsThePromise
CHECK_DEADLOCK FALSE
