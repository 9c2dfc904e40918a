\* Fair threads and reliable devices; the clients pause the player and turn
\* the microphone on as well.
SPECIFICATION FairSpec
CONSTANTS
  Clients = {c1, c2}
  Calls = {"say", "reset", "pauseSpeaking", "continueSpeaking", "startHearing"}
  Statuses = {}
  MayFail = FALSE
  LongTexts = TRUE
  MaxSays = 2
PROPERTIES EveryTextIsSpoken SpeechEnds CallsReturn HearsOnlyOthers
\* A paused player and resets of all the clients wait for each other.
CHECK_DEADLOCK FALSE
