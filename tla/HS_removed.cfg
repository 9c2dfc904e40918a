\* A reset and a new text while the old one is being spoken.
SPECIFICATION Spec
CONSTANTS
  Clients = {c1}
  Calls = {"say", "reset"}
  Statuses = {}
  MayFail = FALSE
  LongTexts = TRUE
  MaxSays = 2
PROPERTIES RemovesWhatItSpoke
