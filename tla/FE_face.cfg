SPECIFICATION FairSpec
CONSTANTS
  Requests <- SomeRequests
  Vocabs = {"RESET", "BLACK_RESET"}
PROPERTIES RequestsAnswered StaysBlack DrawnAgain
