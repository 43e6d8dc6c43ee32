SPECIFICATION Spec
CONSTANTS
  Inputs <- AllTexts
  Strings <- MCStrings
  Rank <- MCRank
  TooLong = {"long"}
  MaxTokens = 100
  MAX_RECURSION_DEPTH = 6
INVARIANTS
  TypeOK
  ScanIsExact
  AcceptedIsValid
  RejectedWithCause
  FoundIsAnItem
  EveryItemMet
PROPERTIES
  Answered
CHECK_DEADLOCK FALSE
