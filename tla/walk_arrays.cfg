SPECIFICATION Spec
CONSTANTS
  Inputs <- Irregular
  Strings <- MCStrings
  Rank <- MCRank
  TooLong = {"long"}
  MaxTokens = 100
  MAX_RECURSION_DEPTH = 6
INVARIANTS
  AllElementsMet
CHECK_DEADLOCK FALSE
