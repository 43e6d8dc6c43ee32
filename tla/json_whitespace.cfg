SPECIFICATION Spec
CONSTANTS
  Inputs <- SpacedTexts
  Strings <- MCStrings
  Rank <- MCRank
  TooLong = {"long"}
  MaxTokens = 100
  MAX_RECURSION_DEPTH = 6
INVARIANTS
  NoSpacesAccepted
CHECK_DEADLOCK FALSE
