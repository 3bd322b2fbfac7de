SPECIFICATION Spec
CONSTANTS
  NumNodes = 3
  ReplacementRate = "sometimes"
  SkipClientCreation = TRUE
  Hung <- MCHung
  MaxNames = 5
PROPERTY SkipDisablesReplacement
