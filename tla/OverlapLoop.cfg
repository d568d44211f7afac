SPECIFICATION FairSpec
CONSTANTS
  TargetTokens = 3
  MaxTokens = 5
  MaxPieces = 3
  Settings <- AllSettings
  Documents <- SmallDocuments
PROPERTIES
  Terminates
CHECK_DEADLOCK FALSE
