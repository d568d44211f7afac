SPECIFICATION FairSpec
CONSTANTS
  TargetTokens = 3
  HardMaximum = 5
  MaxPieces = 4
  MaxPassages = 3
  Texts <- SmallTexts
  Parsed <- SmallFiles
  AllTexts = {"a", "b", "tall", "blank"}
  Blank = "blank"
  Long = {"tall"}
  Settings <- SmallOverlap
  Documents <- SmallDocuments
  ChunkLists <- SmallChunkLists
  BatchSize = 3
  TokenLimit = 4
  RequestSize = 2
  Lengths = {1, 2}
  Chunks = {1, 2, 3, 4}
  Places <- TwoDocuments
  Searches <- TwoSearches
  FusionLimit = 3
  DenseWeight = 65
  LexicalWeight = 35
  RerankWeight = 70
  RankConstant = 60
  RerankScores = {0, 1}
  Limits <- TwoLimits
  Rankings <- SmallRankings
  MaxTokens = 14
  MinTokens = 3
  Selections <- SmallSelections
  PerDocument = 2
  MaxEvidence = 3
  Files = {"a", "b"}
  Drops <- OneDrop
  Connections = {1, 2}
  MaxLost = 1
INVARIANTS
  BlocksFollowText
  OnlyMarginsGo
  HardCap
  EveryPieceOnce
  DraftIsPassage
  BatchesPartition
  VectorsReachTheirChunks
  FusionAgrees
  OneOfEachTwin
  SelectionFull
  BudgetHolds
  PromptTellsWhatItHolds
  EvidenceSupportsCount
PROPERTIES
  EveryCallReturns
  PageSettles
CHECK_DEADLOCK FALSE
