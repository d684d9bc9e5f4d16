SPECIFICATION LiveSpec
CONSTANTS
  Block <- MCBlock
  Genesis <- MCGenesis
  Parent <- MCParent
  Height <- MCHeight
  Diff <- MCDiff
  FinalityDepth = 2
  OverrideFactor = 2
  BodySpan = 6
  ChunkSize = 4
  StepBacks <- MCStepBacks
  StartTips <- Mine
  PeerSwitches = FALSE
  HeaderSpan = 5
  SmartAnswers <- LongAnswers
  SmartFails = TRUE
  NetworkFails = FALSE
  LocalBlocks <- Nothing
  CachedBlocks <- Nothing
  PeerTips <- NearTips
INVARIANTS
  HonestUnpunished
PROPERTIES
  CatchesUp
