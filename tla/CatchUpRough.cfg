SPECIFICATION LiveSpec
CONSTANTS
  Block <- MCBlock
  Genesis <- MCGenesis
  Parent <- MCParent
  Height <- MCHeight
  Diff <- MCDiff
  FinalityDepth = 2
  OverrideFactor = 2
  BodySpan = 5
  ChunkSize = 4
  StepBacks <- MCStepBacks
  StartTips <- Mine
  PeerSwitches = TRUE
  HeaderSpan = 10
  SmartAnswers <- ShortAnswers
  SmartFails = TRUE
  NetworkFails = TRUE
  LocalBlocks <- Own
  CachedBlocks <- Stray
  PeerTips <- AllTips
INVARIANTS
  TypeOK
  JudgesAgree
PROPERTIES
  AmnestyIsEarned
  CatchUpEnds
