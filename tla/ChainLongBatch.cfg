SPECIFICATION SteadySpec
CONSTANTS
  g = g
  a1 = a1
  a2 = a2
  a3 = a3
  b2 = b2
  c1 = c1
  x3 = x3
  alice = alice
  bob = bob
  NoBlock = NoBlock
  Genesis = g
  Block <- MCBlock
  Parent <- MCParent
  Height <- MCHeight
  Diff <- MCDiff
  ValidSigs <- MCBlock
  ValidHeader <- MCBlock
  ValidBody <- MCBlock
  StateRoot <- MCStateRoot
  Account = {alice, bob}
  Touches <- MCTouches
  Value <- MCValue
  InitValue <- MCInitValue
  Effect <- MCEffect
  MaxHeight <- MCMaxHeight
  FinalityDepth = 1
  Batch <- Segments3
  OverrideFactor = 2
PROPERTIES
  FailureRestores
