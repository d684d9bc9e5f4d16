SPECIFICATION LiveSpec
CONSTANTS
  ann = ann
  eve = eve
  m = m
  Peer = {ann, eve}
  Honest = {ann}
  Tip <- MCTip
  Missing = {m}
  Level <- MCLevel
  Job = {j1, j2}
  MaxHeight = 3
  MaxArrivals = 2
  Near = 2
  StrikeLimit = 1
  NoCase = NoCase
  NoPeer = NoPeer
  NoHash = NoHash
INVARIANTS
  TypeOK
  OneCatchUp
  
PROPERTIES
  
  CasesClose
CHECK_DEADLOCK FALSE
