SPECIFICATION Spec
CONSTANTS
  NoTemplate = NoTemplate
  Request = {r1, r2}
  Nonce <- MCNonce
  MaxTemplates = 3
  MaxHeight = 2
  MaxCredits = 2
  MaxUnsaved = 1
  PoolShare <- MCPoolShare
  NetworkBlock <- MCNetworkBlock
SYMMETRY MCSymmetry
INVARIANTS
  CreditedOnce
  PaidOnce
  RecordsOnDisk
