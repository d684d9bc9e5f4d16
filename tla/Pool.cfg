SPECIFICATION Spec
CONSTANTS
  alice = alice
  t1 = t1
  t2 = t2
  t3 = t3
  Tx <- MCTx
  Account = {alice}
  MaxBytes = 2
  EvictBatch = 1
  MaxGap = 0
  MaxInserting = 1
  MaxRemoving = 1
  MaxOld = 1
  BytesBound = 2
INVARIANTS
  TypeOK
  QueueIsPending
  BytesCovered
  ReserveCovered
PROPERTIES
  SweepClears
