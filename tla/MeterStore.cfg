SPECIFICATION Spec
CONSTANTS
  Instances = {i1, i2}
  Workers = {w1, w2, w3}
  Nil = nil
  LogLength = 3
  Log <- MCLog
  Batches <- MCBatches
  MaxCounter = 6
SYMMETRY Symmetry
INVARIANTS StoreInv AcknowledgedIsCounted RunsAreAcknowledged
PROPERTY ImplementsLedger
CHECK_DEADLOCK FALSE
