SPECIFICATION Spec
CONSTANTS
  Workers = {w1, w2}
  NoWorker = NoWorker
  OpIds = {a, b}
  RestoreIds = {r}
  ImportIds = {}
  MaxBatch = 2
  MaxImport = 0
SYMMETRY Symmetry
INVARIANTS LedgerDense AppliedOnce NoBlindWrite AcksTruthful 
PROPERTIES  RetryIsAcknowledged ImplementsOpLog
CHECK_DEADLOCK FALSE
