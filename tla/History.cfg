SPECIFICATION HistorySpec
CONSTANTS
  Workers = {w1, w2}
  NoWorker = NoWorker
  OpIds = {a}
  RestoreIds = {}
  ImportIds = {x, y}
  MaxBatch = 1
  MaxImport = 2
  Alike = {{a, y}}
  PageLimit = 2
  MaxOpens = 1
  MaxLoads = 2
INVARIANTS ImportContiguous ToldOnce
PROPERTIES RequestsEnd
CHECK_DEADLOCK FALSE
