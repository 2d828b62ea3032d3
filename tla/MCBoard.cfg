SPECIFICATION Spec
CONSTANTS
  p1 = p1
  p2 = p2
  Pages = {p1, p2}
  Live = {p1, p2}
  Drawn = 1
  Opened = {p1}
  Gestures <- SplitGestures
  MaxOps = 2
  MaxUndos = 2
  MaxRequests = 1
INVARIANTS  AgreesWithReplay StackExplainsBoard WatcherMissesNothing
CHECK_DEADLOCK FALSE
