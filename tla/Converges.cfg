SPECIFICATION Spec
CONSTANTS
  p1 = p1
  p2 = p2
  Pages = {p1, p2}
  Live = {p1}
  Drawn = 1
  Opened = {p1, p2}
  Gestures <- SplitGestures
  MaxOps = 2
  MaxUndos = 0
  MaxRequests = 1
INVARIANTS Converges
CHECK_DEADLOCK FALSE
