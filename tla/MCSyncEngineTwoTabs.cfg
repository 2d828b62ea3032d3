SPECIFICATION Spec
CONSTANTS
  Tabs = {t1, t2}
  LiveTabs = {}
  Ids <- OneId
  PartnerIds = {}
  Ticks <- EachLater
  MaxRetries = 0
  MaxPending = 5
  Archives = FALSE
  ManyBoards = TRUE
  MaxFaults = 1
  MaxOpens = 2
SYMMETRY Symmetry
INVARIANTS NothingLost
CHECK_DEADLOCK FALSE
