SPECIFICATION Spec
CONSTANTS
  Tabs = {t1}
  LiveTabs = {t1}
  Ids <- OneId
  PartnerIds <- PartnersIds
  Ticks <- EachLater
  MaxRetries = 0
  MaxPending = 5
  Archives = TRUE
  ManyBoards = FALSE
  MaxFaults = 1
  MaxOpens = 1
INVARIANTS NothingLost AnchorBehindBoard
CHECK_DEADLOCK FALSE
