SPECIFICATION PromptedSpec
CONSTANTS
  Tabs = {t1}
  LiveTabs = {}
  Ids <- OwnIds
  PartnerIds <- PartnersIds
  Ticks <- EachLater
  MaxRetries = 1
  MaxPending = 5
  Archives = FALSE
  ManyBoards = FALSE
  MaxFaults = 1
  MaxOpens = 2
INVARIANTS  SyncedIsTrue
PROPERTIES QueueSettles
CHECK_DEADLOCK FALSE
