SPECIFICATION FairSpec
CHECK_DEADLOCK FALSE
CONSTANTS
    p1 = p1
    p2 = p2
    alice = alice
    Pages = {p1, p2}
    OwnerOf <- Tabs
    Conns = {1, 2}
    NoConn = NoConn
    MaxConnections = 1
    MaxAttempts = 1
    Scenes <- AllScenes
INVARIANTS
    NobodyLockedOut
    CapUnlessRefunded
    OneWayBack
    BeatsWhileOpen
PROPERTIES
    RevokedLeaves
