CONSTANTS
    NumMsgs = 3
    CreatedAt <- Dense
    MaxRev = 1
    Editable = {1, 2}
    Deletable = {1}
    Gap = 1
    MaxMessages = 2
    Lookback = 1
    RewindowLimit = 2
    NetLimit = 1
    Deliveries = 2
    Backfill = TRUE
    MaxFaults = 1
    a = a
    b = b
    r1 = r1
    r2 = r2
    Channels = {a, b}
    OldMsgs = 2
    IndexRequests = {r1, r2}
    PageOf = 1
    MaxPosts = 1
    MaxConsole = 1
    MaxTroubles = 1
    MaxStops = 1
SPECIFICATION ArchiveSpec
INVARIANTS TypeOK OneLiveWindow FreshOrDue NoResurrection IndexingInv
PROPERTIES NoDeadPublished TombstonesStick EventuallyCurrent ListIsFollowed
CHECK_DEADLOCK FALSE
