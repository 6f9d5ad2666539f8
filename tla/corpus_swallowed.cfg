CONSTANTS
    NumMsgs = 2
    CreatedAt <- Dense
    MaxRev = 1
    Editable = {}
    Deletable = {1}
    Gap = 1
    MaxMessages = 2
    Lookback = 1
    RewindowLimit = 3
    NetLimit = 3
    Deliveries = 1
    Backfill = FALSE
    MaxFaults = 0
SPECIFICATION MCSpec
CHECK_DEADLOCK FALSE
PROPERTY DeletedEventuallyGone
