CONSTANTS
    NumMsgs = 2
    Old = 1
    Bots = {}
    Deletable = {}
    PageSize = 2
    MaxPages = 2
    Since = 1
    MaxFaults = 0
SPECIFICATION Spec
CHECK_DEADLOCK FALSE
INVARIANT OnlyDeletedTombstoned
