CONSTANTS
    Askers = {bot, console}
    Sweep = sweep
    MaxAsks = 1
    MaxClock = 2
    MaxCharges = 0
    MaxFaults = 0
    SlowUpserts = FALSE
SPECIFICATION FairSpec
CHECK_DEADLOCK FALSE
PROPERTY EveryRequestCloses
