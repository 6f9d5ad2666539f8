CONSTANTS
    Askers = {bot, console}
    Sweep = sweep
    MaxAsks = 1
    MaxClock = 2
    MaxCharges = 0
    MaxFaults = 1
    SlowUpserts = FALSE
SPECIFICATION Spec
CHECK_DEADLOCK FALSE
INVARIANT OptOutKept
