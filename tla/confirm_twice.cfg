CONSTANTS
    Runs = {r1, r2}
    Arguments = {x, y}
    Rounds = 2
SPECIFICATION ConfirmationsSpec
INVARIANT OneCallPerApproval
CHECK_DEADLOCK FALSE
