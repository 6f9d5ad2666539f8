CONSTANTS
    m1 = m1
    m2 = m2
    s1 = s1
    s2 = s2
    k1 = k1
    k2 = k2
    b1 = b1
    b2 = b2
    Runs = {r1, r2}
    Arguments = {x, y}
    Rounds = 2
    Requests = {q1, q2}
    Callbacks = {c1, c2}
    MaxRefresh = 2
    MaxHitches = 1
    Members = {m1, m2}
    Subjects = {s1, s2}
    Codes = {k1, k2}
    Browsers = {b1, b2}
    MaxRequests = 2
    MaxUnlinks = 1
    MaxSlips = 1
    p1 = p1
    p2 = p2
    f1 = f1
    f2 = f2
    Calls = {f1, f2}
    People = {p1, p2}
    MaxKeys = 2
    MaxTokens = 3
    MaxErrors = 1
    Askers = {bot}
    Sweep = sweep
    MaxAsks = 2
    MaxClock = 3
    MaxCharges = 1
    MaxFaults = 1
    SlowUpserts = TRUE
SPECIFICATION DoorsSpec
INVARIANTS
    ErasureInv
    
    DoorsInv
    FederationInv
    AccountLinksInv
PROPERTIES
    EveryRequestCarriedOut
    OnlyWhileItHolds
    DoorsAnswer
CHECK_DEADLOCK FALSE
