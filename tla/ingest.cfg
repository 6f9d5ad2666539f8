CONSTANTS
    NumMsgs = 5
    Old = 4
    Bots = {2}
    Deletable = {2, 3}
    PageSize = 2
    MaxPages = 3
    Since = 3
    MaxFaults = 1
    asker = asker
    author = author
    post = post
    t1 = t1
    t2 = t2
    NumPosts = 2
    MaxRevision = 2
    MaxQueued = 1
    PerPass = 2
    BatchMessages = 1
    MaxDeleted = 1
    MaxResets = 1
    MaxMishaps = 1
    TraceIds = {t1, t2}
    Quotable = {post}
    AskerOf <- MCAskerOf
    AuthorOf <- MCAuthorOf
    DrainBatch = 1
    MaxOuts = 2
    MaxFailures = 1
    d1 = d1
    d2 = d2
    h1 = h1
    h2 = h2
    Shares = {d1, d2}
    Hands = {h1, h2}
    MaxSourceRevision = 2
    MaxAttempts = 1
SPECIFICATION IngestSpec
INVARIANTS
    IngestInv
    CursorCovers
    MarkedIsRead
    TracesInv
PROPERTIES
    MissedOnlyIfNewer
    IngestCatchesUp
CHECK_DEADLOCK FALSE
