CONSTANTS
    a1 = a1
    a2 = a2
    n1 = n1
    n2 = n2
    s1 = s1
    Channels = {c1}
    Asks = {a1, a2}
    MaxTurns = 5
    RecentTurns = 1
    SummariseAfter = 2
    MaxAccess = 1
    MaxForgets = 1
    MaxPurges = 1
    MaxMisses = 1
    People = {p1, p2}
    Sources = {d, s}
    Destinations = {d}
    Ttl = 1
    MaxMoves = 2
    MaxGaps = 1
    MaxScopes = 1
    Texts = {q, t}
    Asked = q
    Windows = {w1, w2}
    MaxLines = 2
    FixedAttempts = 2
    LoopAttempts = 3
    Widest = 1
    Speakers = {s1, s2}
    Notes = {n1, n2}
    MaxSeconds = 2
    PersonCap = 2
    OverallCap = 3
    MaxQuestions = 1
    LimitWindow = 1
    Months = 2
    MaxTicks = 1
    MaxStops = 1
    MaxFolds = 1
SPECIFICATION AnswersSpec
INVARIANTS
    AnswersTypeOK
    MemoryInv
    AudienceInv
    ReasoningInv
    VoiceInv
PROPERTIES
    QuestionsAnswered
CHECK_DEADLOCK FALSE
