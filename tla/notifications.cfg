CONSTANTS
    p1 = p1
    p2 = p2
    a1 = a1
    a2 = a2
    a3 = a3
    Nobody = Nobody
    People = {p1}
    Asks = {a1, a2}
    AddresseeOf <- MCAddressee
    BatchWindow = 1
    MinInterval = 2
    MaxAge = 0
    ExpireAfter = 1
    MaxItems = 1
    RecipientsPerPass = 1
    MaxPass = 1
    MaxMoves = 1
    MaxFaults = 1
SPECIFICATION FairSpec
INVARIANTS
    TypeOK
    SentMeansTold
    UnreadableMeansRevoked
    KnowsHowToStop
PROPERTIES
    RateKept
    EverySettles
