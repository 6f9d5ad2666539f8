CONSTANTS
    p1 = p1
    p2 = p2
    a1 = a1
    a2 = a2
    a3 = a3
    Nobody = Nobody
    People = {p1, p2}
    Asks = {a1, a3}
    AddresseeOf <- MCAddressee
    BatchWindow = 1
    MinInterval = 2
    MaxAge = 1
    ExpireAfter = 2
    MaxItems = 1
    RecipientsPerPass = 2
    MaxPass = 1
    MaxMoves = 1
    MaxFaults = 0
SPECIFICATION Spec
INVARIANTS
    DeliveredNeverRequeued
