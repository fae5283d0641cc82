SPECIFICATION ClosingSpec
CONSTANTS
    b1 = b1
    b2 = b2
    Batches = {b1, b2}
    ItemCount = 1
    MaxQueue = 1
    Faults <- StoreFaults
    Accounts = {a1, a2}
    NoAccount = NoAccount
    Services = {s1}
    Nobody = Nobody
    MaxRequests = 1
    MaxSweep = 1
    RenewalWaits = TRUE
    StoreClients = {a1, a2, a3}
    MaxInner = 2
    Clients = {a1}
    ModelCalls = {c1}
    Views = {p1, p2}
    NoView = NoView
    MaxServed = 2
    MaxClicks = 3
CHECK_DEADLOCK FALSE
INVARIANTS
    ClosingTypesOK
    WorkOutlivesNothing
PROPERTIES
    EverythingCloses
    SlotKept
    TransactionsServed
    ViewsFollow
