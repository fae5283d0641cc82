SPECIFICATION LuoguSpec
CONSTANTS
    MaxRefs = 4
    s1 = s1
    a1 = a1
    a2 = a2
    k1 = k1
    k2 = k2
    s2 = s2
    c1 = c1
    c2 = c2
    Accounts = {a1, a2}
    NoAccount = NoAccount
    Services = {s1, s2}
    Nobody = Nobody
    Calls = {c1, c2}
    Configured = 1
    Platform = 2
    RetryAfters = {0, 1, 4}
    MaxClock = 8
    PageSize = 1
    Overlap = 0
    Failing = {}
    MaxMade = 2
    Keys = {k1, k2}
    NoKey = NoKey
    MaxBacklog = 1
    PageKeys = 1
    HttpRequests = {c1, c2}
    Intervals = {2}
    Delays = {0, 1, 3}
    MaxRetryAfter = 1
    MaxRetries = 1
    MaxRedirects = 1
    MaxHttpClock = 5
    Openers = {s1, s2}
    CurrentVersion = 3
    Silent = {2}
    MaxNames = 2
    MaxWrites = 1
    Mirrored = {1}
    Native = {2}
    BankLimit = 1
    Disposals = {"active", "trashed"}
    MaxRated = 1
    MaxSynced = 1
    Exercises = {k1, k2}
    Nodes = {1, 2, 3}
    ParentOf <- TaxonomyChain
    Techniques = {3}
    Tagged = {2, 3}
    Gradings = {0, 800, 1900}
    RecentDays = 1
    MinSamples = 1
    MinIndependent = 2
    LastDay = 2
    MaxFacts = 3
SYMMETRY Interchangeable
CHECK_DEADLOCK FALSE
INVARIANTS
    LuoguTypesOK
    Addressable
    CleanLeavesNothing
    HistoryCovered
PROPERTIES
    SessionKept
    ConnectedIsBacked
    StoreKept
    RequestsPaced
