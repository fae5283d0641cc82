SPECIFICATION Spec
CONSTANTS
    p1 = p1  p2 = p2  b1 = b1  b2 = b2  s1 = s1  s2 = s2  r1 = r1
    Pipelines = {p1}
    BatchIds = {b1, b2}
    Snapshots = {s1}
    Reruns = {r1}
    Legacy = Legacy
    None = None
    Availability <- NoEditorial
    SupportedRoles <- AllRoles
    LimitChoices <- OneCall
    JobLimits <- WideJob
    MaxAttempts = 1
    MaxRetries = 0
    Concurrency = 1
    Moving = {}
    MaxManualRevision = 0
    Faults = {"crash"}
    LeaseOutlivesCall = TRUE
INVARIANTS ResultsBacked
PROPERTIES HistoryKept
CHECK_DEADLOCK FALSE
