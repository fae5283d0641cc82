SPECIFICATION Spec
CONSTANTS
    p1 = p1  p2 = p2  b1 = b1  b2 = b2  s1 = s1  s2 = s2  r1 = r1
    Pipelines = {p1}
    BatchIds = {b1}
    Snapshots = {s1}
    Reruns = {}
    Legacy = Legacy
    None = None
    Availability <- Editorial
    SupportedRoles <- AllRoles
    LimitChoices <- RaisedBudgets
    JobLimits <- WideJob
    MaxAttempts = 2
    MaxRetries = 1
    Concurrency = 1
    Moving = {}
    MaxManualRevision = 0
    Faults = {"store", "crash"}
    LeaseOutlivesCall = FALSE
INVARIANTS AccountingExact PaidWork
PROPERTIES ImplementsLedger
CHECK_DEADLOCK FALSE
