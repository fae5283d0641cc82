SPECIFICATION Spec
CONSTANTS
    p1 = p1  p2 = p2  b1 = b1  b2 = b2  s1 = s1  s2 = s2  r1 = r1
    Pipelines = {p1, p2}
    BatchIds = {b1}
    Snapshots = {s1}
    Reruns = {}
    Legacy = Legacy
    None = None
    Availability <- NoEditorial
    SupportedRoles <- AllRoles
    LimitChoices <- ReasoningBudgets
    JobLimits <- WideJob
    MaxAttempts = 1
    MaxRetries = 0
    Concurrency = 1
    Moving = {}
    MaxManualRevision = 0
    Faults = {"crash"}
    LeaseOutlivesCall = TRUE
SYMMETRY PipelineSymmetry
INVARIANTS TypeOK OneCallInFlight AdoptedIffSucceeded
PROPERTIES StoppedBatchSpendsNothing
CHECK_DEADLOCK FALSE
