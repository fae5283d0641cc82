SPECIFICATION FairSpec
CONSTANTS
    p1 = p1  p2 = p2  b1 = b1  b2 = b2  s1 = s1  s2 = s2  r1 = r1
    Pipelines = {p1}
    BatchIds = {b1}
    Snapshots = {s1}
    Reruns = {}
    Legacy = Legacy
    None = None
    Availability <- Editorial
    SupportedRoles <- AllRoles
    LimitChoices <- AmpleBudgets
    JobLimits <- TightJob
    MaxAttempts = 2
    MaxRetries = 1
    Concurrency = 1
    Moving = {s1}
    MaxManualRevision = 1
    Faults = {"token"}
    LeaseOutlivesCall = TRUE
PROPERTIES FreshOnly RunsSettle
CHECK_DEADLOCK FALSE
