SPECIFICATION ServicesSpec
CONSTANTS
    r1 = r1
    r2 = r2
    c1 = c1
    c2 = c2
    e1 = e1
    e2 = e2
    PlanIds = {r1, r2}
    NoPlanId = NoPlanId
    PlanCalls = {c1, c2}
    PlanQuota = 1
    MaxMoves = 1
    HintIds = {r1, r2}
    NoHintId = NoHintId
    HintCalls = {c1, c2}
    HintQuota = 1
    MaxInFlight = 1
    MaxHeads = 1
    Levels = {1, 2}
    ReportIds = {r1, r2}
    NoReportId = NoReportId
    ReportCalls = {c1, c2}
    ReportQuota = 1
    MaxBasis = 1
    OpCalls = {c1, c2}
    MaxRevision = 2
    AuditCalls = {c1, c2}
    Writers = {w1}
    Metas = {m1}
    Statements = {p1, p2}
    NoStatement = NoStatement
    SourceIds = {i1, i2}
    Texts = {t1, t2}
    Unread = Unread
    Checked = Checked
    MaxVersion = 4
    Tags = {e1, e2}
    MaxInstant = 2
    MaxReviews = 2
    MaxRuns = 2
    Solved = {e1, e2}
    Skills = {k1}
    Consulted = {i1}
    Editors = {w1}
    MaxReading = 1
    MaxRecords = 2
    Contests = {e1, e2}
    Screens = {c1, c2}
    MaxEdits = 4
    Refreshes = {c1, c2}
    Handles = {h1, h2}
    MaxRating = 1
    Horizon = 2
    Budget = 3
    MaxTasks = 2
    MaxPool = 3
    Callers = {c1, c2}
    PageLimit = 1
    Bounds = {0}
    Stamps = {1}
    MaxMade = 3
    Secrets = {t1, t2}
    MaxInvokes = 2
SYMMETRY Requesters
CHECK_DEADLOCK FALSE
INVARIANTS
    ServicesTypesOK
    CallsAudited
    StoredAgrees
PROPERTIES
    PaidCallsSettled
    AnswersFresh
    OperationsKept
    MaterialKept
    EditsLand
