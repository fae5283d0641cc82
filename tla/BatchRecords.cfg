SPECIFICATION Spec
CONSTANTS
    b1 = b1
    b2 = b2
    Batches = {b1, b2}
    ItemCount = 2
    MaxQueue = 2
    Faults <- Crashes
SYMMETRY BatchSymmetry
CHECK_DEADLOCK FALSE
INVARIANTS
    RecordsValid
    OneRead
    StatusTruthful
PROPERTIES
    CompletedKept
    RunsQuiet
