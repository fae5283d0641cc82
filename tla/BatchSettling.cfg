SPECIFICATION AnswersSpec
CONSTANTS
    b1 = b1
    b2 = b2
    Batches = {b1, b2}
    ItemCount = 2
    MaxQueue = 1
    Faults <- Aborts
CHECK_DEADLOCK FALSE
PROPERTIES
    RunningSettles
