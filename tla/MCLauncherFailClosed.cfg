SPECIFICATION PartSpec
CONSTANTS
    Launchers = {l1, l2, l3}
    Tools = {t}
    Overlap = FALSE
    NumModels = 2
    NumBenches = 2
    Bound = {2}
    MaxInterrupts = 0
    NumTasks = 2
    MaxRetries = 2
CHECK_DEADLOCK FALSE
INVARIANTS
    FailClosed
