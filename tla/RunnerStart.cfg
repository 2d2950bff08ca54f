CONSTANTS
    Callers = {c1}
    Paths = {p1}
    MaxEvents = 1
    Delayed = FALSE
    Watcher = TRUE
    Versioned = FALSE
    StartMayFail = TRUE
    PauseLimit = 2
CHECK_DEADLOCK FALSE
SPECIFICATION FairSpec
PROPERTIES FirstScanHappens
