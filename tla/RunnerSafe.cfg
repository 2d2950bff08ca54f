CONSTANTS
    Callers = {c1}
    Paths = {p1, p2}
    MaxEvents = 4
    Delayed = TRUE
    Watcher = TRUE
    Versioned = TRUE
    StartMayFail = TRUE
    PauseLimit = 2
CHECK_DEADLOCK FALSE
SPECIFICATION Spec
INVARIANTS TypeOK  RescanNotForgotten WatchedWhenHealthy
