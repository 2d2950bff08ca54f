CONSTANTS
    Callers = {c1}
    Paths = {}
    MaxEvents = 2
    Delayed = FALSE
    Watcher = FALSE
    Versioned = FALSE
    StartMayFail = FALSE
    PauseLimit = 2
CHECK_DEADLOCK FALSE
SPECIFICATION FairSpec
PROPERTIES  CallersReturn
