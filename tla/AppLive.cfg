SPECIFICATION AppSpec
CONSTANTS
    Devices = {1, 2}
    MaxEdits = 3
    MaxCrashes = 1
    Ticks = {1}
    Backdating = FALSE
    Touching = TRUE
    Components = {"sync", "backup", "desktop", "table", "requests", "items", "tree", "media", "api", "app", "events", "watch", "scan"}
    f1 = f1
    d1 = d1
    x1 = x1
    c1 = c1
    nofile = nofile
INVARIANTS NothingLost VersionMeansContent QuietMeansEqual 
 
CHECK_DEADLOCK FALSE
