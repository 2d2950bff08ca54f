SPECIFICATION Spec
CONSTANTS
    Parts = {"sharing", "encrypted", "requests", "progress", "table", "config", "types", "tree", "ignore", "case", "versions", "media", "store", "maintenance", "api", "app", "events", "watch", "overflow", "scan", "backup", "desktop", "dropbox"}
    SharedFolders = {"f", "g"}
    MaxUserEdits = 1
    MaxCCs = 2
    SharePasswords = {"p", "q"}
    MaxSessions = 2
    Requesters = {1, 2}
    Subscribers = {"s"}
    QueueMax = 1
    MaxStops = 1
    MaxSaveFails = 1
    MaxUnsubs = 1
    MaxTreeEdits = 2
    MaxRemotes = 2
    IgnoreNames = {"a", "b"}
    IgnoreLists <- PairsOfLines
    IgnoreEdits <- IgnoreFiles
    MaxIgnoreEdits = 2
    DBThreads = {1, 2}
    DBFiles = {"a", "b"}
    MaxDBNames = 3
    MaxDBOpens = 4
    MaxDBCrashes = 2
    RowNames = {"m"}
    RowVersions = {"v", "w"}
    BlockLists = {"k", "l"}
    MaxUpdates = 3
    MaxDBFaults = 1
    StopCallers = {1, 2}
    MaxAppFaults = 2
    MaxAppCrashes = 1
    ScanFiles <- FilesAndDir
    HashRoutines = {1, 2}
    MaxScanEdits = 1
    BlockContents = {"x", "y"}
    ProjectFiles = {"f1"}
    MaxContent = 2
    MaxBackupFaults = 2
    MaxEnables = 3
    MaxPulls = 1
    QueueLen = 1
    MaxTokens = 3
    MaxDaemonFaults = 2
    BoxCallers = {"c1", "c2"}
    MaxAccounts = 2
    MaxBoxFaults = 2
    ImportPaths <- SameNameTwice
INVARIANTS   FoldersSafe TreesSafe  VersionsSafe  ServicesSafe ScanSafe  
PROPERTIES UserSharesStay
CHECK_DEADLOCK FALSE
