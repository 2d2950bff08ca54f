SPECIFICATION NetSpec
CONSTANTS
    Parts = {"nat"}
    Callers = {1, 2}
    Sizes = {1, 3}
    Capacities = {0, 3}
    InitialMax = 2
    Reqs = {"r1"}
    Asked = {"a1"}
    MaxOther = 1
    Slots = {1, 2, 3}
    Prios = {1, 2}
    Single = {2}
    Numbers = 1
    Threshold = 0
    Removing = FALSE
    MaxConnFaults = 1
    Peers = {p}
    MaxAttempts = 3
    MaxLosses = 5
    MaxRuns = 2
    Resets = FALSE
    MaxNatFaults = 3
    OutboxLen = 1
    MaxInstances = 2
    MaxAddrs = 2
    MaxLost = 1
    MaxResets = 2
    Addrs = {0, 1, 2}
    MaxGlobalFaults = 2
PROPERTY ListenerStops
CHECK_DEADLOCK FALSE
