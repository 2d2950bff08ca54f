CONSTANTS
    Names = {n1, n2}
    MaxSeq = 3
    MaxBatchSizeFiles = 1
    MaxID = 2
    MaxFaults = 2
    MaxConfigs = 2
    MaxCC = 1
    ReceiveEncrypted = TRUE
SPECIFICATION Spec
INVARIANTS PrefixComplete NothingStale NoSequenceAnomaly
PROPERTIES CopiesInOrder Converges
CHECK_DEADLOCK FALSE
