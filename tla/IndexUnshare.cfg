CONSTANTS
    Names = {n1}
    MaxSeq = 1
    MaxBatchSizeFiles = 1
    MaxID = 1
    MaxFaults = 2
    MaxConfigs = 0
    MaxCC = 1
    ReceiveEncrypted = FALSE
SPECIFICATION SpecConfig
PROPERTY DeltaIsEnough
CHECK_DEADLOCK FALSE
