CONSTANTS
    Versions <- MCVersions
    MaxClusters = 2
    Scanners = {w1}
    Requests = {api}
    Retain = 1
    Batch = 1
    MaxRetries = 1
    MaxRuns = 4
    MaxActive = 2
    LastTime = 1
SPECIFICATION PushSpec
INVARIANT WatermarksHold
PROPERTY CleanupSpares
PROPERTY EveryClusterSettled
CHECK_DEADLOCK FALSE
