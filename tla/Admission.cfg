SPECIFICATION FairSpec
CONSTANTS
    q1 = q1
    q2 = q2
    q3 = q3
    v1 = v1
    v2 = v2
    Requests <- ThreeRequests
    Versions <- TwoVersions
    VersionOf <- VersionOfRequest
    MaxActive = 2
    MaxFaults = 1
\* all requests are answered, all versions regressed
CHECK_DEADLOCK FALSE
INVARIANT ActiveWithinLimit
PROPERTY ImplementsLedger
PROPERTY EveryVersionRegressed
