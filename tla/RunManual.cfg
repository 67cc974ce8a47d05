SPECIFICATION FairSpec
CONSTANTS
    c1 = c1
    c2 = c2
    Cases <- TwoCases
    Kind = "manual"
    JudgeModes = {TRUE, FALSE}
    MaxFaults = 1
    MaxRetries = 1
    MaxRequests = 1
\* a run ends
CHECK_DEADLOCK FALSE
INVARIANT CompletedMeansJudged
PROPERTY NoResurrection
PROPERTY NoSampleAfterReap
PROPERTY Converges
