SPECIFICATION FairLimiterSpec
CONSTANTS
    m1 = m1
    m2 = m2
    m3 = m3
    e1 = e1
    e2 = e2
    Tasks <- FiveTasks
    Runs <- TwoRuns
    RunOf <- RunOfTask
    Config <- Differing
    PerAgent <- OwnAgent
    Global <- OwnGlobal
    DefaultPerAgent = 2
    DefaultGlobal = 2
    Reaped = {}
    MaxAborts = 2
\* all cases are done in the end
CHECK_DEADLOCK FALSE
INVARIANT CallsWithinQuota
PROPERTY ImplementsSlots
PROPERTY EveryCaseServed
