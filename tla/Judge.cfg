SPECIFICATION FairSpec
CONSTANTS
    t1 = t1
    t2 = t2
    t3 = t3
    Tasks <- ThreeTasks
    Batch = 2
    Repeat = 3
    MaxRetries = 2
    MaxFaults = 1
INVARIANT ScoredWithOutcomes
PROPERTY ImplementsBoard
PROPERTY QueueDrains
