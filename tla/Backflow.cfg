SPECIFICATION FairSpec
CONSTANTS
    p1 = p1
    p2 = p2
    w1 = w1
    w2 = w2
    b1 = b1
    Payloads <- TwoPayloads
    Pullers <- TwoPullers
    Probers <- OneProber
    Contents = {"good", "wordless", "fileless"}
    PullLimit = 2
    MaxRequeues = 1
    MaxFaults = 1
\* every payload is answered
CHECK_DEADLOCK FALSE
INVARIANT RowKeepsItsWord
PROPERTY ImplementsLink
PROPERTY Answered
