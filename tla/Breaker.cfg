SPECIFICATION FairSpec
CONSTANTS
    m1 = m1
    m2 = m2
    e1 = e1
    Slots <- ThreeSlots
    Domains <- BothDomains
    DomainOf <- DomainOfSlot
    Threshold = 3
PROPERTY TurnsAreEarned
PROPERTY Recovers
PROPERTY ErrorDomainAsPromised
