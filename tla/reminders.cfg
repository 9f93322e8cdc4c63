SPECIFICATION FairSpec
CONSTANTS
    i1 = i1
    i2 = i2
    i3 = i3
    Ids = {i1, i2, i3}
    Deadline <- OneADay
    LastDay = 2
    Deliverable = {i2, i3}
    MaxFaults = 2
    None = None
INVARIANTS
    TypeOK
    PushedOncePerLostMark
    SentWasPushed
PROPERTIES
    DueIsSent
