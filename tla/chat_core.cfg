SPECIFICATION Spec
CONSTANTS
    u1 = u1
    r1 = r1
    r2 = r2
    r3 = r3
    Users = {u1}
    Threads = {t1}
    Runs = {r1, r2}
    Caller <- OneCaller
    Agents = {known, unknown}
    KnownAgents = {known}
    Limit <- SmallLimit
    MaxNodes = 1
    Faults = {"disconnect", "crash", "db"}
    NoThread = NoThread
SYMMETRY RunSymmetry
INVARIANTS
    TypeOK
    DoneIsBilled
    RevisedOnlyOnFailure
    RunningHasOwner
    DoneRetractedOnlyByLoss
    BilledIsDelivered
PROPERTIES
    DeletedStaysDeleted
    KeepsContract
