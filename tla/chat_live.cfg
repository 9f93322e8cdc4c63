SPECIFICATION FairSpec
CONSTANTS
    u1 = u1
    r1 = r1
    r2 = r2
    r3 = r3
    Users = {u1}
    Threads = {t1, t2}
    Runs = {r1, r2}
    Caller <- OneCaller
    Agents = {known}
    KnownAgents = {known}
    Limit <- SmallLimit
    MaxNodes = 0
    Faults = {}
    NoThread = NoThread
PROPERTIES
    RunsEnd
    RunningIsTemporary
