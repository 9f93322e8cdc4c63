SPECIFICATION Spec
SYMMETRY SameCaller
CONSTANTS
    u1 = u1
    r1 = r1
    r2 = r2
    r3 = r3
    r4 = r4
    r5 = r5
    Users = {u1}
    NoUser = NoUser
    Requests = {r1, r2, r3, r4, r5}
    Caller <- Callers
    Path <- TestPaths
    Limit = 2
    Window = 4
    Grace = 1
    MaxLag = 2
    RedisFails = TRUE
    LastTick = 10
CHECK_DEADLOCK FALSE
INVARIANTS
    TypeOK
    RateBound
PROPERTIES
    RefusedOnlyOverLimit
