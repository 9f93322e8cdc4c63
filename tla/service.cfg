SPECIFICATION FairSpec
CONSTANTS
    Requests = {r1, r2}
    Jobs = {j1}
    PoolSize = 1
    PoolTimeout = 1
    Commits = 1
    GrpcTimeout = 1
    Cooldown = 2
    Nobody = Nobody
INVARIANTS
    TypeOK
    OpenAtMost
    HoldersMove
    QuotaInTime
PROPERTIES
    ShutdownCompletes
