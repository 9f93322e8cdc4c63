SPECIFICATION FairSpec
CONSTANTS
    Runs = {r1, r2}
    NoRun = NoRun
    Stale = Stale
INVARIANTS
    TypeOK
    LastIsCommitted
PROPERTIES
    HeadNeverGoesBack
    RunsEnd
CHECK_DEADLOCK FALSE
