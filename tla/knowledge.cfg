SPECIFICATION FairSpec
CONSTANTS
    long = long
    short = short
    blank = blank
    Files = {long, short, blank}
    Length <- Lengths
    Runs = {s1}
    ChunkSizes = {1, 2, 3, 4}
    Overlap = 1
    Queries = {q1, q2}
    K = 2
    MaxChunks = 5
    NoFile = NoFile
INVARIANTS
    TypeOK
    IndexedIsWhole
    FoundIsAnswered
PROPERTIES
    ScriptEnds
CHECK_DEADLOCK FALSE
