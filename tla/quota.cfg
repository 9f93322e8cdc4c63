SPECIFICATION FairSpec
CONSTANTS
    u1 = u1
    u2 = u2
    r1 = r1
    r2 = r2
    Users = {u1, u2}
    Requests = {r1, r2}
    Caller <- OneCaller
    Email <- OwnEmails
    CallersFail = TRUE
    Chats = {r1, r2}
    Message <- ShortMessages
    Answer <- LongAnswers
    Limit <- Limits
    JobsFail = TRUE
INVARIANTS
    TypeOK
    EnteredIsKnown
    OvershootIsOneWave
PROPERTIES
    LockoutEnds
