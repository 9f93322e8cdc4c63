SPECIFICATION Spec
CONSTANTS
    Requests = {q1, q2, q3}
    None = None
    Called <- Everyone
SYMMETRY SameRequest
INVARIANTS
    TypeOK
    PromptsKeepRequest
    OwnRequestOnly
    ActsOnce
    AnswerAwaitsHuman
CHECK_DEADLOCK FALSE
