SPECIFICATION Spec
CONSTANTS
    Requests = {q1}
    None = None
    Called <- DefaultAgent
INVARIANTS
    AgentHearsRequest
CHECK_DEADLOCK FALSE
