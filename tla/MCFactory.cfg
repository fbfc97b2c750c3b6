SPECIFICATION Spec
CONSTANTS
    Flows <- Started
    MaxFixLoops = 2
    Retries = 1
    MaxJson = 2
    OperatorFile = {"code", "guard"}
    AgentFile = {"code", "guard"}
    Runs = 2
    MaxEvents = 1
CHECK_DEADLOCK FALSE
INVARIANTS
    TypeOK
    BoundaryHeld
    OperatorWorkKept
    SessionTells
PROPERTIES
    CommitsVerified
    RunEnds
