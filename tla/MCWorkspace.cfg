SPECIFICATION Spec
CONSTANTS
    Runner = {p, r}
    Source = {main, linked}
    StateDir = {a, b}
    Pr = pr
    None = none
    Edit = {e}
    SyncAttempts = 1
    MaxStarts = 3
    MaxEvents = 1
CHECK_DEADLOCK FALSE
SYMMETRY Symmetric
INVARIANTS
    TypeOK
    OneWriter
    InterruptedIsFinished
    AgentsStartClean
    CommitsKept
    SubIssuesKnown
    UpdateRepeatable
PROPERTY
    EditsKept
