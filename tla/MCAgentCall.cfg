SPECIFICATION Spec
CONSTANTS
    None = none
    Limit = 3
    PerCall = 2
    Credit = 1
    Retries = 1
    Charges = {1}
    MaxModelCalls = 2
    MaxCalls = 2
INVARIANTS TypeOK NothingFree CallsBounded StopHonoured NoneLeft
PROPERTY CallReturns
CHECK_DEADLOCK FALSE
