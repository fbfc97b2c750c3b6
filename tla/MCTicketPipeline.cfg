SPECIFICATION Spec
CONSTANTS
    Tests = {t1}
    NoTest = noTest
    Code = {old, new}
    OldCode = old
    None = none
    Byproducts = {FALSE}
    Kinds = {"tdd", "pre_pr"}
    Meddling <- AllMeddling
    TesterRetries = 0
    CoderRetries = 0
    MaxRounds = 0
    MaxOverrun = 0
    MaxCommits = 1
INVARIANTS TypeOK LandedAsVetted
PROPERTY ImplementsLifecycle
CHECK_DEADLOCK FALSE
