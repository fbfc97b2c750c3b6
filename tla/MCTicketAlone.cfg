SPECIFICATION Spec
CONSTANTS
    Tests = {t1, t2}
    NoTest = noTest
    Code = {old, new}
    OldCode = old
    None = none
    Byproducts = {FALSE, TRUE}
    Kinds = {"tdd", "pre_pr"}
    Meddling = {}
    TesterRetries = 1
    CoderRetries = 1
    MaxRounds = 1
    MaxOverrun = 1
    MaxCommits = 1
INVARIANTS CommittedOnItsBase OwnedEdits CommitSurvives
PROPERTY RunEnds
CHECK_DEADLOCK FALSE
