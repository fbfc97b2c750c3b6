SPECIFICATION Spec
CONSTANTS
    TestCriteria = {"a"}
    DevCriteria = {"b"}
    Threads = {"t"}
    Foreign = Foreign
    MaxAcceptanceRounds = 1
    MaxReviewRounds = 1
    MaxMergeAttempts = 1
    NeedsApproval = FALSE
    ReviewOnPush = FALSE
    MayDispatch = TRUE
    MaxRuns = 2
    MaxEvents = 1
INVARIANT MergedAsReviewed
CHECK_DEADLOCK FALSE
