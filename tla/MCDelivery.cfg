SPECIFICATION Spec
CONSTANTS
    TestCriteria = {"a"}
    DevCriteria = {"b"}
    Threads = {"t"}
    Foreign = Foreign
    MaxAcceptanceRounds = 1
    MaxReviewRounds = 2
    MaxMergeAttempts = 1
    NeedsApproval = FALSE
    ReviewOnPush = FALSE
    MayDispatch = TRUE
    MaxRuns = 2
    MaxEvents = 1
INVARIANTS TypeOK MergedAsCleared PublishedIsSaved AnsweredWhenPublished IssueTellsTruth
PROPERTIES RunReturns
CHECK_DEADLOCK FALSE
