SPECIFICATION Spec
CONSTANTS
    Planned = 2
    Fixes = 0
    Plans <- SmallPlans
    None = none
    Foreign = foreign
    Final = 3
    MaxPrePrRounds = 0
    UserActs = {"edit", "tidy"}
    MaxCommits = 2
INVARIANT StopIsResumable
