SPECIFICATION Spec
CONSTANTS
    Planned = 2
    Fixes = 1
    Plans <- SmallPlans
    None = none
    Foreign = foreign
    Final = 3
    MaxPrePrRounds = 1
    UserActs = {"commit", "edit"}
    MaxCommits = 3
INVARIANTS TypeOK OneOwner OneCommitEach
PROPERTIES PublishedVetted
