SPECIFICATION Spec
CONSTANTS
    Planned = 3
    Fixes = 1
    Plans <- GraphPlans
    None = none
    Foreign = foreign
    Final = 4
    MaxPrePrRounds = 1
    UserActs = {"tidy"}
    MaxCommits = 0
PROPERTIES BuiltInOrder NothingForgotten RunEnds
