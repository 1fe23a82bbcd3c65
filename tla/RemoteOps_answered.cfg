SPECIFICATION FairSpec
CONSTANTS
    Repos = {r1, r2}
    Buttons = {"push"}
    MaxOps = 2
    MaxCommit = 4
    None = none
PROPERTIES
    Answered
CHECK_DEADLOCK FALSE
