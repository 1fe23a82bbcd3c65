SPECIFICATION FairSpec
CONSTANTS
    r1 = r1
    r2 = r2
    r3 = r3
    None = none
    Repos = {r1, r2, r3}
    Launches <- MCLaunches
    GivenLast = r3
    MaxUser = 3
INVARIANTS
    TypeOK
    SelectedIsListed
    ListedAreProjects
    SomethingSelected
    WipOfSelection
PROPERTIES
    EventuallySelected
    OnlyUserLeavesItem
CHECK_DEADLOCK FALSE
