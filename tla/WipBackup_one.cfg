SPECIFICATION FairSpec
CONSTANTS
    Files = {f1, f2}
    Tracked = {f1}
    Untracked = {f2}
    Contents = {root, c1, bin}
    NonText = {bin}
    Root = root
    Absent = absent
    Marked = marked
    Branches = {main}
    Main = main
    Tasks = {t1}
    UI = ui
    Refreshers = {r1}
    AutoCommit = {TRUE}
    Failing = TRUE
    Lossy = FALSE
    MaxOps = 3
INVARIANTS
    QuietMeansBackedUp
PROPERTIES
    SavesAreBackedUp
CHECK_DEADLOCK FALSE
