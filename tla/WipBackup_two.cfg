SPECIFICATION Spec
CONSTANTS
    Files = {f1}
    Tracked = {f1}
    Untracked = {}
    Contents = {root, c1}
    NonText = {}
    Root = root
    Absent = absent
    Marked = marked
    Branches = {main, dev}
    Main = main
    Tasks = {t1, t2}
    UI = ui
    Refreshers = {}
    AutoCommit = {TRUE, FALSE}
    Failing = TRUE
    Lossy = TRUE
    MaxOps = 3
INVARIANTS
    TypeOK
    CommitsOnItsBranch
    QuietMeansCommitted
PROPERTIES
    OnlyForcedCreateLosesCommits
SYMMETRY TaskSymmetry
CHECK_DEADLOCK FALSE
