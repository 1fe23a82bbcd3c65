SPECIFICATION Spec
CONSTANTS
    Files = {f}
    Tracked = {f}
    Lines = {l1, l2}
    Base = {l1}
    Absent = absent
    Commits = {c1}
    None = none
    MaxOps = 3
INVARIANT HoldsSelectedLines
CHECK_DEADLOCK FALSE
