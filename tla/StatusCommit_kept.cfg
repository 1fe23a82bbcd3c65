SPECIFICATION Spec
CONSTANTS
    Files = {f, g}
    Tracked = {f}
    Lines = {l1, l2}
    Base = {l1}
    Absent = absent
    Commits = {c1, c2}
    None = none
    MaxOps = 3
INVARIANTS
    TypeOK
    WorkKept
PROPERTIES
    OnlyCheckedCommitted
CHECK_DEADLOCK FALSE
