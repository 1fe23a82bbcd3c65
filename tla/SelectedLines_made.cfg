SPECIFICATION Spec
CONSTANTS
    Line = {a, b, blank}
    Blank = blank
    NoFile = nofile
    MaxLines = 3
INVARIANTS
    SelectedChangesMade
    ABeginning
CHECK_DEADLOCK FALSE
