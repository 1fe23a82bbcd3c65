SPECIFICATION Spec
CONSTANTS
    main = main
    work = work
    nested = nested
    originNested = originNested
    v1 = v1
    Absent = absent
    Ops = {o1, o2}
    Names = {main, work, nested}
    RemoteNames = {originNested}
    Tags = {v1}
    Taps <- MCTaps
    Tracks <- MCTracks
    LastPart <- MCLast
    GivenLocal <- MCLocal
    GivenTracking <- MCTracking
    GivenHead = main
    FirstNew = 5
    MaxUser = 0
    MaxReads = 2
SYMMETRY MCSymmetry
INVARIANTS
    DeletesWhatIsNamed
CHECK_DEADLOCK FALSE
