SPECIFICATION Spec
CONSTANTS
    head = head
    main = main
    work = work
    Names = {head, main, work}
    Oids = {o1, o2}
    Targets = {main}
    Address = {a1, a2}
    Size = 2
    hash <- MCHash
    Nil = Nil
SYMMETRY MCSymmetry
VIEW MCView
INVARIANTS
    TypeOK
    ListsSound
    OneEntryPerName
    IterationSeesAll
PROPERTIES
    RenameMoves
    Contract
