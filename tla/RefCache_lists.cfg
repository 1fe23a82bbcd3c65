SPECIFICATION FairSpec
CONSTANTS
    Local = {main, dev}
    Nested = {}
    Remote = {origin}
    Tags = {}
    Main = main
    Existing = {main}
    Deletable = {dev}
    Lossy = TRUE
    MaxOps = 3
INVARIANTS
    TypeOK
    QuietMeansHead
    QuietMeansListed
    ListOrCache
PROPERTIES
    EventuallyListed
CHECK_DEADLOCK FALSE
