SPECIFICATION Spec
CONSTANTS
    Repos = {r1}
    Buttons = {"fetch", "mergePull", "rebasePull", "push", "commitAndPush", "amendAndLease"}
    MaxOps = 2
    MaxCommit = 5
    None = none
INVARIANTS
    TypeOK
    ActivityIsRunning
PROPERTIES
    PushKeepsUnseen
    NormalPushKeepsAll
CHECK_DEADLOCK FALSE
