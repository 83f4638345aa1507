SPECIFICATION Spec
CONSTANTS
    Nodes = {1, 2, 3}
    Configs <- Growing
    t1 = t1
    t2 = t2
    o1 = o1
    o2 = o2
    Tokens = {t1}
    Opts = {o1, o2}
    TokenKnown = {TRUE}
    Events = {"failure", "reboot", "rotate", "destroy"}
    MaxRuns = 3
    MaxEvents = 3
    NoToken = NoToken
    Absent = Absent
    Stopped = Stopped
INVARIANTS
    TypeOK
    MeshAgreement
    KeysMatchState
    SavedMeansApplied
    OneCluster
    RotationWarned
PROPERTY
    ImplementsContract
CHECK_DEADLOCK FALSE
