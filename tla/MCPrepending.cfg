SPECIFICATION Spec
CONSTANTS
    Nodes = {1, 2, 3}
    Configs <- Prepending
    t1 = t1
    t2 = t2
    o1 = o1
    o2 = o2
    Tokens = {t1}
    Opts = {o1, o2}
    TokenKnown = {TRUE}
    Events = {}
    MaxRuns = 2
    MaxEvents = 0
    NoToken = NoToken
    Absent = Absent
    Stopped = Stopped
INVARIANT
    OneCluster
CHECK_DEADLOCK FALSE
