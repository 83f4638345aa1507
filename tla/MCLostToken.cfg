SPECIFICATION Spec
CONSTANTS
    Nodes = {1, 2, 3}
    Configs <- Single
    t1 = t1
    t2 = t2
    o1 = o1
    o2 = o2
    Tokens = {t1}
    Opts = {o1, o2}
    TokenKnown = {TRUE}
    Events = {"failure"}
    MaxRuns = 2
    MaxEvents = 1
    NoToken = NoToken
    Absent = Absent
    Stopped = Stopped
PROPERTY
    GeneratedTokenStarts
CHECK_DEADLOCK FALSE
