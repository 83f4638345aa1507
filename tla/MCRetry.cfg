SPECIFICATION RetrySpec
CONSTANTS
    Nodes = {1, 2, 3}
    Configs <- Quorum
    t1 = t1
    t2 = t2
    o1 = o1
    o2 = o2
    Tokens = {t1}
    Opts = {o1, o2}
    TokenKnown = {TRUE, FALSE}
    Events = {"failure", "reboot"}
    MaxRuns = 5
    MaxEvents = 3
    NoToken = NoToken
    Absent = Absent
    Stopped = Stopped
PROPERTY
    Converges
CHECK_DEADLOCK FALSE
