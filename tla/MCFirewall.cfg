SPECIFICATION Spec
CONSTANTS
    FwConfigs <- MCConfigs
    admin = admin
    peer = peer
    p1 = p1
    Hosts = {admin, peer}
    Ports = {p1}
    Events = {"command", "marker", "drift"}
    MaxCalls = 4
    MaxEvents = 3
    Anywhere = Anywhere
    Absent = Absent
INVARIANTS
    TypeOK
    AppliedIsActive
    AppliedRulesInPlace
PROPERTY
    ActiveIsComplete
CHECK_DEADLOCK FALSE
