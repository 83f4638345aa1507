SPECIFICATION Spec
CONSTANTS
    NodeConfigs <- MCConfigs
    h1 = h1
    b1 = b1
    b2 = b2
    k1 = k1
    k2 = k2
    v1 = v1
    v2 = v2
    ns2 = ns2
    d1 = d1
    Hostnames = {h0, h1}
    Blocks = {b1, b2}
    Keys = {k1, k2}
    KernelKeys = {k1}
    Values = {v0, v1, v2}
    Boot = v0
    Servers = {stub, ns1, ns2}
    Loopback = {stub}
    Domains = {d1}
    UserLines = {u1}
    Events = {"failure", "crash", "drift", "marker"}
    MaxCalls = 3
    MaxEvents = 3
    Unset = Unset
    Absent = Absent
    Torn = Torn
INVARIANTS
    TypeOK
    SysctlApplied
    DnsApplied
    ResolvInPlace
    HostsApplied
PROPERTY
    UserLinesKept
CHECK_DEADLOCK FALSE
