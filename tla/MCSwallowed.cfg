SPECIFICATION Spec
CONSTANTS
    AddonConfigs <- MCConfigs
    DefaultClasses <- Defaults
    n1 = n1
    n2 = n2
    v1 = v1
    v2 = v2
    f1 = f1
    a = a
    b = b
    r1 = r1
    r2 = r2
    keep = keep
    s1 = s1
    s2 = s2
    Settings = {s1, s2}
    Namespaces = {n1, n2}
    Versions = {v1, v2}
    ValueFiles = {f1}
    Newest = v2
    ClassKeys = {a, b}
    ClassNames = {a, b}
    Replicas = {r1, r2}
    Policies = {keep}
    Manifests <- TheManifests
    Events = {"failure", "lost", "drift"}
    MaxCalls = 3
    MaxEvents = 2
    None = None
INVARIANT
    LonghornApplied
CHECK_DEADLOCK FALSE
