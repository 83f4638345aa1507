SPECIFICATION Spec
CONSTANTS
    Configs <- MCConfigs
    IPs <- MCIPs
    Hosts <- MCHosts
    PositionName <- MCPositionName
    Clients = {11, 12, 13}
    Legacy = 10
    g1 = g1
    GivenKeys = {g1}
    Usable = 4
    MaxCalls = 4
    MaxFailures = 2
    None = None
INVARIANTS
    TypeOK
    MachinesConfigured
    EntriesApart
    NamesDistinct
    ClientsMatch
    GivenKeysNotStored
PROPERTY
    GeneratedKeyKept
CHECK_DEADLOCK FALSE
