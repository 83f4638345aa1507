SPECIFICATION Spec
CONSTANTS
    AddrSpace = 16
    Word = 64
    Subnets <- MCSubnets
    MaxNodes = 4
    MaxAdmins = 2
    AutoIP = AutoIP
    InvalidIP = InvalidIP
INVARIANTS
    TypeOK
    Distinct
    HostsOnly
    NeverExhausted
CHECK_DEADLOCK FALSE
