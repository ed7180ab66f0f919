CONSTANTS
    t1 = t1
    t2 = t2
    c1 = c1
    c2 = c2
    p1 = p1
    p2 = p2
    None = None
    Tunnels <- TwoTunnels
    Configs <- TwoConfigs
    Callers <- TwoCallers
    MaxHandles = 2
    DnsRetries = 2
    Serialised = TRUE
SPECIFICATION Spec
INVARIANTS
    TypeOK
    OneDevice
    NamesExact
    ReportedExact
    FailureRestores
PROPERTIES
    AbstractSpec
