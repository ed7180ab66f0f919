CONSTANTS
    t1 = t1
    t2 = t2
    c1 = c1
    c2 = c2
    p1 = p1
    p2 = p2
    None = None
    Tunnels <- TwoTunnels
    Configs <- OneConfig
    Callers <- OneCaller
    MaxHandles = 2
    DnsRetries = 2
    Serialised = FALSE
SPECIFICATION FairSpec
PROPERTIES
    CallsReturn
INVARIANTS
    NoStuckHandle
