SPECIFICATION FewFairSpec
CONSTANTS
    f1 = f1
    i1 = i1
    i2 = i2
    IPs = {i1, i2}
    NoIP = NoIP
    p1 = p1
    p2 = p2
    Ports = {p1, p2}
    NoPort = NoPort
    NoFrontend = NoFrontend
    Frontends = {f1}
    Reports <- TwoPods
    MaxReports = 2
    MaxEdits = 1
    MaxFaults = 1
INVARIANTS
    TypeOK
    CacheIsLastReport
    StaleExplained
PROPERTIES
    EventuallyPublished
