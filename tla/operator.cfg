SPECIFICATION FewSpec
CONSTANTS
    u1 = u1
    b1 = b1
    f1 = f1
    n1 = n1
    p1 = p1
    NoIP = NoIP
    NoFrontend = NoFrontend
    Ports = {p1}
    NoPort = NoPort
    InvalidSelector = InvalidSelector
    Uids = {u1}
    PodName <- Names
    Backends = {b1}
    Frontends = {f1}
    BackendSelector <- Selects
    Namespaces = {n1}
    MaxEdits = 1
    MaxFaults = 1
INVARIANTS
    SlicesShowReport
PROPERTIES
    SlicesFollowHealth
    LastEndpointsStay
