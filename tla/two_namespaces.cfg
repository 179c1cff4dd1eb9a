SPECIFICATION FairSpec
CONSTANTS
    u1 = u1
    u2 = u2
    b1 = b1
    b2 = b2
    f1 = f1
    f2 = f2
    n1 = n1
    n2 = n2
    NoIP = NoIP
    InvalidSelector = InvalidSelector
    Uids = {u1, u2}
    PodName <- Names
    Backends = {b1}
    Frontends = {f1, f2}
    BackendSelector <- Selects
    Namespaces = {n1, n2}
    MaxEdits = 1
    MaxFaults = 0
PROPERTIES
    ReportsConverge
