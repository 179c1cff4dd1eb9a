SPECIFICATION FairSpec
CONSTANTS
    l1 = l1
    l2 = l2
    f1 = f1
    f2 = f2
    b1 = b1
    b2 = b2
    a = a
    b = b
    NoLB = NoLB
    NoSpec = NoSpec
    NullSelector = NullSelector
    InvalidSelector = InvalidSelector
    LBs = {l1}
    Frontends = {f1, f2}
    Backends = {b1, b2}
    Labels = {a}
    LBSpecs <- ConfigSpecs
    MaxReplicas = 2
    BackendSelector <- ConfigBackends
    ControllerOf <- Owners
    StartingPort = 3
    MaxEdits = 2
    MaxFaults = 1
INVARIANTS
    TypeOK
    ConfigCoversReplicas
PROPERTIES
    EmptyConfigMapStays
    EventuallyConfigured
