SPECIFICATION Spec
CONSTANTS
    l1 = l1
    l2 = l2
    f1 = f1
    f2 = f2
    b1 = b1
    b2 = b2
    a = a
    b = b
    NoLB = NoLB
    NoSpec = NoSpec
    NullSelector = NullSelector
    InvalidSelector = InvalidSelector
    LBs = {l1}
    Frontends = {f1, f2}
    Backends = {b1}
    Labels = {a}
    LBSpecs <- LabelSpecs
    MaxReplicas = 1
    BackendSelector <- AllBackends
    ControllerOf <- NoOwners
    StartingPort = 3
    MaxEdits = 0
    MaxFaults = 0
INVARIANTS
    PortsDistinct
