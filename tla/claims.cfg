SPECIFICATION Spec
CONSTANTS
    l1 = l1
    l2 = l2
    f1 = f1
    f2 = f2
    b1 = b1
    b2 = b2
    a = a
    b = b
    NoLB = NoLB
    NoSpec = NoSpec
    NullSelector = NullSelector
    InvalidSelector = InvalidSelector
    LBs = {l1, l2}
    Frontends = {f1, f2}
    Backends = {}
    Labels = {a, b}
    LBSpecs <- ClaimSpecs
    MaxReplicas = 0
    BackendSelector <- AllBackends
    ControllerOf <- NoOwners
    StartingPort = 3
    MaxEdits = 2
    MaxFaults = 0
SYMMETRY Alike
INVARIANTS
    PortsBounded
PROPERTIES
    AssignmentStable
    FreshPort
    ImplementsAssignment
