SPECIFICATION Spec
CONSTANTS
    MaxLen = 5
    PortLimit = 6
    MinPort = 2
INVARIANTS
    ScanIsNextPort
    LowestFreePort
CHECK_DEADLOCK FALSE
