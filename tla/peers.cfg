SPECIFICATION FairSpec
CONSTANTS
    s1 = s1
    i1 = i1
    i2 = i2
    Names = {s1}
    IPs = {i1, i2}
    NoIP = NoIP
    NoIngress = NoIngress
    NoService = NoService
    MaxEdits = 4
    MaxFaults = 1
INVARIANTS
    TypeOK
    PeerFollowsService
PROPERTIES
    EventuallyCopied
CHECK_DEADLOCK FALSE
