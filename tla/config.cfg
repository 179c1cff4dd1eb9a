SPECIFICATION Spec
CONSTANTS
    MaxLen = 3
    Replicas = 2
    Hosts = {"h1", "h2", "h3"}
INVARIANTS
    NamesAcceptedIfDisjoint
    RoutesFollowSelection
CHECK_DEADLOCK FALSE
