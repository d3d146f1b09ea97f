SPECIFICATION FairSpec
CONSTANTS
    c1 = c1
    c2 = c2
    c3 = c3
    a = a
    NoPrincipal = NoPrincipal
    Conns <- ThreeConns
    Principals <- OnePrincipal
    MaxActive = 2
    MaxPrincipal = 1
    MaxFailures = 2
    MaxEdits = 1
    MaxTime = 1
CHECK_DEADLOCK FALSE
INVARIANTS
    PermitsAccounted
    ReleaseIsCurrent
PROPERTIES
    ConnectionsEnd
