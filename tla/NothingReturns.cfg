SPECIFICATION PowerSpec
CONSTANTS
    p1 = p1
    p2 = p2
    NoServer = NoServer
    Servers <- TwoServers
    Identities <- ThreeDefinitions
    MaxEntries = 3
SYMMETRY ServerSymmetry
INVARIANTS
    NothingReturns
