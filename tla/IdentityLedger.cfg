SPECIFICATION Spec
CONSTANTS
    p1 = p1
    p2 = p2
    NoServer = NoServer
    Servers <- TwoServers
    Identities <- SixDefinitions
    MaxEntries = 3
SYMMETRY ServerSymmetry
INVARIANTS
    LedgerStaysValid
    ServesWhatIsEnrolled
    NothingReturns
PROPERTIES
    HistoryIsAppendOnly
