SPECIFICATION Spec
CONSTANTS
    k1 = k1
    k2 = k2
    g1 = g1
    None = None
    KeywordCalls <- TwoKeyword
    RegexCalls <- OneRegex
    KeywordTtl = 1
    WindowTtl = 1
    Timeout = 1
    MaxRedaction = 1
    MaxTime = 5
SYMMETRY CallSymmetry
CHECK_DEADLOCK FALSE
INVARIANTS
    RefreshReadsAnew
    StalenessBounded
