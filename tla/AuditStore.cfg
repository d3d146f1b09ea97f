SPECIFICATION AuditSpec
CONSTANTS
    c1 = c1
    c2 = c2
    s1 = s1
    s2 = s2
    s3 = s3
    r1 = r1
    NoCall = NoCall
    Absent = Absent
    Calls <- TwoCalls
    Tunnelled <- TwoCalls
    Workers = 1
    Sessions <- ThreeSessions
    SessionOf <- AllOnFirst
    Replayers <- OneReplayer
    TargetOf <- ReplayFirst
SYMMETRY AllSymmetry
INVARIANTS
    RetentionSparesYoung
PROPERTIES
    AuditOfRecord
    ReplaySuccessIsWhole
    SweepIsThorough
