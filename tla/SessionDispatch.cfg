SPECIFICATION FairSpec
CONSTANTS
    c1 = c1
    c2 = c2
    s1 = s1
    NoCall = NoCall
    Absent = Absent
    Calls <- TwoCalls
    Tunnelled <- FirstCall
    Workers = 2
    Sessions <- OneSession
    SessionOf <- AllOnOneSession
INVARIANTS
    OkRowRestorable
    SummaryOfOpenRow
PROPERTIES
    PublishedMapOnlyGrows
    ImplementsAuditTrail
    CallConcludes
