SPECIFICATION FairSpec
CONSTANTS
    r1 = r1
    r2 = r2
    Idle = Idle
    Startup = Startup
    Requests <- TwoRequests
    MaxPermits = 1
    MaxEdits = 2
INVARIANTS
    OneAtATime
    BackgroundBounded
    ReadUnderGrant
PROPERTIES
    OverdueDies
    CancelledDies
