SPECIFICATION Spec
CONSTANTS
    r1 = r1
    r2 = r2
    dev = dev
    prod = prod
    p1 = p1
    p2 = p2
    Runs <- TwoRuns
    Names <- TwoNames
    Writers <- RunsOrOperator
    Secrets <- TwoSecrets
    Invocations <- SomeInvocations
    Machines <- SomeMachines
    MaxFaults = 1
CHECK_DEADLOCK FALSE
SYMMETRY Symmetry
INVARIANTS
    LandsWithConsent
    ReportIsExact
    RecoveryNotRefused
PROPERTIES
    SuccessIsPlan
    LossExplained
