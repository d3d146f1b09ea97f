SPECIFICATION EnrollSpec
CONSTANTS
    Identities <- SevenDefinitions
    MaxEntries = 4
    MaxLength = 3
INVARIANTS
    LoopEnrolls
    ValidateImpliesValid
