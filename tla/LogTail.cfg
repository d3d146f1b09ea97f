SPECIFICATION TailSpec
CONSTANTS
    HardCapLines = 2
    GrepWindow = 2
    MaxTotalBytes = 3
    MaxLineBytes = 2
    ReadChunkBytes = 2
    GrepLimits = {0, 1}
    Alphanumeric = {"a", "e"}
    Patterns <- MCPatterns
    LineCounts = {0, 1, 3}
    Logs <- MCLogs
    MaxWrites = 2
CHECK_DEADLOCK FALSE
INVARIANTS
    UnflaggedIsWhole
    NoMatchesIsTrue
    ChildEndsWithCall
