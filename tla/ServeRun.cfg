SPECIFICATION Spec
CONSTANTS
    None = None
    a = a
    b = b
    unsafe = unsafe
    p = p
    q = q
    home = home
    office = office
    shop = shop
    NameOrder <- MCNameOrder
    SafeNames = {a, b}
    RowCap = 2
    ByteCap = 4
    CellCap = 2
    TokenSize = 1
    FileSets <- MCFileSets
    Policies <- MCPolicies
    Lists <- MCLists
    Columns = {"c", "d"}
    Keywords = {}
    Tables <- MCTables
    Queries <- MCQueries
    Texts <- MCTexts
    Schemas = {1, 5}
CHECK_DEADLOCK FALSE
INVARIANTS
    PurgeAuthorised
    GatesHold
    RulesHold
    CutIsReported
