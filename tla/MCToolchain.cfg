CONSTANTS
    Parts = {"program", "text"}
    Statements <- MCStatements
    MaxNodes = 4
    Leftovers = {0, 5}
    MemSize = 11
    MaxCycles = 6
    StaleWords = {0, 65535}
    MaxText = 4
    MaxLabel = 3
SPECIFICATION MCSpec
INVARIANTS
    TypesOK
    TokensAreMaximal
    LinesCounted
    ReadsStayInside
PROPERTIES
    ExecutesSource
CHECK_DEADLOCK FALSE
