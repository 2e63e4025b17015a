CONSTANTS
    Parts = {"program"}
    Statements <- WideStatements
    MaxNodes = 2
    Leftovers = {0}
    MemSize = 5
    MaxCycles = 2
    StaleWords = {0, 65535}
    MaxText = 0
    MaxLabel = 3
SPECIFICATION MCSpec
INVARIANTS
    ImmediatesSurvive
CHECK_DEADLOCK FALSE
