CONSTANTS
    Chars = {"a"}
    CmdMax = 2
    Periods = {0, 1, 2}
    BootPeriod = 2
    MaxTyped = 5
SPECIFICATION Spec
INVARIANTS
    TypeOK
    CharacterMatchesInterrupt
PROPERTIES
    ImplementsKeyboardLine
    NoInterruptLost
    InterruptsServed
    ProgramsProgress
CHECK_DEADLOCK FALSE
