CONSTANTS
    Procs = {p1, p2, p3, p4}
    NoProc = NoProc
    Contexts = {c0, c1}
    InitContext = c0
    Quantum = 2
    SleepTicks = {0, 1, 2}
    PidMod = 8
    MaxPid = 4
    KillArgs = {1, 2, 3, 4}
SPECIFICATION Spec
SYMMETRY Symmetry
INVARIANTS
    TypeOK
    OneRunning
    NoDangling
    UniquePids
    SleepersHaveTicks
    IdleOnlyWhenNothingReady
PROPERTIES
    ImplementsVirtualCpu
