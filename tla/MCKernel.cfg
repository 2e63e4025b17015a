CONSTANTS
    Procs = {p1, p2, p3}
    NoProc = NoProc
    Contexts = {c0}
    InitContext = c0
    Quantum = 2
    SleepTicks = {1}
    PidMod = 8
    MaxPid = 2
    KillArgs = {1, 2}
    NumFrames = 5
    NumVPages = 2
    PageSize = 1
    ImagePages = {1}
    BlockPages = {1}
    PagesMod = 8
    MaxPages = 2
SPECIFICATION KernelSpec
SYMMETRY Symmetry
INVARIANTS
    HardwareFollowsCurrent
    IdleNeverFaults
PROPERTIES
    ImplementsProcessManager
    ImplementsVirtualMemory
CHECK_DEADLOCK FALSE
