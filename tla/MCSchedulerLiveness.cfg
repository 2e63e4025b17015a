CONSTANTS
    Procs = {p1, p2, p3, p4}
    NoProc = NoProc
    Contexts = {c0}
    InitContext = c0
    Quantum = 2
    SleepTicks = {0, 1}
    PidMod = 8
    MaxPid = 3
    KillArgs = {1, 2, 3}
SPECIFICATION FairSpec
PROPERTIES
    ReadyRuns
    SleepersWake
