CONSTANTS
    Procs = {p1, p2}
    NoProc = NoProc
    NumFrames = 4
    NumVPages = 2
    PageSize = 2
    ImagePages = {1, 2}
    BlockPages = {1}
    PagesMod = 8
    MaxPages = 2
SPECIFICATION Spec
SYMMETRY Symmetry
PROPERTIES
    ImplementsPrivateMemory
