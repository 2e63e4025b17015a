CONSTANTS
    Procs = {p1, p2}
    NoProc = NoProc
    NumFrames = 5
    NumVPages = 3
    PageSize = 1
    ImagePages = {1, 2}
    BlockPages = {1, 2}
    PagesMod = 8
    MaxPages = 3
SPECIFICATION Spec
SYMMETRY Symmetry
INVARIANTS
    TypeOK
    FrameOwnership
    BlocksDisjoint
PROPERTIES
    FreeKeepsOtherBlocks
