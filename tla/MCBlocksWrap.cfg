CONSTANTS
    Procs = {p1, p2}
    NoProc = NoProc
    NumFrames = 5
    NumVPages = 3
    PageSize = 1
    ImagePages = {1}
    BlockPages = {2}
    PagesMod = 8
    MaxPages = 5
SPECIFICATION Spec
PROPERTIES
    FreeKeepsOtherBlocks
