CONSTANTS
    Paths <- TwoFiles
    Names <- AllNames
    Tmp <- TmpInTree
    Block <- TwoBlocks
    Contents <- Sizes12
    Leftovers = {}
    OldCopies = {}
    NumStreams = 2
    Cap = 2
    Clock = {0}
    VerifyExisting = FALSE
    SenderVerify = FALSE
    LoopMode = TRUE
    DryRuns = {FALSE}
    SameSecond = FALSE
    MaxEdits = 0
    MaxFaults = 0
SPECIFICATION Spec

PROPERTIES AtomicReplace
