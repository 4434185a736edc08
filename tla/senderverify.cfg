CONSTANTS
    Paths <- OneFile
    Names <- AllNames
    Tmp <- TmpOf
    Block <- TwoBlocks
    Contents <- Versions
    Leftovers <- Versions
    OldCopies <- Versions
    NumStreams = 1
    Cap = 1
    Clock = {0}
    VerifyExisting = FALSE
    SenderVerify = TRUE
    LoopMode = TRUE
    DryRuns = {FALSE}
    SameSecond = TRUE
    MaxEdits = 1
    MaxFaults = 1
SPECIFICATION Spec
INVARIANTS SenderVerifyHonoured
