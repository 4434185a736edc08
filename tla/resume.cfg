CONSTANTS
    Paths <- OneFile
    Names <- AllNames
    Tmp <- TmpOf
    Block <- TwoBlocks
    Contents <- Versions
    Leftovers <- Versions
    OldCopies <- FewVersions
    NumStreams = 1
    Cap = 1
    Clock = {0, 2}
    VerifyExisting = FALSE
    SenderVerify = FALSE
    LoopMode = TRUE
    DryRuns = {FALSE}
    SameSecond = FALSE
    MaxEdits = 2
    MaxFaults = 1
SPECIFICATION FairSpec
INVARIANTS TypeOK StampSound ExactCopy
PROPERTIES EventuallySynced MirrorsSource StaysSynced
