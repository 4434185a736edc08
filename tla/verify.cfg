CONSTANTS
    Paths <- TwoFiles
    Names <- AllNames
    Tmp <- TmpOf
    Block <- TwoBlocks
    Contents <- OneBlock
    Leftovers <- WrongStart
    OldCopies = {}
    NumStreams = 2
    Cap = 1
    Clock = {1}
    VerifyExisting = TRUE
    SenderVerify = FALSE
    LoopMode = FALSE
    DryRuns = {FALSE}
    SameSecond = TRUE
    MaxEdits = 1
    MaxFaults = 1
SPECIFICATION FairSpec
INVARIANTS ExactCopy ReceiverOkComplete
PROPERTIES EventuallySynced
