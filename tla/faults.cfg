CONSTANTS
    Paths <- ThreeFiles
    Names <- AllNames
    Tmp <- TmpOf
    Block <- TwoBlocks
    Contents <- Sizes12
    Leftovers = {}
    OldCopies = {}
    NumStreams = 2
    Cap = 1
    Clock = {1}
    VerifyExisting = FALSE
    SenderVerify = FALSE
    LoopMode = FALSE
    DryRuns = {FALSE, TRUE}
    SameSecond = FALSE
    MaxEdits = 0
    MaxFaults = 1
SPECIFICATION Spec
INVARIANTS StreamsInStep ReceiverOkComplete
PROPERTIES AtomicReplace MirrorsSource
