CONSTANTS
    Clients = {c1, c2, c3}
    NoClient = nobody
    ReceiverConfigs <- LoopOnly
    ClientConfigs <- Tuning
    TestConfigs <- One
    NumStreams = 1
    MaxDeaths = 0
SPECIFICATION FairSpec
PROPERTIES ReceiverFinishes
CHECK_DEADLOCK FALSE
