CONSTANTS
    Clients = {c1, c2}
    NoClient = nobody
    ReceiverConfigs <- LoopOnly
    ClientConfigs <- Busy
    TestConfigs <- OneTwo
    NumStreams = 2
    MaxDeaths = 1
SPECIFICATION Spec
INVARIANTS LoopPersistent
CHECK_DEADLOCK FALSE
