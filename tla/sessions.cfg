CONSTANTS
    Clients = {c1, c2}
    NoClient = nobody
    ReceiverConfigs <- AllReceivers
    ClientConfigs <- AllClients
    TestConfigs <- OneTwo
    NumStreams = 2
    MaxDeaths = 2
SPECIFICATION FairSpec
INVARIANTS TypeOK HandshakeInStep HandshakeAgreement DataStreamsOwn
PROPERTIES ClientsFinish ReceiverFinishes BenchOutlasts OneAtATime
CHECK_DEADLOCK FALSE
