CONSTANTS
    StreamNumbers <- TwoStreams
    MaxWrites <- ThreeAndOne
    MaxLen = 3
    MaxRead = 2
    MaxFaults = 1
SPECIFICATION FairSpec
INVARIANTS TypeOK InOrder NoSpuriousError EofComplete
PROPERTIES AllArrives CarriesBytes
CHECK_DEADLOCK FALSE
