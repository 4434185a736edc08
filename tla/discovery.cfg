CONSTANTS
    Receivers = {r1, r2}
    s1 = s1
    s2 = s2
    Senders = {s1, s2}
    Nobody = nobody
    k = k
    SenderKey <- OneKey
    Wizard = {r1}
    HostOf <- SameHost
    Keys = {nokey, k}
    NoKey = nokey
    MaxLost = 1
    MaxStarts = 2
SPECIFICATION FairSpec
INVARIANTS TypeOK Finds OneLate
PROPERTIES BroadcasterEnds
CHECK_DEADLOCK FALSE
