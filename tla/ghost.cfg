CONSTANTS
    Receivers = {r1, r2}
    s1 = s1
    s2 = s2
    Senders = {s1, s2}
    Nobody = nobody
    k = k
    SenderKey <- OneKey
    Wizard = {r1}
    HostOf <- SameHost
    Keys = {nokey, k}
    NoKey = nokey
    MaxLost = 1
    MaxStarts = 2
SPECIFICATION Spec
INVARIANTS AnnouncesPresence
CHECK_DEADLOCK FALSE
