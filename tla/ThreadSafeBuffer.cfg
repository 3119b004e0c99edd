SPECIFICATION FairSpec
CONSTANTS
    Producers = {p1, p2}
    Consumers = {c1, c2}
    Data = {d1, d2}
    NoData = NoData
    NoThread = NoThread
    MaxLength = 3
INVARIANTS
    TypeOK
    NeverPopsEmpty
    NoLostWakeup
PROPERTIES
    ImplementsChannel
    ImplementsLiveChannel
