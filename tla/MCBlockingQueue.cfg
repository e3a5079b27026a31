SPECIFICATION FairSpec
CONSTANTS
    Producers = {p}
    Consumers = {c1, c2, c3}
    Values = {x, y}
    Nothing = nothing
    MaxLength = 3
INVARIANTS
    NoLostWakeup
PROPERTIES
    StopReleasesEveryone
    IsBlockingQueue
