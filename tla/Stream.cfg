SPECIFICATION FairSpec
CONSTANTS
    Writers = {w1}
    Viewers = {v1}
    QueueSize = 2
    WireSize = 1
    MaxEvents = 5
    MaxDisconnects = 2
    MaxRestarts = 1
INVARIANTS
    TypeOK
    NoDuplicate
    Seamless
    NoLeakedQueue
PROPERTIES
    ImplementsFeed
    DroppedIsEnded
CHECK_DEADLOCK FALSE
