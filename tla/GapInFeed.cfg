SPECIFICATION Spec
CONSTANTS
    Writers = {w1, w2}
    Viewers = {v1}
    QueueSize = 2
    WireSize = 2
    MaxEvents = 4
    MaxDisconnects = 0
    MaxRestarts = 0
SYMMETRY Symmetry
INVARIANT NoGap
CHECK_DEADLOCK FALSE
