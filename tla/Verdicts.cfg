SPECIFICATION FairSpec
CONSTANTS
    Prey = {p1}
    Handlers = {h1, h2}
    Workers = {w1, w2}
    Reasons = {a, b}
    None = None
    MaxVerdicts = 3
    MaxReboots = 1
    MaxFaults = 1
INVARIANTS
    TypeOK
    RowIsFold
    OneJobPerFeast
    ClaimIsExclusive
    RelayedOnce
PROPERTY JobsAreDrafted
CHECK_DEADLOCK FALSE
