SPECIFICATION FairSpec
CONSTANTS
    Territories = {t1, t2, t3}
    MaxConcurrent = 2
    DaemonCeiling = 2
    RunCeiling = 2
    Price = 1
    Faults <- AllFaults
INVARIANTS
    TypeOK
    SlotsKept
    OvershootBounded
    IsolatedHunts
    ShutdownInOrder
PROPERTY EveryWaitEnds
CHECK_DEADLOCK FALSE
