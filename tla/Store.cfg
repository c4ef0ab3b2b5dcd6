SPECIFICATION Spec
CONSTANTS
    Territories = {t1, t2}
    RunIds = {r1, r2}
    None = None
    MaxConcurrent = 2
    GracefulStop = TRUE
    MaxLog = 2
    MaxBoots = 1
    MaxFaults = 1
SYMMETRY Symmetry
INVARIANTS
    TypeOK
    SeqGapless
    WriteAhead
    NoLockAcrossThink
    EveryCommitReachesHub
    CaptureSplitOnlyByAbort
    OpenRunsAreHunts
PROPERTIES
    CleanupCloses
    ImplementsLog
CHECK_DEADLOCK FALSE
