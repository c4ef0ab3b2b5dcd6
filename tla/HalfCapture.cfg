SPECIFICATION Spec
CONSTANTS
    Territories = {t1, t2}
    RunIds = {r1, r2}
    None = None
    MaxConcurrent = 1
    GracefulStop = TRUE
    MaxLog = 3
    MaxBoots = 0
    MaxFaults = 0
INVARIANT CaptureAtomic
CHECK_DEADLOCK FALSE
