SPECIFICATION FairSpec
CONSTANTS
    Territories = {t1, t2}
    RunIds = {r1, r2}
    None = None
    MaxConcurrent = 2
    GracefulStop = TRUE
    MaxLog = 1
    MaxBoots = 0
    MaxFaults = 0
PROPERTY Drains
CHECK_DEADLOCK FALSE
