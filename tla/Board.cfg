SPECIFICATION FairSpec
CONSTANTS
    Territory <- MCTerritory
    Types = {"prey_captured"}
    MaxEvents = 1
    MaxFetches = 2
    MaxDisconnects = 1
INVARIANTS
    TypeOK
    HandoffComplete
PROPERTY CommitsReachBoard
CHECK_DEADLOCK FALSE
