SPECIFICATION FairSpec
CONSTANTS
    Tools = {"sniff"}
    DefaultArgs = {}
    Says <- MCSays
    MaxCatch = 2
    MaxIterations = 3
    RetryBudget = 1
    CostCeiling = 2
    InputCost = 1
    OutputCost = 1
INVARIANTS
    TypeOK
    RequestWellFormed
    Answered
    SpendBounded
    ReasonTold
    ThinkingVerbatim
    CardTellsHunt
    ReplayFolds
PROPERTY HuntEnds
CHECK_DEADLOCK FALSE
