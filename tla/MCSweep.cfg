CONSTANTS
    a = a
    b = b
    none = none
    Workers = {a, b}
    Sources <- MCSources
    Configs <- MCConfigs
    Predictors <- MCPredictors
    Grids <- SmallGrids
    None = none
    MaxSweeps = 3
SPECIFICATION Spec
CHECK_DEADLOCK FALSE
INVARIANTS
    ResultsAreTheirJobs
    ResultsAreWhole
    IdleLedgersAreClean
PROPERTIES
    PromisedSweeps
