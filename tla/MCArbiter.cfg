CONSTANTS
    a = a
    b = b
    none = none
    Workers = {a, b}
    Sources <- MCSources
    Configs <- MCConfigs
    Predictors <- MCPredictors
    Grids = {}
    None = none
    MaxSweeps = 1
    Registry <- MCRegistry
    FileSystem <- MCFileSystem
    Text <- MCText
    CommandLines <- MCCommandLines
SPECIFICATION ArbiterSpec
CHECK_DEADLOCK FALSE
INVARIANTS
    ReportsNameTheirRuns
    AllOrNothing
