CONSTANTS
    add = add
    select = select
    unset = unset
    Operations <- MCOperations
    Select = select
    Unset = unset
    CostTables <- MCCostTables
    Hardware <- MCHardware
    PushDelays = {1, 3}
    Areas = {0, 5}
    MaxDepth = 2
    MaxOperations = 3
    MaxTime = 5
    MaxLeakage = 2
    MaxStored = 6
SPECIFICATION Spec
INVARIANTS
    TypeOK
    GuardsMatchGroups
    HardwarePaidOnce
PROPERTY PromisedTime
