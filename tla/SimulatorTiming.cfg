CONSTANTS
    add = add
    select = select
    unset = unset
    none = none
    here = here
    there = there
    Operations <- MCOperations
    Select = select
    Unset = unset
    None = none
    Targets = {here, there}
    Delays = {0, 1, 2}
    Traces <- TimingTraces
    Configs <- TimingConfigs
    CostTables <- TimingTables
    Outcomes <- TimingOutcomes
    Areas = {0}
    Hardware <- TimingHardware
    MaxRuns = 1
    MaxWork = 2
    MaxOutside = 0
SPECIFICATION Spec
CHECK_DEADLOCK FALSE
INVARIANTS
    TypeOK
    ExactlyOnceInOrder
    LagBound
    FinishedRunIsComplete
PROPERTIES
    RunEnds
    PromisedPipeline
