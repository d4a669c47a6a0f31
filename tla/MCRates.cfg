CONSTANTS
    add = add
    select = select
    unset = unset
    none = none
    here = here
    there = there
    Operations <- MCOperations
    Select = select
    Unset = unset
    None = none
    Targets = {here, there}
    Delays = {0, 1, 2}
    Traces <- RatesTraces
    Configs <- RatesConfigs
    CostTables <- RatesTables
    Outcomes <- RatesOutcomes
    Areas = {0, 5}
    Hardware <- RatesHardware
    MaxRuns = 2
    MaxWork = 2
    MaxOutside = 1
    CountRange = 100
SPECIFICATION Spec
CHECK_DEADLOCK FALSE
INVARIANTS
    MeteredIffScored
    WarmupLeavesNoTrace
    GroupsBelongToCallback
    ReportsAreCoherent
    ScoresMatchOutcomes
    ReportsAddUp
