CONSTANTS
    WordRange = 16
    Instructions <- MCInstructions
    MaxLength = 2
SPECIFICATION Spec
CHECK_DEADLOCK FALSE
INVARIANTS
    InStep
    WholeRecordsOnly
