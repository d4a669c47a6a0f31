CONSTANTS
    LscCapacity = 2
    LscHalf = 2
    BtbCapacity = 4
    AddressSpace = 24
    RasCapacity = 2
    RasMaxCount = 3
    RasTargets = {0, 1, 2, 3, 4, 5, 6, 7, 8, 9, 10, 11, 12, 13, 14, 15, 16, 17, 18, 19, 20, 21, 22, 23}
    Records <- MCRecords
    NoRecord = none
    MaxCalls = 3
    Operations <- OperationNames
    Select = "select"
    unset = unset
    Unset = unset
    CostTable <- MCCostTable
    LscBits = 2
    RasBits = 2
SPECIFICATION Spec
INVARIANTS
    TypeOK
    FramesAreOpenCalls
    ReturnsFollowCalls
    StreaksDecide
    TargetsHaveKinds
    NoPathIsUnset
PROPERTY Isolation
