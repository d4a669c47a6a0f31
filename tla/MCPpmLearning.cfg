CONSTANTS
    Tables = 2
    Half = 2
    HistoryRange = 4
    HistoryBits = 2
    MaxSteady = 6
    Addresses = {0, 1}
    BaseEntries = {0}
    Entries = {0, 1}
    Tags = {0, 1}
    BaseIndex <- MCBaseIndex
    Index <- MCIndex
    Tag <- MCTag
    Salt <- MCSalt
    MaxLag = 0
SPECIFICATION LearningSpec
INVARIANT SteadyBranchIsLearnt
