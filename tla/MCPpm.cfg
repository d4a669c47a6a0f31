CONSTANTS
    Tables = 3
    Half = 1
    HistoryRange = 4
    Addresses = {0, 1}
    BaseEntries = {0}
    Entries = {0}
    Tags = {0, 1}
    BaseIndex <- MCBaseIndex
    Index <- MCIndex
    Tag <- MCTag
    Salt <- MCSalt
    MaxLag = 1
SPECIFICATION Spec
INVARIANTS
    LookupsMatchQueue
PROPERTIES
    UsefulIsKept
    MispredictionMovesUp
    ShorterTablesStay
