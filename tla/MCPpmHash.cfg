CONSTANTS
    Addresses <- MCAddresses
    MaxTaken = 2
SPECIFICATION HashSpec
INVARIANTS
    EachDirectionCounts
PROPERTIES
    FoldsAreRegisters
