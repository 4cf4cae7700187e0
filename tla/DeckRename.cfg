SPECIFICATION Spec
CONSTANTS
    Cards = {c1}
    InitNames <- One
    InputNames <- Deep
    MaxDecks = 6
    MaxOps = 2
    MaxMerges = 0
PROPERTIES RenameAddsOnlyParents
CHECK_DEADLOCK FALSE
