SPECIFICATION Spec
CONSTANTS
    Cards = {c1}
    InitNames <- One
    InputNames <- Names
    MaxDecks = 6
    MaxOps = 3
    MaxMerges = 0
PROPERTIES DropsLandOnTheTarget
CHECK_DEADLOCK FALSE
