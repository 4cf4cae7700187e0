SPECIFICATION Spec
CONSTANTS
    Cards = {c1, c2}
    InitNames <- Tree
    InputNames <- Names
    MaxDecks = 6
    MaxOps = 3
    MaxMerges = 1
INVARIANTS TypeOK NamesHold
PROPERTIES MovesTakeTheSubtree CardsGoWithTheirDeck CheckRepairs
CHECK_DEADLOCK FALSE
