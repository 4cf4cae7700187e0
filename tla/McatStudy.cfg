SPECIFICATION FairSpec
CONSTANTS
  Cards = {"f1", "p1", "p2", "q1"}
  Problems = {"p1", "p2", "q1"}
  LeafOf <- MCLeafOf
  Cars = {"CARS1"}
  PER_LEAF_MAX = 2
  session_size = 3
  new_per_day = 2
  ThinSession = 2
  ExamSize = 3
  SPACING_FULL_DAYS = 1
  MaxDue = 1
  MaxTrouble = 1
INVARIANTS TypeOK RowsFollowLog
PROPERTIES SeenIsNotServed EveryProblemIsMet
