SPECIFICATION Spec
CONSTANTS
  Cards = {1, 2, 3}
  Note <- MCNote
  Starts <- MCStarts
  Delays = {1, 4}
  LearnAhead = 3
  OutsideOps = {"AnswerCard", "GradeNow"}
  Epoch = 10
  DayLen = 5
  UndoLimit = 2
  Times = {10, 11, 13, 15}
  MaxBuilds = 2
  MaxAnswers = 2
  MaxOthers = 1
  OtherCards = {2}
  None = None
INVARIANTS TypeOK QueuesAgree EntriesAreFresh
PROPERTIES LearningNotLost UndoRestoresQueues
CHECK_DEADLOCK FALSE
