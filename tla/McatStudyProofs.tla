---------------------------- MODULE McatStudyProofs ----------------------------
(* TypeOK, RowsFollowLog and SeenIsNotServed hold of McatStudy for any cards  *)
(* and leaves, any caps on a session, and any number of disturbances.         *)
EXTENDS McatStudy, TLAPS

Evidences == [Leaves -> Evidence]
Tables == [Cards -> Card]
Step == [card : Tables, log : Evidences]

-----------------------------------------------------------------------------
(* What the operators return.                                                 *)

LEMMA LeafIsLeaf == \A c \in Cards : LeafOf[c] \in Leaves
BY DEF Leaves

LEMMA SpacingType == SPACING_FULL_DAYS \in Nat /\ SPACING_FULL_DAYS > 0
BY LimitsAssumption

\* A score says that a leaf is assessed exactly when it has reviews.
LEMMA ScoreSays ==
  ASSUME NEW l, NEW e \in Evidence, NEW s \in Scores(l, e)
  PROVE  s \in LeafState /\ (s.assessed <=> e.reviews > 0)
<1>1. PICK open \in BOOLEAN : s = [assessed |-> e.reviews > 0, gate_open |-> open]
  <2>1. CASE l \in Cars
    BY <2>1 DEF Scores
  <2>2. CASE l \notin Cars
    BY <2>2 DEF Scores
  <2>3. QED
    BY <2>1, <2>2
<1>2. (e.reviews > 0) \in BOOLEAN
  OBVIOUS
<1>3. s \in LeafState
  BY <1>1, <1>2 DEF LeafState
<1>4. s.assessed = (e.reviews > 0)
  BY <1>1
<1>5. QED
  BY <1>2, <1>3, <1>4

LEMMA ReviewedType ==
  ASSUME log \in Evidences, card \in Tables, NEW c \in Cards,
         NEW right \in BOOLEAN, NEW fast \in BOOLEAN
  PROVE  Reviewed(c, right, fast) \in Evidence /\ Reviewed(c, right, fast).reviews > 0
<1>1. log[LeafOf[c]] \in Evidence
  BY LeafIsLeaf DEF Evidences
<1>2. card[c].gap \in 0..Never
  BY DEF Tables, Card
<1>3. SpacingWeight(c) \in Nat
  BY <1>2, SpacingType DEF SpacingWeight, AtMost, Never
<1>4. AtMost(log[LeafOf[c]].reviews + 1, 2) \in 1..2
  BY <1>1 DEF Evidence, AtMost
<1>5. AtMost(log[LeafOf[c]].spaced + SpacingWeight(c), SPACED_CORRECT_TARGET)
        \in 0..SPACED_CORRECT_TARGET
  BY <1>1, <1>3, SpacingType DEF Evidence, AtMost, SPACED_CORRECT_TARGET
<1>6. QED
  BY <1>1, <1>4, <1>5 DEF Reviewed, Evidence

LEMMA NoEvidenceType == NoEvidence \in Evidence /\ NoEvidence.reviews = 0
BY SpacingType DEF NoEvidence, Evidence, SPACED_CORRECT_TARGET

LEMMA StudiedType ==
  ASSUME NEW k \in Card, NEW d \in 0..MaxDue
  PROVE  LET new == [k EXCEPT !.studied = TRUE, !.due = d, !.gap = 0]
         IN  new \in Card /\ new.gap = 0
<1>1. 0 \in 0..Never
  BY SpacingType DEF Never
<1>2. QED
  BY <1>1 DEF Card

LEMMA OpenedType ==
  ASSUME NEW open \in BOOLEAN
  PROVE  LET opened == [Empty EXCEPT !.gate_open = open]
         IN  opened \in LeafState /\ ~opened.assessed /\ opened.gate_open = open
BY DEF Empty, LeafState

LEMMA EmptyType == Empty \in LeafState /\ Empty.assessed = FALSE
BY DEF Empty, LeafState

LEMMA AgedCard ==
  ASSUME NEW cards \in Tables, NEW c \in Cards
  PROVE  Aged(cards)[c] \in Card /\ (Aged(cards)[c].gap # Never) = (cards[c].gap # Never)
<1>1. cards[c] \in Card
  BY DEF Tables
<1> DEFINE due == IF cards[c].due > 0 THEN cards[c].due - 1 ELSE 0
           gap == IF cards[c].gap < SPACING_FULL_DAYS /\ c \in Flashcards
                  THEN cards[c].gap + 1 ELSE cards[c].gap
<1>2. Aged(cards)[c] = [studied |-> cards[c].studied, due |-> due,
                        suspended |-> cards[c].suspended, gap |-> gap]
  BY <1>1 DEF Aged, Card
<1>3. due \in 0..MaxDue
  BY <1>1, BoundsAssumption DEF Card
<1>4. gap \in 0..Never /\ (gap # Never) = (cards[c].gap # Never)
  BY <1>1, SpacingType DEF Card, Never
<1> HIDE DEF due, gap
<1>5. QED
  BY <1>1, <1>2, <1>3, <1>4 DEF Card

LEMMA AgedType ==
  ASSUME NEW cards \in Tables
  PROVE  Aged(cards) \in Tables
<1>1. \A c \in Cards : Aged(cards)[c] \in Card
  BY AgedCard
<1>2. QED
  BY <1>1 DEF Aged, Tables

-----------------------------------------------------------------------------
(* Types.                                                                     *)

StepOk(step) == step = NoStep \/ step \in Step

LEMMA KeptOk ==
  ASSUME NEW step, StepOk(step)
  PROVE  StepOk(Kept(step))
BY DEF Kept, StepOk

LEMMA NowOk == TypeOK => StepOk(Now)
BY DEF TypeOK, Tables, Evidences, Now, StepOk, Step

LEMMA AgedStepOk ==
  ASSUME NEW step, StepOk(step)
  PROVE  StepOk(AgedStep(step))
BY AgedType DEF AgedStep, StepOk, Step

LEMMA TroubleOk == Trouble /\ trouble \in 0..MaxTrouble => trouble' \in 0..MaxTrouble
BY BoundsAssumption DEF Trouble

LEMMA RecordType ==
  ASSUME TypeOK, NEW c \in Cards, NEW right \in BOOLEAN, NEW fast \in BOOLEAN,
         Record(c, right, fast)
  PROVE  card' \in Tables /\ log' \in Evidences
<1>1. card \in Tables /\ log \in Evidences
  BY DEF TypeOK, Tables, Evidences
<1>2. PICK due \in 0..MaxDue :
        card' = [card EXCEPT ![c].studied = TRUE, ![c].due = due, ![c].gap = 0]
  <2>1. PICK due \in IF c \in Flashcards THEN 0..MaxDue ELSE {0} :
          card' = [card EXCEPT ![c].studied = TRUE, ![c].due = due, ![c].gap = 0]
    BY DEF Record
  <2>2. due \in 0..MaxDue
    BY BoundsAssumption
  <2>3. QED
    BY <2>1, <2>2
<1>3. card' \in Tables
  <2>1. [card[c] EXCEPT !.studied = TRUE, !.due = due, !.gap = 0] \in Card
    BY <1>1, <1>2, StudiedType DEF Tables
  <2>2. QED
    BY <1>1, <1>2, <2>1 DEF Tables
<1>4. log' \in Evidences
  BY <1>1, ReviewedType, LeafIsLeaf DEF Record, Evidences
<1>5. QED
  BY <1>3, <1>4

LEMMA InsertedType ==
  ASSUME NEW e \in Evidence, NEW c \in Cards, NEW right \in BOOLEAN, NEW fast \in BOOLEAN,
         NEW x \in Inserted(e, c, right, fast)
  PROVE  x \in Evidence /\ x.reviews > 0
<1>1. e.reviews \in 0..2 /\ e.solved \in BOOLEAN /\ e.latest \in {"none", "right", "first", "lapse"}
  BY DEF Evidence
<1>2. AtMost(e.reviews + 1, 2) \in 0..2 /\ AtMost(e.reviews + 1, 2) > 0
  BY <1>1 DEF AtMost
<1>3. /\ SpacedWith(e, c, right) \subseteq 0..SPACED_CORRECT_TARGET
      /\ LatestWith(e) \subseteq {"none", "right", "first", "lapse"}
  BY <1>1 DEF SpacedWith, LatestWith
<1>4. QuickWith(e, c, right, fast) \subseteq BOOLEAN /\ SolvedWith(e, c, right) \in BOOLEAN
  BY <1>1, Zenon DEF QuickWith, SolvedWith
<1>5. PICK s \in SpacedWith(e, c, right), q \in QuickWith(e, c, right, fast), l \in LatestWith(e) :
        x = [reviews |-> AtMost(e.reviews + 1, 2), spaced |-> s, quick |-> q,
             solved |-> SolvedWith(e, c, right), latest |-> l]
  BY DEF Inserted
<1>6. /\ s \in 0..SPACED_CORRECT_TARGET /\ q \in BOOLEAN
      /\ l \in {"none", "right", "first", "lapse"}
  BY <1>3, <1>4, <1>5
<1>7. QED
  BY <1>2, <1>4, <1>5, <1>6 DEF Evidence

LEMMA RecordOlderType ==
  ASSUME TypeOK, NEW c \in Cards, NEW right \in BOOLEAN, NEW fast \in BOOLEAN,
         RecordOlder(c, right, fast)
  PROVE  card' \in Tables /\ log' \in Evidences
<1>1. card \in Tables /\ log \in Evidences
  BY DEF TypeOK, Tables, Evidences
<1>2. PICK gap \in 0..SPACING_FULL_DAYS, due \in 0..MaxDue :
        /\ card' \in {[card EXCEPT ![c].gap = gap],
                      [card EXCEPT ![c].studied = TRUE, ![c].due = due, ![c].gap = gap]}
        /\ log' \in {[log EXCEPT ![LeafOf[c]] = e] : e \in Inserted(log[LeafOf[c]], c, right, fast)}
  <2>1. PICK gap \in 0..SPACING_FULL_DAYS, due \in IF c \in Flashcards THEN 0..MaxDue ELSE {0} :
          /\ card' \in {[card EXCEPT ![c].gap = gap],
                        [card EXCEPT ![c].studied = TRUE, ![c].due = due, ![c].gap = gap]}
          /\ log' \in {[log EXCEPT ![LeafOf[c]] = e] :
                         e \in Inserted(log[LeafOf[c]], c, right, fast)}
    BY DEF RecordOlder
  <2>2. due \in 0..MaxDue
    BY BoundsAssumption
  <2>3. QED
    BY <2>1, <2>2
<1>3. gap \in 0..Never
  BY LimitsAssumption DEF Never
<1>4. card' \in Tables
  <2>1. card[c] \in Card
    BY <1>1 DEF Tables
  <2>2. /\ [card[c] EXCEPT !.gap = gap] \in Card
        /\ [card[c] EXCEPT !.studied = TRUE, !.due = due, !.gap = gap] \in Card
    BY <1>2, <1>3, <2>1 DEF Card
  <2>3. QED
    BY <1>1, <1>2, <2>2 DEF Tables
<1>5. log' \in Evidences
  BY <1>1, <1>2, InsertedType, LeafIsLeaf DEF Evidences
<1>6. QED
  BY <1>4, <1>5

LEMMA RefreshType ==
  ASSUME TypeOK, NEW c \in Cards, log' \in Evidences, Refresh(c)
  PROVE  row' \in [Leaves -> LeafState] /\ stale' \subseteq Leaves
<1>1. PICK s \in Scores(LeafOf[c], log'[LeafOf[c]]) : row' = [row EXCEPT ![LeafOf[c]] = s]
  BY DEF Refresh
<1>2. s \in LeafState
  BY ScoreSays, LeafIsLeaf DEF Evidences
<1>3. QED
  BY <1>1, <1>2 DEF Refresh, TypeOK

LEMMA RecomputeType ==
  ASSUME RecomputeAll
  PROVE  row' \in [Leaves -> LeafState] /\ stale' = {}
BY DEF RecomputeAll

LEMMA AnyState ==
  ASSUME NEW k \in Card, NEW d \in 0..MaxDue, NEW s \in BOOLEAN, NEW t \in BOOLEAN
  PROVE  LET new == [k EXCEPT !.studied = s, !.due = d, !.suspended = t]
         IN  new \in Card /\ new.gap = k.gap
BY DEF Card

LEMMA AsNewType ==
  ASSUME NEW c \in Cards, card \in Tables
  PROVE  /\ AsNew(c) \in Card /\ AsNew(c).gap = card[c].gap
         /\ [AsNew(c) EXCEPT !.gap = Never] \in Card
         /\ [AsNew(c) EXCEPT !.gap = Never].gap = Never
<1>1. card[c] \in Card
  BY DEF Tables
<1>2. 0 \in 0..MaxDue
  BY BoundsAssumption
<1>3. AsNew(c) \in Card /\ AsNew(c).gap = card[c].gap
  BY <1>1, <1>2, AnyState DEF AsNew
<1>4. Never \in 0..Never
  BY SpacingType DEF Never
<1>5. QED
  BY <1>3, <1>4 DEF Card

LEMMA TypeInit == Init => TypeOK
<1> SUFFICES ASSUME Init
             PROVE  TypeOK
  OBVIOUS
<1>1. card \in Tables
  BY BoundsAssumption, SpacingType DEF Init, Tables, Card, Unstudied, Never
<1>2. log \in Evidences /\ row \in [Leaves -> LeafState]
  BY NoEvidenceType, EmptyType DEF Init, Evidences
<1>3. QED
  BY <1>1, <1>2, BoundsAssumption DEF Init, Dashboard, TypeOK, Tables, Evidences

LEMMA TypeStep ==
  ASSUME TypeOK, [Next]_vars
  PROVE  TypeOK'
<1> USE DEF TypeOK, Tables, Evidences, StepOk, Step
<1>1. CASE OpenStudy
  <2>1. PICK S \in Sessions : page' = [name |-> "study", left |-> S]
    BY <1>1 DEF OpenStudy
  <2>2. S \subseteq Cards
    BY DEF Sessions, WantedCards, Extra
  <2>3. QED
    BY <1>1, <2>1, <2>2 DEF OpenStudy
<1>2. CASE OpenExam
  <2>1. PICK S \in Exams : page' = [name |-> "exam", left |-> S]
    BY <1>2 DEF OpenExam
  <2>2. S \subseteq Problems /\ S \subseteq Cards
    BY CardsAssumption DEF Exams
  <2>3. QED
    BY <1>2, <2>1, <2>2, KeptOk, TroubleOk DEF OpenExam
<1>3. CASE FinishPage
  <2>1. row' \in [Leaves -> LeafState] /\ stale' \subseteq Leaves
    BY <1>3, RecomputeType DEF FinishPage
  <2>2. QED
    BY <1>3, <2>1 DEF FinishPage, Dashboard
<1>4. CASE LeavePage
  BY <1>4 DEF LeavePage, Dashboard
<1>5. CASE Recompute
  BY <1>5, RecomputeType, KeptOk, TroubleOk DEF Recompute
<1>6. CASE Undo
  BY <1>6, NowOk, TroubleOk DEF Undo, ChangedLeaves
<1>7. CASE Redo
  BY <1>7, NowOk, KeptOk DEF Redo, ChangedLeaves
<1>8. CASE Reset
  <2>1. card' \in Tables
    BY <1>8, AsNewType DEF Reset, Tables
  <2>2. log' \in Evidences
    BY <1>8, NoEvidenceType DEF Reset, Evidences
  <2>3. row' \in [Leaves -> LeafState]
    <3>1. \A l \in Leaves : [Empty EXCEPT !.gate_open = l \in Cars] \in LeafState
      <4> SUFFICES ASSUME NEW l \in Leaves
                   PROVE  [Empty EXCEPT !.gate_open = l \in Cars] \in LeafState
        OBVIOUS
      <4>1. (l \in Cars) \in BOOLEAN
        OBVIOUS
      <4>2. QED
        BY <4>1, OpenedType
    <3>2. QED
      BY <1>8, <3>1 DEF Reset
  <2>4. QED
    BY <1>8, <2>1, <2>2, <2>3, TroubleOk DEF Reset
<1>9. CASE ResetFails
  <2>1. card' \in Tables
    <3>1. \A c \in Cards : AsNew(c) \in Card /\ [AsNew(c) EXCEPT !.gap = Never] \in Card
      BY AsNewType
    <3>2. CASE card' = [c \in Cards |-> AsNew(c)]
      BY <3>1, <3>2
    <3>3. CASE card' = [c \in Cards |-> [AsNew(c) EXCEPT !.gap = Never]]
      BY <3>1, <3>3
    <3>4. QED
      BY <1>9, <3>2, <3>3 DEF ResetFails
  <2>2. log' \in Evidences
    BY <1>9, NoEvidenceType DEF ResetFails, Evidences
  <2>3. row' \in [Leaves -> LeafState]
    <3>1. \A l \in Leaves, built \in SUBSET Leaves :
            [Empty EXCEPT !.gate_open = l \in Cars \cap built] \in LeafState
      <4> SUFFICES ASSUME NEW l \in Leaves, NEW built \in SUBSET Leaves
                   PROVE  [Empty EXCEPT !.gate_open = l \in Cars \cap built] \in LeafState
        OBVIOUS
      <4>1. (l \in Cars \cap built) \in BOOLEAN
        OBVIOUS
      <4>2. QED
        BY <4>1, OpenedType
    <3>2. QED
      BY <1>9, <3>1 DEF ResetFails
  <2>4. QED
    BY <1>9, <2>1, <2>2, <2>3, NowOk, KeptOk, TroubleOk DEF ResetFails
<1>10. CASE NextDay
  BY <1>10, AgedType, AgedStepOk DEF NextDay
<1>11. ASSUME NEW c \in Cards, Suspend(c)
       PROVE  TypeOK'
  <2>1. card' \in Tables
    BY ZenonT(60), <1>11 DEF Suspend, Tables, Card
  <2>2. QED
    BY <1>11, <2>1, NowOk, KeptOk, TroubleOk DEF Suspend
<1>12. ASSUME NEW a \in Answers, AnswerItem(a.c, a.right, a.fast)
       PROVE  TypeOK'
  <2>1. card' \in Tables /\ log' \in Evidences
    BY <1>12, RecordType DEF Answers, AnswerItem, Answer
  <2>2. row' \in [Leaves -> LeafState] /\ stale' \subseteq Leaves
    BY <1>12, <2>1, RefreshType DEF Answers, AnswerItem, Answer
  <2>3. QED
    BY <1>12, <2>1, <2>2, NowOk, KeptOk DEF AnswerItem, Answer
<1>13. ASSUME NEW a \in Answers, AnswerInReviewer(a.c, a.right, a.fast)
       PROVE  TypeOK'
  <2>1. card' \in Tables /\ log' \in Evidences
    BY <1>13, RecordType DEF Answers, AnswerInReviewer, Answer
  <2>2. row' \in [Leaves -> LeafState] /\ stale' \subseteq Leaves
    BY <1>13, <2>1, RefreshType DEF Answers, AnswerInReviewer, Answer
  <2>3. QED
    BY <1>13, <2>1, <2>2, NowOk, KeptOk, TroubleOk DEF AnswerInReviewer, Answer
<1>14. ASSUME NEW a \in Answers, AnswerUnscored(a.c, a.right, a.fast)
       PROVE  TypeOK'
  <2>1. card' \in Tables /\ log' \in Evidences
    BY <1>14, RecordType DEF Answers, AnswerUnscored
  <2>2. stale' \subseteq Leaves
    BY <1>14, LeafIsLeaf DEF AnswerUnscored, Answers
  <2>3. QED
    BY <1>14, <2>1, <2>2, NowOk, KeptOk, TroubleOk DEF AnswerUnscored
<1>15. ASSUME NEW a \in Answers, SyncReview(a.c, a.right, a.fast)
       PROVE  TypeOK'
  <2>1. card' \in Tables /\ log' \in Evidences
    BY <1>15, RecordType, RecordOlderType DEF Answers, SyncReview
  <2>2. stale' \subseteq Leaves
    BY <1>15, LeafIsLeaf DEF SyncReview, Answers
  <2>3. QED
    BY <1>15, <2>1, <2>2, TroubleOk DEF SyncReview
<1>16. CASE UNCHANGED vars
  BY <1>16 DEF vars
<1>17. QED
  BY <1>1, <1>2, <1>3, <1>4, <1>5, <1>6, <1>7, <1>8, <1>9, <1>10, <1>11, <1>12, <1>13,
     <1>14, <1>15, <1>16
  DEF Next

\* The state of the MCAT layer keeps its types.
THEOREM TypeInvariant == Spec => []TypeOK
<1>1. Init => TypeOK
  BY TypeInit
<1>2. TypeOK /\ [Next]_vars => TypeOK'
  BY TypeStep
<1>3. QED
  BY <1>1, <1>2, PTL DEF Spec

-----------------------------------------------------------------------------
(* Rows and the log.  A leaf leaves stale only when it is scored, and its log  *)
(* changes without a score only when it enters stale.                          *)

RowFollows(l) == row[l] \in Scores(l, log[l]) \/ (row[l] = Empty /\ log[l].reviews = 0)

LEMMA SameState ==
  ASSUME NEW r \in LeafState, NEW s \in LeafState,
         r.assessed <=> s.assessed, r.gate_open <=> s.gate_open
  PROVE  r = s
BY DEF LeafState

\* A reset leaf starts as an empty row, or an open one of the CARS section.
LEMMA ResetRow ==
  ASSUME NEW l, NEW open \in BOOLEAN, open => l \in Cars
  PROVE  LET opened == [Empty EXCEPT !.gate_open = open]
         IN  opened \in Scores(l, NoEvidence) \/ opened = Empty
<1> DEFINE opened == [Empty EXCEPT !.gate_open = open]
<1>1. opened \in LeafState /\ ~opened.assessed /\ (opened.gate_open <=> open)
  BY OpenedType
<1> HIDE DEF opened
<1>2. CASE open
  <2> DEFINE s == [assessed |-> NoEvidence.reviews > 0, gate_open |-> TRUE]
  <2>1. s \in Scores(l, NoEvidence)
    BY <1>2 DEF Scores
  <2>2. s.gate_open
    OBVIOUS
  <2> HIDE DEF s
  <2>3. s \in LeafState /\ ~s.assessed
    BY <2>1, ScoreSays, NoEvidenceType
  <2>4. opened = s
    BY <1>1, <1>2, <2>2, <2>3, SameState
  <2>5. QED
    BY <2>1, <2>4 DEF opened
<1>3. CASE ~open
  <2>1. Empty \in LeafState /\ ~Empty.assessed /\ ~Empty.gate_open
    BY DEF Empty, LeafState
  <2>2. opened = Empty
    BY <1>1, <1>3, <2>1, SameState
  <2>3. QED
    BY <2>2 DEF opened
<1>4. QED
  BY <1>2, <1>3

LEMMA RefreshFollows ==
  ASSUME TypeOK, RowsFollowLog, NEW c \in Cards, NEW right \in BOOLEAN, NEW fast \in BOOLEAN,
         Record(c, right, fast), Refresh(c)
  PROVE  RowsFollowLog'
<1>1. PICK s \in Scores(LeafOf[c], log'[LeafOf[c]]) : row' = [row EXCEPT ![LeafOf[c]] = s]
  BY DEF Refresh
<1>2. \A l \in Leaves : l # LeafOf[c] => row'[l] = row[l] /\ log'[l] = log[l]
  BY <1>1 DEF Record, TypeOK
<1>3. row'[LeafOf[c]] \in Scores(LeafOf[c], log'[LeafOf[c]])
  BY <1>1, LeafIsLeaf DEF TypeOK
<1>4. \A l \in Leaves \ stale' :
        row'[l] \in Scores(l, log'[l]) \/ (row'[l] = Empty /\ log'[l].reviews = 0)
  BY <1>2, <1>3 DEF RowsFollowLog, Refresh
<1>5. QED
  BY <1>4 DEF RowsFollowLog, Scores, RecentLapse, MayBeFluent

LEMMA RowsStep ==
  ASSUME TypeOK, RowsFollowLog, [Next]_vars
  PROVE  RowsFollowLog'
<1>1. CASE UNCHANGED <<log, row, stale>>
  BY <1>1 DEF RowsFollowLog, Scores, RecentLapse, MayBeFluent
<1>2. ASSUME RecomputeAll, UNCHANGED log
      PROVE  RowsFollowLog'
  BY ZenonT(60), <1>2 DEF RecomputeAll, RowsFollowLog, Scores, RecentLapse, MayBeFluent
<1>3. ASSUME UNCHANGED row, \A l \in Leaves \ stale' : log'[l] = log[l], stale \subseteq stale'
      PROVE  RowsFollowLog'
  BY <1>3 DEF RowsFollowLog, Scores, RecentLapse, MayBeFluent
<1>4. ASSUME NEW built \in SUBSET Leaves,
             log' = [l \in Leaves |-> NoEvidence],
             row' = [l \in Leaves |-> [Empty EXCEPT !.gate_open = l \in Cars \cap built]],
             stale' = Leaves \ built
      PROVE  RowsFollowLog'
  <2>1. ASSUME NEW l \in Leaves
        PROVE  row'[l] \in Scores(l, log'[l]) \/ (row'[l] = Empty /\ log'[l].reviews = 0)
    <3>1. (l \in Cars \cap built) \in BOOLEAN
      OBVIOUS
    <3>2. QED
      BY <1>4, <3>1, ResetRow, NoEvidenceType
  <2>2. QED
    BY <2>1 DEF RowsFollowLog, Scores, RecentLapse, MayBeFluent
<1>5. CASE Next
  <2>1. CASE OpenStudy \/ OpenExam \/ LeavePage \/ NextDay \/ \E c \in Cards : Suspend(c)
    BY <2>1, <1>1 DEF OpenStudy, OpenExam, LeavePage, NextDay, Suspend
  <2>2. CASE FinishPage \/ Recompute
    BY <2>2, <1>1, <1>2 DEF FinishPage, Recompute
  <2>3. CASE Undo \/ Redo
    BY <2>3, <1>3 DEF Undo, Redo, ChangedLeaves
  <2>4. CASE Reset
    <3>1. row' = [l \in Leaves |-> [Empty EXCEPT !.gate_open = l \in Cars \cap Leaves]]
      BY <2>4 DEF Reset
    <3>2. QED
      BY <2>4, <3>1, <1>4 DEF Reset
  <2>5. CASE ResetFails
    BY <2>5, <1>1, <1>4 DEF ResetFails
  <2>6. ASSUME NEW a \in Answers,
               AnswerItem(a.c, a.right, a.fast) \/ AnswerInReviewer(a.c, a.right, a.fast)
        PROVE  RowsFollowLog'
    BY <2>6, RefreshFollows DEF Answers, AnswerItem, AnswerInReviewer, Answer
  <2>7. ASSUME NEW a \in Answers,
               AnswerUnscored(a.c, a.right, a.fast) \/ SyncReview(a.c, a.right, a.fast)
        PROVE  RowsFollowLog'
    <3>1. a.c \in Cards /\ row' = row /\ stale' = stale \cup {LeafOf[a.c]}
      BY <2>7 DEF Answers, AnswerUnscored, SyncReview
    <3>2. Record(a.c, a.right, a.fast) \/ RecordOlder(a.c, a.right, a.fast)
      BY <2>7 DEF AnswerUnscored, SyncReview
    <3>3. PICK e : log' = [log EXCEPT ![LeafOf[a.c]] = e]
      BY <3>2 DEF Record, RecordOlder
    <3>4. QED
      BY <1>3, <3>1, <3>3 DEF TypeOK
  <2>8. QED
    BY <1>5, <2>1, <2>2, <2>3, <2>4, <2>5, <2>6, <2>7 DEF Next
<1>6. QED
  BY <1>1, <1>5 DEF vars

LEMMA RowsInit == Init => RowsFollowLog
BY NoEvidenceType DEF Init, RowsFollowLog

\* The row of a leaf is what scoring its log gives, but for the leaves whose log
\* changed with no score after it (adapter.rs: refresh after an answer, recompute).
THEOREM RowsFollow == Spec => []RowsFollowLog
<1>1. Init => TypeOK /\ RowsFollowLog
  BY TypeInit, RowsInit
<1>2. TypeOK /\ RowsFollowLog /\ [Next]_vars => (TypeOK /\ RowsFollowLog)'
  BY TypeStep, RowsStep
<1>3. QED
  BY <1>1, <1>2, PTL DEF Spec

-----------------------------------------------------------------------------
(* Seen problems.  A card that was seen has a review in the log of its leaf,  *)
(* now and in what undo and redo would restore.                               *)

Logged(cards, evidence) ==
  \A c \in Cards : cards[c].gap # Never => evidence[LeafOf[c]].reviews > 0
LoggedStep(step) == step = NoStep \/ Logged(step.card, step.log)

SeenIsLogged == Logged(card, log) /\ LoggedStep(undo) /\ LoggedStep(redo)

LEMMA KeptLogged ==
  ASSUME NEW step, LoggedStep(step)
  PROVE  LoggedStep(Kept(step))
BY DEF Kept, LoggedStep

LEMMA NowLogged ==
  ASSUME Logged(card, log)
  PROVE  LoggedStep(Now)
BY DEF Now, LoggedStep

LEMMA AgedLogged ==
  ASSUME NEW cards \in Tables, NEW evidence, Logged(cards, evidence)
  PROVE  Logged(Aged(cards), evidence)
BY AgedCard DEF Logged

LEMMA AgedStepLogged ==
  ASSUME NEW step, StepOk(step), LoggedStep(step)
  PROVE  LoggedStep(AgedStep(step))
<1>1. CASE step = NoStep
  BY <1>1 DEF AgedStep, LoggedStep
<1>2. CASE step # NoStep
  <2>1. step \in Step
    BY <1>2 DEF StepOk
  <2>2. AgedStep(step).card = Aged(step.card) /\ AgedStep(step).log = step.log
    BY <1>2, <2>1 DEF AgedStep, Step
  <2>3. QED
    BY <1>2, <2>1, <2>2, AgedLogged DEF LoggedStep, Step
<1>3. QED
  BY <1>1, <1>2

LEMMA RecordLogged ==
  ASSUME TypeOK, Logged(card, log), NEW c \in Cards, NEW right \in BOOLEAN, NEW fast \in BOOLEAN,
         Record(c, right, fast)
  PROVE  Logged(card', log')
<1> USE DEF TypeOK, Tables, Evidences
<1>1. PICK due : card' = [card EXCEPT ![c].studied = TRUE, ![c].due = due, ![c].gap = 0]
  BY DEF Record
<1>2. \A d \in Cards : d # c => card'[d] = card[d]
  BY <1>1
<1>3. log'[LeafOf[c]].reviews > 0
  BY ReviewedType, LeafIsLeaf DEF Record
<1>4. \A l \in Leaves : l # LeafOf[c] => log'[l] = log[l]
  BY DEF Record
<1>5. QED
  BY <1>2, <1>3, <1>4, LeafIsLeaf DEF Logged

LEMMA RecordOlderLogged ==
  ASSUME TypeOK, Logged(card, log), NEW c \in Cards, NEW right \in BOOLEAN, NEW fast \in BOOLEAN,
         RecordOlder(c, right, fast)
  PROVE  Logged(card', log')
<1> USE DEF TypeOK, Tables, Evidences
<1>1. PICK gap, due :
        card' \in {[card EXCEPT ![c].gap = gap],
                   [card EXCEPT ![c].studied = TRUE, ![c].due = due, ![c].gap = gap]}
  BY DEF RecordOlder
<1>2. \A d \in Cards : d # c => card'[d] = card[d]
  BY <1>1
<1>3. PICK e \in Inserted(log[LeafOf[c]], c, right, fast) : log' = [log EXCEPT ![LeafOf[c]] = e]
  BY DEF RecordOlder
<1>4. log'[LeafOf[c]].reviews > 0
  BY <1>3, InsertedType, LeafIsLeaf
<1>5. \A l \in Leaves : l # LeafOf[c] => log'[l] = log[l]
  BY <1>3
<1>6. QED
  BY <1>2, <1>4, <1>5, LeafIsLeaf DEF Logged

LEMMA SeenStep ==
  ASSUME TypeOK, SeenIsLogged, [Next]_vars
  PROVE  SeenIsLogged'
<1> USE DEF SeenIsLogged
<1>1. StepOk(undo) /\ StepOk(redo) /\ card \in Tables /\ LoggedStep(NoStep)
  BY DEF TypeOK, StepOk, Step, Tables, Evidences, LoggedStep
<1>2. CASE UNCHANGED <<card, log, undo, redo>>
  BY <1>2 DEF Logged, LoggedStep
<1>3. CASE OpenStudy \/ LeavePage \/ FinishPage
  BY <1>3, <1>2 DEF OpenStudy, LeavePage, FinishPage
<1>4. CASE OpenExam \/ Recompute
  BY <1>4, KeptLogged DEF OpenExam, Recompute
<1>5. CASE Undo
  BY <1>1, <1>5, NowLogged DEF Undo, LoggedStep
<1>6. CASE Redo
  BY <1>1, <1>6, NowLogged, KeptLogged DEF Redo, LoggedStep
<1>7. CASE Reset
  BY <1>1, <1>7, AsNewType DEF Reset, Logged
<1>8. CASE ResetFails
  <2>1. CASE card' = [c \in Cards |-> AsNew(c)] /\ log' = log
    <3>1. Logged(card', log')
      BY <1>1, <2>1, AsNewType DEF Logged
    <3>2. QED
      BY <1>1, <1>8, <3>1, NowLogged, KeptLogged DEF ResetFails
  <2>2. CASE card' = [c \in Cards |-> [AsNew(c) EXCEPT !.gap = Never]]
    <3>1. Logged(card', log')
      BY <1>1, <2>2, AsNewType DEF Logged
    <3>2. QED
      BY <1>1, <1>8, <3>1, NowLogged, KeptLogged DEF ResetFails
  <2>3. QED
    BY <1>8, <2>1, <2>2 DEF ResetFails
<1>9. CASE NextDay
  BY <1>1, <1>9, AgedLogged, AgedStepLogged DEF NextDay
<1>10. ASSUME NEW c \in Cards, Suspend(c)
       PROVE  SeenIsLogged'
  <2>1. \A d \in Cards : card'[d].gap = card[d].gap
    BY <1>1, <1>10 DEF Suspend, Tables, Card
  <2>2. Logged(card', log')
    BY <1>10, <2>1 DEF Suspend, Logged
  <2>3. QED
    BY <1>1, <1>10, <2>2, NowLogged, KeptLogged DEF Suspend
<1>11. ASSUME NEW a \in Answers,
              \/ AnswerItem(a.c, a.right, a.fast) \/ AnswerInReviewer(a.c, a.right, a.fast)
              \/ AnswerUnscored(a.c, a.right, a.fast) \/ SyncReview(a.c, a.right, a.fast)
       PROVE  SeenIsLogged'
  <2>1. /\ Record(a.c, a.right, a.fast) \/ RecordOlder(a.c, a.right, a.fast)
        /\ a.c \in Cards /\ a.right \in BOOLEAN /\ a.fast \in BOOLEAN
    BY <1>11 DEF Answers, AnswerItem, AnswerInReviewer, AnswerUnscored, SyncReview, Answer
  <2>2. Logged(card', log')
    BY <1>1, <2>1, RecordLogged, RecordOlderLogged
  <2>3. undo' \in {NoStep, Kept(Now)} /\ redo' = NoStep
    BY <1>11 DEF AnswerItem, AnswerInReviewer, AnswerUnscored, SyncReview, Answer
  <2>4. QED
    BY <1>1, <2>2, <2>3, NowLogged, KeptLogged
<1>12. QED
  BY <1>2, <1>3, <1>4, <1>5, <1>6, <1>7, <1>8, <1>9, <1>10, <1>11 DEF Next, vars

LEMMA SeenInit == Init => SeenIsLogged
BY DEF Init, SeenIsLogged, Logged, LoggedStep, Unstudied

\* What a session holds besides new problems belongs to leaves not assessed.
LEMMA SessionsServe ==
  ASSUME TypeOK, RowsFollowLog, SeenIsLogged, NEW S \in Sessions, NEW c \in S \cap Problems, Seen(c)
  PROVE  LeafOf[c] \in stale
<1>1. c \in Cards /\ c \notin Flashcards
  BY CardsAssumption DEF Flashcards
<1>2. ~Wanted(c)
  BY <1>1 DEF Wanted
<1>3. c \in Extra /\ ~row[LeafOf[c]].assessed
  BY <1>1, <1>2 DEF Sessions, WantedCards, Extra
<1>4. log[LeafOf[c]].reviews > 0 /\ log[LeafOf[c]] \in Evidence
  BY <1>1, LeafIsLeaf DEF SeenIsLogged, Logged, Seen, TypeOK
<1>5. SUFFICES ASSUME LeafOf[c] \notin stale
               PROVE  FALSE
  OBVIOUS
<1>6. row[LeafOf[c]] \in Scores(LeafOf[c], log[LeafOf[c]])
  BY <1>1, <1>4, <1>5, LeafIsLeaf DEF RowsFollowLog, Evidence
<1>7. row[LeafOf[c]].assessed
  BY <1>4, <1>6, ScoreSays
<1>8. QED
  BY <1>3, <1>7

LEMMA NotServedStep ==
  ASSUME TypeOK, RowsFollowLog, SeenIsLogged, [Next]_vars,
         page.name = "dashboard", page'.name = "study"
  PROVE  \A c \in page'.left \cap Problems : Seen(c) => LeafOf[c] \in stale
<1>1. CASE OpenStudy
  <2>1. PICK S \in Sessions : page' = [name |-> "study", left |-> S]
    BY <1>1 DEF OpenStudy
  <2>2. QED
    BY <2>1, SessionsServe
<1>2. CASE ~OpenStudy
  <2>1. ASSUME NEW a \in Answers,
               \/ AnswerItem(a.c, a.right, a.fast) \/ AnswerUnscored(a.c, a.right, a.fast)
        PROVE  page'.name = page.name
    BY <2>1 DEF AnswerItem, AnswerUnscored, TypeOK
  <2>2. QED
    BY <1>2, <2>1
    DEF Next, vars, OpenExam, FinishPage, LeavePage, Recompute, Undo, Redo, Reset, ResetFails,
        NextDay, Suspend, AnswerInReviewer, SyncReview, Dashboard
<1>3. QED
  BY <1>1, <1>2

\* A problem that was seen is served again only while the row of its leaf is out of
\* date (build_queue() in scheduler.rs and its fallback for thin sessions).
THEOREM SeenNotServed == Spec => SeenIsNotServed
<1>1. Init => TypeOK /\ RowsFollowLog /\ SeenIsLogged
  BY TypeInit, RowsInit, SeenInit
<1>2. TypeOK /\ RowsFollowLog /\ SeenIsLogged /\ [Next]_vars
        => (TypeOK /\ RowsFollowLog /\ SeenIsLogged)'
  BY TypeStep, RowsStep, SeenStep
<1>3. TypeOK /\ RowsFollowLog /\ SeenIsLogged /\ [Next]_vars
        => [page.name = "dashboard" /\ page'.name = "study" =>
              \A c \in page'.left \cap Problems : Seen(c) => LeafOf[c] \in stale]_vars
  BY NotServedStep
<1>4. QED
  BY <1>1, <1>2, <1>3, PTL DEF Spec, SeenIsNotServed

=============================================================================
