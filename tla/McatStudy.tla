------------------------------- MODULE McatStudy -------------------------------
(***************************************************************************)
(* The MCAT layer (rslib/src/mcat): study sessions and diagnostic exams    *)
(* over the cards of a collection, and the state of every subtopic         *)
(* ("leaf") that decides what may be served.                               *)
(*                                                                         *)
(* The state of a leaf is a row derived from the review log.  It is written *)
(* when a card of the leaf is answered and when everything is recomputed;  *)
(* undo, redo and a sync change the log and leave the rows as they were.   *)
(*                                                                         *)
(* The log is kept as what score_leaf() reads from it: one record for each *)
(* leaf, and for each card the days since its last review.  Days are whole; *)
(* spacing weights are counted in days out of SPACING_FULL_DAYS.  Fluency  *)
(* depends on FSRS's memory model and is left open: any value that the     *)
(* log's recalls allow.                                                    *)
(***************************************************************************)
EXTENDS Naturals, FiniteSets

CONSTANTS
  Cards,          \* the cards tagged mcat::*
  Problems,       \* those tagged mcat::app, and all of CARS
  LeafOf,         \* the leaf of each card
  Cars,           \* the leaves of the CARS section
  PER_LEAF_MAX,   \* cards of one leaf in a session
  session_size,   \* cards in a session
  new_per_day,    \* new cards in a session
  ThinSession,    \* fewer candidates than this are filled up (6 in build_queue)
  ExamSize,       \* questions of the diagnostic exam
  SPACING_FULL_DAYS,  \* days after which a review counts in full (3 in model.rs)
  MaxDue,         \* bound: days until a card is due again
  MaxTrouble      \* bound: events other than studying

SPACED_CORRECT_TARGET == 2 * SPACING_FULL_DAYS
Never == SPACING_FULL_DAYS + 1

Flashcards == Cards \ Problems
Leaves == {LeafOf[c] : c \in Cards}
CardsOf(l) == {c \in Cards : LeafOf[c] = l}

ASSUME CardsAssumption == Problems \subseteq Cards /\ DOMAIN LeafOf = Cards
ASSUME CarsAssumption == Cars \subseteq Leaves /\ \A l \in Cars : CardsOf(l) \subseteq Problems
ASSUME LimitsAssumption ==
  {PER_LEAF_MAX, session_size, new_per_day, ThinSession, ExamSize, SPACING_FULL_DAYS} \subseteq Nat \ {0}
ASSUME BoundsAssumption == MaxDue \in Nat /\ MaxTrouble \in Nat

VARIABLES
  card,     \* each card: studied (reps > 0), days until due, suspended, days since its last review
  log,      \* what the review log says of each leaf
  row,      \* mcat_leaf_state
  page,     \* the page that is open, and the cards it has left
  undo,     \* cards and log before the last answer or reset, if it can be undone
  redo,     \* cards and log before the last undo, if it can be redone
  trouble,  \* events other than studying so far
  stale     \* history: leaves whose log changed with no score after it

vars == <<card, log, row, page, undo, redo, trouble, stale>>

Card == [studied: BOOLEAN, due: 0..MaxDue, suspended: BOOLEAN, gap: 0..Never]
Evidence == [reviews: 0..2, spaced: 0..SPACED_CORRECT_TARGET, quick: BOOLEAN, solved: BOOLEAN,
             latest: {"none", "right", "first", "lapse"}]
LeafState == [assessed: BOOLEAN, gate_open: BOOLEAN]

NoEvidence == [reviews |-> 0, spaced |-> 0, quick |-> FALSE, solved |-> FALSE, latest |-> "none"]
Empty == [assessed |-> FALSE, gate_open |-> FALSE]
NoStep == [card |-> <<>>, log |-> <<>>]
Dashboard == [name |-> "dashboard", left |-> {}]
Now == [card |-> card, log |-> log]

AtMost(n, m) == IF n < m THEN n ELSE m

TypeOK ==
  /\ card \in [Cards -> Card]
  /\ log \in [Leaves -> Evidence]
  /\ row \in [Leaves -> LeafState]
  /\ page \in [name: {"dashboard", "study", "exam"}, left: SUBSET Cards]
  /\ page.name = "exam" => page.left \subseteq Problems
  /\ \A step \in {undo, redo} : step = NoStep \/ step \in [card: [Cards -> Card], log: [Leaves -> Evidence]]
  /\ trouble \in 0..MaxTrouble
  /\ stale \subseteq Leaves

Unstudied == [studied |-> FALSE, due |-> 0, suspended |-> FALSE, gap |-> Never]

Init ==
  /\ card = [c \in Cards |-> Unstudied]
  /\ log = [l \in Leaves |-> NoEvidence]
  /\ row = [l \in Leaves |-> Empty]
  /\ page = Dashboard
  /\ undo = NoStep /\ redo = NoStep
  /\ trouble = 0
  /\ stale = {}

-----------------------------------------------------------------------------
(* Scoring a leaf *)

\* The spacing weight of a review of c, in days: full for the first one.
SpacingWeight(c) == AtMost(card[c].gap, SPACING_FULL_DAYS)

\* The log of the leaf of c with one more review of c.
Reviewed(c, right, fast) ==
  LET e == log[LeafOf[c]]
      recalled == right /\ c \in Flashcards
      latest == IF right THEN "right" ELSE IF card[c].gap = Never THEN "first" ELSE "lapse"
  IN  [reviews |-> AtMost(e.reviews + 1, 2),
       spaced |-> IF recalled THEN AtMost(e.spaced + SpacingWeight(c), SPACED_CORRECT_TARGET) ELSE e.spaced,
       quick |-> e.quick \/ (recalled /\ fast /\ SpacingWeight(c) > 0),
       solved |-> e.solved \/ (right /\ c \in Problems),
       latest |-> latest]

\* Can a leaf with these reviews be fluent and sufficiently spaced?
MayBeFluent(e) == e.quick /\ e.spaced = SPACED_CORRECT_TARGET

RecentLapse(e) == e.latest = "lapse" /\ e.reviews > 1

\* The rows score_leaf() may give: fluency is over the threshold or not.
Scores(l, e) ==
  {[assessed |-> e.reviews > 0, gate_open |-> open] :
     open \in CASE l \in Cars      -> {TRUE}
                [] l \notin Cars   -> IF RecentLapse(e) THEN {FALSE}
                                      ELSE IF e.solved THEN {TRUE}
                                      ELSE IF MayBeFluent(e) THEN BOOLEAN ELSE {FALSE}}

-----------------------------------------------------------------------------
(* Choosing the cards of a session: build_queue *)

Seen(c) == card[c].gap # Never

\* Seeded fault: while the gate is closed only new flashcards are served.
WantedNewOnly(c) ==
  LET gate_open == row[LeafOf[c]].gate_open
      is_new == ~card[c].studied
  IN  /\ ~card[c].suspended
      /\ \/ c \in Flashcards /\ gate_open /\ ~is_new /\ card[c].due = 0
         \/ c \in Flashcards /\ ~gate_open /\ is_new
         \/ c \in Problems /\ ~Seen(c) /\ (gate_open \/ LeafOf[c] \in Cars)

Wanted(c) ==
  LET gate_open == row[LeafOf[c]].gate_open
      is_new == ~card[c].studied
      is_due == card[c].due = 0
  IN  /\ ~card[c].suspended
      /\ \/ c \in Flashcards /\ gate_open /\ ~is_new /\ is_due
         \/ c \in Flashcards /\ ~gate_open /\ (is_new \/ is_due)
         \/ c \in Problems /\ ~Seen(c) /\ (gate_open \/ LeafOf[c] \in Cars)

WantedCards == {c \in Cards : Wanted(c)}

\* Seeded fault: the fallback looks for leaves that no flashcard was studied of.
ExtraUnstudied ==
  IF Cardinality(WantedCards) >= ThinSession THEN {}
  ELSE {c \in Cards \ WantedCards :
          ~card[c].suspended /\ \A d \in CardsOf(LeafOf[c]) \cap Flashcards : ~card[d].studied}

\* New content for a thin session: whatever a leaf that is not assessed has.
Extra ==
  IF Cardinality(WantedCards) >= ThinSession THEN {}
  ELSE {c \in Cards \ WantedCards : ~card[c].suspended /\ ~row[LeafOf[c]].assessed}

IsNew(c) == c \in Extra \/ (c \in Flashcards /\ ~card[c].studied)

\* Does c come before d whatever their leaves' recency and freshness?
Before(c, d) ==
  \/ c \notin Extra /\ d \in Extra
  \/ {c, d} \subseteq Flashcards \ Extra /\ ~IsNew(c) /\ IsNew(d)

\* The sessions build_queue() may return: a card is only left out because the
\* cards that may come before it have reached a cap.
Sessions ==
  LET Rivals(c, S) == {d \in S : ~Before(c, d)}
  IN  {S \in SUBSET (WantedCards \cup Extra) :
        /\ Cardinality(S) <= session_size
        /\ Cardinality({c \in S : IsNew(c)}) <= new_per_day
        /\ \A l \in Leaves : Cardinality(S \cap CardsOf(l)) <= PER_LEAF_MAX
        /\ \A c \in (WantedCards \cup Extra) \ S :
             \/ Cardinality(Rivals(c, S)) >= session_size
             \/ Cardinality(Rivals(c, S) \cap CardsOf(LeafOf[c])) >= PER_LEAF_MAX
             \/ IsNew(c) /\ Cardinality({d \in Rivals(c, S) : IsNew(d)}) >= new_per_day}

\* Seeded fault: flashcards are candidates of the exam.
ExamsOfAll == {S \in SUBSET Cards : Cardinality(S) = AtMost(ExamSize, Cardinality(Cards))}

\* select_diagnostic(): one question of every leaf first, then up to the target.
Exams ==
  LET LeavesOf(S) == {LeafOf[c] : c \in S}
      size == AtMost(ExamSize, Cardinality(Problems))
  IN  {S \in SUBSET Problems :
        Cardinality(S) = size /\ Cardinality(LeavesOf(S)) = AtMost(size, Cardinality(LeavesOf(Problems)))}

-----------------------------------------------------------------------------
(* Steps *)

Trouble == trouble < MaxTrouble /\ trouble' = trouble + 1

\* Bound: a step is forgotten once no event is left to undo it.
Kept(step) == IF trouble' < MaxTrouble THEN step ELSE NoStep

\* answer_card_inner() for one card, up to the refresh of its leaf: the review
\* is logged, the card scheduled, and the step can be undone.
Record(c, right, fast) ==
  /\ \E due \in IF c \in Flashcards THEN 0..MaxDue ELSE {0} :
       card' = [card EXCEPT ![c].studied = TRUE, ![c].due = due, ![c].gap = 0]
  /\ log' = [log EXCEPT ![LeafOf[c]] = Reviewed(c, right, fast)]

\* Seeded fault: the leaf is scored before the review is logged.
RefreshEarly(c) ==
  /\ row' \in {[row EXCEPT ![LeafOf[c]] = s] : s \in Scores(LeafOf[c], log[LeafOf[c]])}
  /\ stale' = stale \ {LeafOf[c]}

\* The hook at the end of the answer: the leaf of the card is scored again.
Refresh(c) ==
  /\ row' \in {[row EXCEPT ![LeafOf[c]] = s] : s \in Scores(LeafOf[c], log'[LeafOf[c]])}
  /\ stale' = stale \ {LeafOf[c]}

Answer(c, right, fast) ==
  /\ Record(c, right, fast)
  /\ Refresh(c)
  /\ undo' = Kept(Now) /\ redo' = NoStep

OpenStudy ==
  /\ page.name = "dashboard"
  /\ \E S \in Sessions : page' = [name |-> "study", left |-> S]
  /\ UNCHANGED <<card, log, row, undo, redo, trouble, stale>>

OpenExam ==
  /\ page.name = "dashboard"
  /\ Trouble
  /\ \E S \in Exams : page' = [name |-> "exam", left |-> S]
  /\ undo' = Kept(undo) /\ UNCHANGED redo
  /\ UNCHANGED <<card, log, row, stale>>

\* One card of the page is answered: in the page's order for a session, which
\* is left open; in any order for an exam, which does not wait for its calls.
\* The page does not ask again whether the card is still to be served.
AnswerItem(c, right, fast) ==
  /\ c \in page.left
  /\ UNCHANGED trouble
  /\ Answer(c, right, fast)
  /\ page' = [page EXCEPT !.left = @ \ {c}]

\* Everything is scored again, one leaf after the other.
RecomputeAll ==
  /\ row' \in {r \in [Leaves -> LeafState] : \A l \in Leaves : r[l] \in Scores(l, log[l])}
  /\ stale' = {}

\* A finished exam recomputes all leaves; a session that is finished does not.
FinishPage ==
  /\ page.name # "dashboard" /\ page.left = {}
  /\ page' = Dashboard
  /\ IF page.name = "exam" THEN RecomputeAll ELSE UNCHANGED <<row, stale>>
  /\ UNCHANGED <<card, log, undo, redo, trouble>>

LeavePage ==
  /\ page.left # {}
  /\ page' = Dashboard
  /\ UNCHANGED <<card, log, row, undo, redo, trouble, stale>>

Recompute ==
  /\ page.name = "dashboard"
  /\ Trouble
  /\ RecomputeAll
  /\ undo' = Kept(undo) /\ UNCHANGED redo
  /\ UNCHANGED <<card, log, page>>

\* A card is answered in the ordinary reviewer, with the same hook.
AnswerInReviewer(c, right, fast) ==
  /\ Trouble
  /\ ~card[c].suspended /\ card[c].due = 0
  /\ Answer(c, right, fast)
  /\ UNCHANGED page

\* The refresh fails; the answer stands, and only a warning is logged.
AnswerUnscored(c, right, fast) ==
  /\ Trouble
  /\ c \in page.left
  /\ Record(c, right, fast)
  /\ undo' = Kept(Now) /\ redo' = NoStep
  /\ page' = [page EXCEPT !.left = @ \ {c}]
  /\ stale' = stale \cup {LeafOf[c]}
  /\ UNCHANGED row

ChangedLeaves(before, after) == {l \in Leaves : before[l] # after[l]}

\* Undo and redo of the last step restore cards and log, never the rows.
Undo ==
  /\ Trouble
  /\ undo # NoStep
  /\ card' = undo.card /\ log' = undo.log
  /\ undo' = NoStep /\ redo' = Now
  /\ stale' = stale \cup ChangedLeaves(log, log')
  /\ UNCHANGED <<row, page>>

Redo ==
  /\ redo # NoStep
  /\ UNCHANGED trouble
  /\ card' = redo.card /\ log' = redo.log
  /\ redo' = NoStep /\ undo' = Kept(Now)
  /\ stale' = stale \cup ChangedLeaves(log, log')
  /\ UNCHANGED <<row, page>>

\* The evidence of a leaf with one more review of c before the latest one.  It
\* shortens the gap, so the weight, of the next one, and may make a miss a lapse.
SpacedWith(e, c, right) ==
  {s \in 0..SPACED_CORRECT_TARGET :
     IF c \in Problems THEN s = e.spaced
     ELSE IF right THEN e.spaced <= s /\ s <= e.spaced + SPACING_FULL_DAYS
     ELSE s <= e.spaced /\ e.spaced <= s + SPACING_FULL_DAYS}
QuickWith(e, c, right, fast) ==
  {q \in BOOLEAN : IF c \in Problems THEN q = e.quick ELSE q => e.quick \/ (right /\ fast)}
SolvedWith(e, c, right) == e.solved \/ (right /\ c \in Problems)
LatestWith(e) == IF e.latest = "first" THEN {"first", "lapse"} ELSE {e.latest}

Inserted(e, c, right, fast) ==
  {[reviews |-> AtMost(e.reviews + 1, 2), spaced |-> s, quick |-> q,
    solved |-> SolvedWith(e, c, right), latest |-> l] :
   s \in SpacedWith(e, c, right), q \in QuickWith(e, c, right, fast), l \in LatestWith(e)}

\* The card is left alone if it has changed here since.
RecordOlder(c, right, fast) ==
  \E gap \in 0..SPACING_FULL_DAYS, due \in IF c \in Flashcards THEN 0..MaxDue ELSE {0} :
    /\ gap <= card[c].gap /\ \E d \in CardsOf(LeafOf[c]) : card[d].gap <= gap
    /\ card' \in {[card EXCEPT ![c].gap = gap],
                  [card EXCEPT ![c].studied = TRUE, ![c].due = due, ![c].gap = gap]}
    /\ log' \in {[log EXCEPT ![LeafOf[c]] = e] : e \in Inserted(log[LeafOf[c]], c, right, fast)}

\* A sync brings the review of a card that was answered on another device; reviews
\* are read in the order of their time stamps.
SyncReview(c, right, fast) ==
  /\ Trouble
  /\ Record(c, right, fast) \/ RecordOlder(c, right, fast)
  /\ undo' = NoStep /\ redo' = NoStep
  /\ stale' = stale \cup {LeafOf[c]}
  /\ UNCHANGED <<row, page>>

Suspend(c) ==
  /\ Trouble
  /\ ~card[c].suspended
  /\ card' = [card EXCEPT ![c].suspended = TRUE]
  /\ undo' = Kept(Now) /\ redo' = NoStep
  /\ UNCHANGED <<log, row, page, stale>>

AsNew(c) == [card[c] EXCEPT !.studied = FALSE, !.due = 0, !.suspended = FALSE]

\* mcat_reset_progress(): all cards become new in a step that can be undone;
\* the reviews and rows are deleted in one that cannot; the rows are built.
Reset ==
  /\ page.name = "dashboard"
  /\ Trouble
  /\ card' = [c \in Cards |-> [AsNew(c) EXCEPT !.gap = Never]]
  /\ log' = [l \in Leaves |-> NoEvidence]
  /\ row' = [l \in Leaves |-> [Empty EXCEPT !.gate_open = l \in Cars]]
  /\ undo' = NoStep /\ redo' = NoStep
  /\ stale' = {}
  /\ UNCHANGED page

\* It fails after its first step, or while the rows are built.
ResetFails ==
  /\ page.name = "dashboard"
  /\ Trouble
  /\ redo' = NoStep
  /\ UNCHANGED page
  /\ \/ /\ card' = [c \in Cards |-> AsNew(c)]
        /\ undo' = Kept(Now)
        /\ UNCHANGED <<log, row, stale>>
     \/ /\ card' = [c \in Cards |-> [AsNew(c) EXCEPT !.gap = Never]]
        /\ log' = [l \in Leaves |-> NoEvidence]
        /\ \E built \in SUBSET Leaves :
             /\ row' = [l \in Leaves |-> [Empty EXCEPT !.gate_open = l \in Cars \cap built]]
             /\ stale' = Leaves \ built
        /\ undo' = NoStep

\* A day passes: for the cards, and for what undo and redo would restore.
Aged(cards) ==
  [c \in Cards |->
     [cards[c] EXCEPT !.due = IF @ > 0 THEN @ - 1 ELSE 0,
                      !.gap = IF @ < SPACING_FULL_DAYS /\ c \in Flashcards THEN @ + 1 ELSE @]]

AgedStep(step) == IF step = NoStep THEN NoStep ELSE [step EXCEPT !.card = Aged(@)]

NextDay ==
  /\ card' = Aged(card)
  /\ undo' = AgedStep(undo) /\ redo' = AgedStep(redo)
  /\ UNCHANGED <<log, row, page, trouble, stale>>

\* Speed is only read of flashcards: automaticity.
Answers == {a \in [c: Cards, right: BOOLEAN, fast: BOOLEAN] : a.c \in Problems => a.fast}

Next ==
  \/ OpenStudy \/ OpenExam \/ FinishPage \/ LeavePage \/ Recompute
  \/ Undo \/ Redo \/ Reset \/ ResetFails \/ NextDay
  \/ \E c \in Cards : Suspend(c)
  \/ \E a \in Answers :
       \/ AnswerItem(a.c, a.right, a.fast)
       \/ AnswerInReviewer(a.c, a.right, a.fast)
       \/ AnswerUnscored(a.c, a.right, a.fast)
       \/ SyncReview(a.c, a.right, a.fast)

Spec == Init /\ [][Next]_vars

-----------------------------------------------------------------------------
(* Fairness: a learner who goes on studying, and a calendar that goes on.  *)
(* The learner answers every problem that is shown again and again, right  *)
(* or wrong, and recalls every flashcard now and then on a later day,      *)
(* rightly and fast enough to be fluent if the log allows it.              *)

RecallLater(c) ==
  /\ c \in Flashcards /\ 0 < card[c].gap /\ card[c].gap < Never
  /\ AnswerItem(c, TRUE, TRUE)
  /\ MayBeFluent(log'[LeafOf[c]]) => row'[LeafOf[c]].gate_open

Learner ==
  /\ WF_vars(NextDay) /\ WF_vars(OpenStudy) /\ WF_vars(FinishPage)
  /\ \A c \in Problems : SF_vars(AnswerItem(c, TRUE, TRUE) \/ AnswerItem(c, FALSE, TRUE))
  /\ \A c \in Flashcards : SF_vars(AnswerItem(c, TRUE, TRUE)) /\ SF_vars(RecallLater(c))

FairSpec == Spec /\ Learner

-----------------------------------------------------------------------------
(* Properties *)

\* PRD.md:236: the row of a leaf is derived from the review log and the cards'
\* memory.  It is, but for the leaves whose log changed with no score after it:
\* an undo, a redo, a sync or a failed refresh since the leaf's last answer.
RowsFollowLog ==
  \A l \in Leaves \ stale :
    row[l] \in Scores(l, log[l]) \/ (row[l] = Empty /\ log[l].reviews = 0)

\* scheduler.rs, build_queue(): "Each MCQ is one-shot, so once seen it's never
\* re-served".  The fallback of a thin session has no such test: it relies on the
\* leaf of a problem that was seen being assessed, which only a stale row denies.
SeenIsNotServed ==
  [][page.name = "dashboard" /\ page'.name = "study" =>
       \A c \in page'.left \cap Problems : Seen(c) => LeafOf[c] \in stale]_vars

\* No problem starves, whatever is answered wrongly, undone, synced or reset on
\* the way: a leaf with a flashcard is unlocked again and again until the learner
\* has met all its problems, unless the user has suspended cards of it.
EveryProblemIsMet ==
  \A p \in Problems : <>[](Seen(p) \/ \E c \in CardsOf(LeafOf[p]) : card[c].suspended)

\* PRD.md:62: "One wrong answer is enough to (re)open rote work for that
\* subtopic", once there is earlier evidence of it.
MissReopensRote ==
  \A l \in Leaves \ (Cars \cup stale) :
    log[l].reviews > 1 /\ log[l].latest \in {"first", "lapse"} => ~row[l].gate_open
================================================================================
