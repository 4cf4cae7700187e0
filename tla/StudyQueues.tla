------------------------------ MODULE StudyQueues ------------------------------
(***************************************************************************)
(* The cached study queues of a collection (rslib/src/scheduler/queue),    *)
(* the answering of the card at their top (scheduler/answering), sibling   *)
(* burying (scheduler/bury_and_suspend.rs) and their undo (queue/undo.rs). *)
(*                                                                         *)
(* The queues are built once from the cards of the current deck and then   *)
(* edited in place by every answer, undo and redo of an answer; any other  *)
(* operation throws them away.  The collection mutex makes every backend   *)
(* call one action; the user, the clock and the calls of other windows     *)
(* interleave between them.                                                *)
(*                                                                         *)
(* A time is a number of seconds counted from Epoch, so that, as in the    *)
(* code, a day number (below Epoch) and a time stamp are told apart by     *)
(* their size.  Intervals, ease and memory states are left out: the state  *)
(* an answer is checked against is the card's type and its preview flag.   *)
(***************************************************************************)
EXTENDS Integers, SequencesExt

CONSTANTS
  Cards,          \* card ids, numbers: queries return rows in their order
  Note,           \* the note of a card
  Starts,         \* card tables and settings of sibling burying a run starts from
  Delays,         \* learning steps and preview delays, in seconds
  LearnAhead,     \* learn_ahead_secs
  OutsideOps,     \* operations that answer a card without the queue
  Epoch, DayLen,  \* time stamp of day 0, seconds in a day
  UndoLimit,      \* UNDO_LIMIT
  Times,          \* bound: the time stamps at which something happens
  MaxBuilds,      \* bound: how often the queues are built
  MaxAnswers,     \* bound: answers given in the reviewer
  MaxOthers,      \* bound: operations of other windows
  OtherCards,     \* bound: cards changed by other windows
  None            \* no queues, no card, no queue change

ASSUME CardsAssumption == Cards \subseteq Nat /\ IsFiniteSet(Cards) /\ OtherCards \subseteq Cards
\* No day number reaches the first time stamp.
ASSUME TimeAssumption ==
  /\ Epoch \in Nat \ {0} /\ DayLen \in Nat \ {0}
  /\ \A t \in Times : t \in Nat /\ t >= Epoch /\ (t - Epoch) \div DayLen + 1 < Epoch
  /\ LearnAhead \in Nat /\ Delays \subseteq Nat \ {0}
ASSUME UndoAssumption == UndoLimit \in Nat \ {0} /\ MaxBuilds \in Nat /\ MaxAnswers \in Nat /\ MaxOthers \in Nat
ASSUME OpsAssumption == OutsideOps \subseteq {"AnswerCard", "GradeNow"}

VARIABLES
  now,           \* TimestampSecs::now()
  card,          \* the cards table
  bury,          \* the bury settings of the deck's preset
  queues,        \* state.card_queues
  undo, redo,    \* undo and redo steps, next one first
  last_unburied, \* config key lastUnburied
  shown,         \* the card the reviewer shows, with the state it was fetched in
  builds,        \* queue builds so far: build times are distinct
  answers, others, \* transactions of the reviewer and of other windows so far
  behind,        \* cards changed by steps that kept the queues without editing them
  panicked       \* a Rust panic ended the session

vars == <<now, card, bury, queues, undo, redo, last_unburied, shown, builds, answers, others, behind, panicked>>

(***************************************************************************)
(* Cards and days                                                          *)
(***************************************************************************)
IntradayQueues == {"Learn", "PreviewRepeat"}
BuriedOrSuspended == {"Suspended", "SchedBuried", "UserBuried"}
CardQueue == IntradayQueues \cup BuriedOrSuspended \cup {"New", "DayLearn", "Review"}
Card == [queue: CardQueue, ctype: {"New", "Learn", "Review"}, due: Nat, mtime: Nat,
         reps: {0, 1}, preview: BOOLEAN]
BuryMode == [daylearn: BOOLEAN, review: BOOLEAN, new: BOOLEAN]

Today == (now - Epoch) \div DayLen
NextDayAt == Epoch + (Today + 1) * DayLen

RestoredQueue(k) ==
  CASE k.ctype = "New" -> "New"
    [] k.ctype = "Review" -> "Review"
    [] k.ctype = "Learn" -> IF k.due >= Epoch THEN "Learn" ELSE "DayLearn"

\* unbury_on_day_rollover() leaves the modification time alone.
Unburied(cards) ==
  [c \in Cards |-> IF cards[c].queue \in {"SchedBuried", "UserBuried"}
                   THEN [cards[c] EXCEPT !.queue = RestoredQueue(cards[c])]
                   ELSE cards[c]]

\* A card that waits outside the learning queue is not due at a time stamp.
ASSUME StartsAssumption ==
  \A start \in Starts :
    /\ start.cards \in [Cards -> Card] /\ start.bury \in BuryMode
    /\ \A c \in Cards : start.cards[c].queue \in {"New", "DayLearn", "Review"}
                         => RestoredQueue(start.cards[c]) # "Learn"

(***************************************************************************)
(* The queues and their entries                                            *)
(***************************************************************************)
MainEntry == [id: Cards, kind: {"New", "DayLearn", "Review"}, mtime: Nat]
LearnEntry == [id: Cards, kind: {"Learning"}, due: Nat, mtime: Nat, reps: {0, 1}]
CardQueues == [main: Seq(MainEntry), learning: Seq(LearnEntry), cutoff: Nat, day: Nat, build: Nat,
               counts: [new: Nat, learning: Nat, review: Nat]]
\* What is recorded for the undo of an answer, with the queues of before it (history).
QueueUpdate == [entry: MainEntry \cup LearnEntry, requeue: LearnEntry \cup {None}, build: Nat,
                snapshot: [learning: Nat, cutoff: Nat], before: CardQueues]

ASSUME NoneAssumption == None \notin MainEntry \cup LearnEntry \cup QueueUpdate \cup CardQueues

(***************************************************************************)
(* The order of the learning queue, and what is shown                      *)
(***************************************************************************)
NoReps(e) == IF e.reps = 0 THEN 1 ELSE 0
Precedes(e, f) ==    \* cmp_by_reps_then_due() is not Greater
  NoReps(e) < NoReps(f) \/ (NoReps(e) = NoReps(f) /\ e.due <= f.due)

AheadCutoff(q) == q.cutoff + LearnAhead
\* The first of CardQueues::iter(): learning cards that are due, the main queue,
\* learning cards due soon.
TopEntry(q) ==
  LET ready == {i \in DOMAIN q.learning : q.learning[i].due <= q.cutoff}
      soon == {i \in DOMAIN q.learning : q.learning[i].due <= AheadCutoff(q)}
  IN  IF ready # {} THEN q.learning[Min(ready)]
      ELSE IF q.main # <<>> THEN Head(q.main)
      ELSE IF soon # {} THEN q.learning[Min(soon)] ELSE None

HasLearning(q, c) == \E i \in DOMAIN q.learning : q.learning[i].id = c
LearningIndex(q, c) ==
  CHOOSE i \in DOMAIN q.learning :
    q.learning[i].id = c /\ \A j \in 1..(i - 1) : q.learning[j].id # c
TopOfMain(q, c) == q.main # <<>> /\ Head(q.main).id = c
CanPop(q, c) == HasLearning(q, c) \/ TopOfMain(q, c)

Saturating(n, d) == IF n < d THEN 0 ELSE n - d
CountOf(kind) ==
  CASE kind = "New" -> "new" [] kind = "Review" -> "review" [] kind = "DayLearn" -> "learning"

(***************************************************************************)
(* Edits of the queues                                                     *)
(***************************************************************************)
EntryOf(q, c) ==
  IF HasLearning(q, c) THEN q.learning[LearningIndex(q, c)] ELSE Head(q.main)

PopEntry(q, c) ==
  IF HasLearning(q, c)
  THEN [q EXCEPT !.learning = RemoveAt(@, LearningIndex(q, c)),
                 !.counts.learning = Saturating(@, 1)]
  ELSE LET kind == Head(q.main).kind
       IN  [q EXCEPT !.main = Tail(@),
                     !.counts[CountOf(kind)] = IF kind = "DayLearn" THEN Saturating(@, 1)
                                               ELSE @ - 1]

PushUndoEntry(q, e) ==
  IF e.kind = "Learning"
  THEN [q EXCEPT !.learning = <<e>> \o @, !.counts.learning = @ + 1]
  ELSE [q EXCEPT !.main = <<e>> \o @, !.counts[CountOf(e.kind)] = @ + 1]

\* A binary search ends between two entries, or at an equal one; the queue it
\* searches need not be sorted.
InsertPositions(q, e) ==
  {i \in 1..(Len(q.learning) + 1) :
     /\ i > 1 => Precedes(q.learning[i - 1], e)
     /\ i <= Len(q.learning) => Precedes(e, q.learning[i])}
InsertLearning(q, e) ==
  {[q EXCEPT !.learning = InsertAt(@, i, e),
             !.counts.learning = IF e.due <= AheadCutoff(q) THEN @ + 1 ELSE @] :
     i \in InsertPositions(q, e)}

\* Seeded fault: an entry outside the learn-ahead window is counted off too.
RemoveLearningUncounted(q, c) ==
  IF ~HasLearning(q, c) THEN q
  ELSE [q EXCEPT !.learning = RemoveAt(@, LearningIndex(q, c)),
                 !.counts.learning = Saturating(@, 1)]
\* remove_intraday_learning_card()
RemoveLearning(q, c) ==
  IF ~HasLearning(q, c) THEN q
  ELSE LET e == q.learning[LearningIndex(q, c)]
       IN  [q EXCEPT !.learning = RemoveAt(@, LearningIndex(q, c)),
                     !.counts.learning = IF e.due <= AheadCutoff(q)
                                         THEN Saturating(@, 1) ELSE @]

\* Not shown again at once while another learning card waits.
RequeueDue(q, due) ==
  LET next == Head(q.learning)
      wouldShow == due <= AheadCutoff(q) /\ q.main = <<>> /\ q.learning # <<>>
  IN  IF wouldShow /\ next.due >= due /\ next.due + 1 < AheadCutoff(q)
      THEN next.due + 1 ELSE due

LearningEntry(c, k, due) ==
  [id |-> c, kind |-> "Learning", due |-> due, mtime |-> k.mtime, reps |-> k.reps]
\* Seeded fault: repeated previews are not put back.
StillDueTodayLearnOnly(k) == k.queue = "Learn" /\ k.due < NextDayAt
StillDueToday(k) == k.queue \in IntradayQueues /\ k.due < NextDayAt

Snapshot(q) == [learning |-> q.counts.learning, cutoff |-> q.cutoff]
\* Seeded fault: the count is not restored with the cutoff.
RestoreCutoffOnly(q, s) == [q EXCEPT !.cutoff = s.cutoff]
RestoreCutoff(q, s) == [q EXCEPT !.counts.learning = s.learning, !.cutoff = s.cutoff]
AdvanceCutoff(q) ==
  LET fresh == {i \in DOMAIN q.learning :
                  /\ q.learning[i].due > AheadCutoff(q)
                  /\ q.learning[i].due <= now + LearnAhead}
  IN  [q EXCEPT !.cutoff = now, !.counts.learning = @ + Cardinality(fresh)]
AllZero(q) == q.counts.new = 0 /\ q.counts.learning = 0 /\ q.counts.review = 0
CountsCall(q) == IF AllZero(q) THEN AdvanceCutoff(q) ELSE q

(***************************************************************************)
(* Building the queues                                                     *)
(***************************************************************************)
\* A card is left out when its queue is buried and a sibling came before it:
\* in an earlier pass (seen), or earlier in this one.
Gathered(cands, seen, buried) ==
  {c \in cands :
     ~(buried /\ \E s \in seen \cup {d \in cands : d < c} : Note[s] = Note[c])}

LearningOrder(e, f) == Precedes(e, f) /\ (Precedes(f, e) => e.id < f.id)
LearningSorted(S) ==
  {seq \in SetToSeqs(S) : \A i, j \in DOMAIN seq : i < j => LearningOrder(seq[i], seq[j])}

\* Sort order and mix settings put the main queue in any order.
BuiltQueues(cards) ==
  LET intraday == {c \in Cards : cards[c].queue \in IntradayQueues /\ cards[c].due <= NextDayAt}
      due(queue) == {c \in Cards : cards[c].queue = queue /\ cards[c].due <= Today}
      seen == intraday \cup due("DayLearn")
      daylearn == Gathered(due("DayLearn"), intraday, bury.daylearn)
      reviews == Gathered(due("Review"), seen, bury.review)
      new == Gathered({c \in Cards : cards[c].queue = "New"}, seen \cup due("Review"), bury.new)
      soon == {c \in intraday : cards[c].due <= now + LearnAhead}
      entry(c) == [id |-> c, kind |-> cards[c].queue, mtime |-> cards[c].mtime]
  IN  {[main |-> [i \in DOMAIN order |-> entry(order[i])],
        learning |-> learning,
        counts |-> [new |-> Cardinality(new), review |-> Cardinality(reviews),
                    learning |-> Cardinality(soon) + Cardinality(daylearn)],
        cutoff |-> now, day |-> Today, build |-> builds + 1] :
       order \in SetToSeqs(daylearn \cup reviews \cup new),
       learning \in LearningSorted({LearningEntry(c, cards[c], cards[c].due) : c \in intraday})}

(***************************************************************************)
(* Showing the next card                                                   *)
(***************************************************************************)
\* The state an answer is compared with.
StudyState(k) == IF k.preview THEN "Preview" ELSE k.ctype

\* clear_queues_if_day_changed() finds queues of an earlier day.
DayChanged == queues # None /\ queues.day # Today

\* get_queued_cards(1, false): an entry that no longer matches its card is the
\* error "card modified without updating queue", and nothing is shown.
GetNext ==
  /\ ~panicked
  /\ last_unburied' = IF DayChanged THEN Today ELSE last_unburied
  /\ card' = IF DayChanged THEN Unburied(card) ELSE card
  /\ undo' = IF DayChanged THEN <<>> ELSE undo
  /\ redo' = IF DayChanged THEN <<>> ELSE redo
  /\ IF queues = None \/ DayChanged
     THEN /\ builds < MaxBuilds
          /\ builds' = builds + 1
          /\ \E q \in BuiltQueues(card') : queues' = CountsCall(q)
          /\ behind' = {}
     ELSE /\ queues' = CountsCall(queues)
          /\ UNCHANGED <<builds, behind>>
  /\ LET top == TopEntry(queues') IN
     shown' = IF top = None \/ card'[top.id].mtime # top.mtime THEN None
              ELSE [id |-> top.id, state |-> StudyState(card'[top.id])]
  /\ UNCHANGED <<now, bury, answers, others, panicked>>

(***************************************************************************)
(* Answering                                                               *)
(***************************************************************************)
\* The card after each answer button.  Left out: leeches, that are suspended, and
\* rescheduling filtered decks; a delay is fuzzed within the day only.
AfterAnswer(k) ==
  LET Delayed(s) == IF now + s >= NextDayAt
                    THEN [queue |-> "DayLearn", due |-> Today + 1]
                    ELSE [queue |-> "Learn", due |-> now + s]
      touched == [k EXCEPT !.mtime = now]
  IN  IF k.preview
      THEN {[touched EXCEPT !.queue = "PreviewRepeat", !.due = now + s] : s \in Delays}
           \cup {[touched EXCEPT !.queue = RestoredQueue(k), !.due = 0, !.preview = FALSE]}
      ELSE {[touched EXCEPT !.queue = Delayed(s).queue, !.due = Delayed(s).due,
                            !.ctype = "Learn", !.reps = 1] : s \in Delays}
           \cup {[touched EXCEPT !.queue = "Review", !.due = Today + 1,
                                 !.ctype = "Review", !.reps = 1]}
FinishedPreview(k, next) == k.preview /\ ~next.preview

\* exclude_earlier_gathered_queues() and siblings_for_bury.sql
GatherOrd(queue) ==
  CASE queue \in IntradayQueues -> 0 [] queue = "DayLearn" -> 1 [] queue = "Review" -> 2
    [] queue = "New" -> 3 [] queue \in BuriedOrSuspended -> 255
SiblingsToBury(c) ==
  {s \in Cards \ {c} :
     /\ Note[s] = Note[c]
     /\ \/ card[s].queue = "New" /\ bury.new
        \/ card[s].queue = "Review" /\ bury.review /\ GatherOrd(card[c].queue) <= 2
        \/ card[s].queue = "DayLearn" /\ bury.daylearn /\ GatherOrd(card[c].queue) <= 1}

Written(c) == {c} \cup SiblingsToBury(c)
Answered(c, next) ==
  [s \in Cards |-> IF s = c THEN next
                   ELSE IF s \in SiblingsToBury(c)
                        THEN [card[s] EXCEPT !.queue = "SchedBuried", !.mtime = now]
                        ELSE card[s]]

\* update_queues_after_answering_card(): the queues and their undo record.
QueueUpdates(c, next) ==
  IF queues = None THEN {[queues |-> None, update |-> None]}
  ELSE
  LET popped == PopEntry(queues, c)
      requeue == StillDueToday(next) /\ ~FinishedPreview(card[c], next)
      entry == LearningEntry(c, next, RequeueDue(popped, next.due))
      placed == IF requeue THEN InsertLearning(popped, entry) ELSE {popped}
  IN  {[queues |-> AdvanceCutoff(q),
        update |-> [entry |-> EntryOf(queues, c), requeue |-> IF requeue THEN entry ELSE None,
                    build |-> queues.build, snapshot |-> Snapshot(q),
                    before |-> queues]] : q \in placed}    \* before: history only

\* end_step() of a transaction.
\* Seeded fault: the oldest step is not dropped.
PushStepUntruncated(step) == undo' = <<step>> \o undo
PushStep(step) == undo' = SubSeq(<<step>> \o undo, 1, Min({UndoLimit, Len(undo) + 1}))
\* The cards an operation writes are recorded as they were.
StepOf(op, written, update) ==
  [op |-> op, cards |-> [c \in written |-> card[c]], update |-> update]

NextAnswer == answers < MaxAnswers /\ answers' = answers + 1 /\ UNCHANGED others
NextOther == others < MaxOthers /\ others' = others + 1 /\ UNCHANGED answers

\* transact() of an operation other than an answer: the queues are rebuilt.
KeepsQueues(op) == op = "AnswerCard"
UnqueuedChanges(step) == IF step.update = None THEN DOMAIN step.cards ELSE {}
FallBehind(cards) == behind' = IF queues' = None THEN {} ELSE behind \cup cards

Answer ==
  /\ ~panicked /\ shown # None
  /\ NextAnswer
  /\ shown.state = StudyState(card[shown.id])
  /\ queues # None => CanPop(queues, shown.id)
  /\ \E next \in AfterAnswer(card[shown.id]) :
     \E u \in QueueUpdates(shown.id, next) :
       /\ card' = Answered(shown.id, next)
       /\ queues' = u.queues
       /\ PushStep(StepOf("AnswerCard", Written(shown.id), u.update))
  /\ redo' = <<>>
  /\ shown' = None
  /\ UNCHANGED <<now, bury, last_unburied, builds, behind, panicked>>

\* "card was modified" or "not at top of queue": the transaction is rolled back.
AnswerRefused ==
  /\ ~panicked /\ shown # None
  /\ \/ shown.state # StudyState(card[shown.id])
     \/ queues # None /\ ~CanPop(queues, shown.id)
  /\ queues' = None /\ undo' = <<>> /\ redo' = <<>>
  /\ FallBehind({})
  /\ shown' = None
  /\ UNCHANGED <<now, card, bury, last_unburied, builds, answers, others, panicked>>

\* The reviewer drops its card when an operation of another window, an undo or
\* a redo changed the study queues; it is not told of mcat_answer_card().
ReviewerRefreshes == shown' = None

\* mcat_answer_card() and grade_now(): answer_card_inner() with from_queue unset.
AnswerOutsideQueue(op, c) ==
  /\ ~panicked /\ op \in OutsideOps
  /\ NextOther
  /\ \E next \in AfterAnswer(card[c]) :
       /\ card' = Answered(c, next)
       /\ PushStep(StepOf(op, Written(c), None))
       /\ IF KeepsQueues(op) THEN UNCHANGED <<queues, shown>>
          ELSE queues' = None /\ ReviewerRefreshes
       /\ FallBehind(Written(c))
  /\ redo' = <<>>
  /\ UNCHANGED <<now, bury, last_unburied, builds, panicked>>
(***************************************************************************)
(* Other operations, undo and redo                                         *)
(***************************************************************************)
\* bury_or_suspend_cards(): a suspended card is not buried.
BuryOrSuspend(c, queue) ==
  /\ ~panicked /\ card[c].queue \notin {queue, "Suspended"}
  /\ NextOther
  /\ card' = [card EXCEPT ![c].queue = queue, ![c].mtime = now]
  /\ PushStep(StepOf("Other", {c}, None))
  /\ queues' = None /\ redo' = <<>> /\ ReviewerRefreshes /\ FallBehind({})
  /\ UNCHANGED <<now, bury, last_unburied, builds, panicked>>

\* unbury_or_unsuspend_cards()
UnburyOrUnsuspend(c) ==
  /\ ~panicked /\ card[c].queue \in BuriedOrSuspended
  /\ NextOther
  /\ card' = [card EXCEPT ![c].queue = RestoredQueue(card[c]), ![c].mtime = now]
  /\ PushStep(StepOf("Other", {c}, None))
  /\ queues' = None /\ redo' = <<>> /\ ReviewerRefreshes /\ FallBehind({})
  /\ UNCHANGED <<now, bury, last_unburied, builds, panicked>>

\* unbury_if_day_rolled_over(), by the deck list: no transaction, no rebuild.
DeckList ==
  /\ ~panicked /\ last_unburied < Today
  /\ card' = Unburied(card)
  /\ last_unburied' = Today
  /\ UNCHANGED <<now, bury, queues, undo, redo, shown, builds, answers, others, behind, panicked>>

\* The queues after the undo of an answer, and after its redo.
\* Seeded fault: rebuilt queues are taken for those of the answer.
SameBuildAssumed(u) == queues # None
SameBuild(u) == queues # None /\ queues.build = u.build
QueuesAfterUndo(u) ==
  LET restored == RestoreCutoff(queues, u.snapshot)
      removed == IF u.requeue = None THEN restored ELSE RemoveLearning(restored, u.requeue.id)
  IN  IF SameBuild(u) THEN PushUndoEntry(removed, u.entry) ELSE None
QueuesAfterRedo(u) ==
  LET popped == PopEntry(queues, u.entry.id)
      placed == IF u.requeue = None THEN {popped} ELSE InsertLearning(popped, u.requeue)
  IN  IF SameBuild(u) THEN {RestoreCutoff(q, u.snapshot) : q \in placed} ELSE {None}

\* Cards as a step found them, and the step that reverts the reversal.
Reverted(step) == [c \in Cards |-> IF c \in DOMAIN step.cards THEN step.cards[c] ELSE card[c]]
Reversal(step) == [step EXCEPT !.cards = [c \in DOMAIN step.cards |-> card[c]]]

\* A queue change undone on a later day discards the undo state of the very
\* step being recorded, and op_changes() panics after the commit.
PanicsInRollover(step) == step.update # None /\ DayChanged
RollOverInUndo(cards) ==
  /\ card' = cards
  /\ undo' = <<>> /\ redo' = <<>> /\ queues' = None
  /\ last_unburied' = Today
  /\ panicked' = TRUE

Undo ==
  /\ ~panicked /\ undo # <<>>
  /\ LET step == Head(undo) IN
     \/ /\ PanicsInRollover(step)
        /\ RollOverInUndo([c \in Cards |-> IF c \in DOMAIN step.cards THEN step.cards[c]
                                           ELSE Unburied(card)[c]])
     \/ /\ ~PanicsInRollover(step)
        /\ card' = Reverted(step)
        /\ queues' = IF step.update # None THEN QueuesAfterUndo(step.update)
                     ELSE IF KeepsQueues(step.op) THEN queues ELSE None
        /\ undo' = Tail(undo)
        /\ redo' = <<Reversal(step)>> \o redo
        /\ UNCHANGED <<last_unburied, panicked>>
  /\ FallBehind(UnqueuedChanges(Head(undo)))
  /\ ReviewerRefreshes
  /\ UNCHANGED <<now, bury, builds, answers, others>>

Redo ==
  /\ ~panicked /\ redo # <<>>
  /\ LET step == Head(redo) IN
     \/ /\ PanicsInRollover(step)
        /\ RollOverInUndo(Unburied(Reverted(step)))
     \/ /\ ~PanicsInRollover(step)
        /\ card' = Reverted(step)
        /\ IF step.update # None THEN queues' \in QueuesAfterRedo(step.update)
           ELSE queues' = IF KeepsQueues(step.op) THEN queues ELSE None
        /\ PushStep(Reversal(step))
        /\ redo' = Tail(redo)
        /\ UNCHANGED <<last_unburied, panicked>>
  /\ FallBehind(UnqueuedChanges(Head(redo)))
  /\ ReviewerRefreshes
  /\ UNCHANGED <<now, bury, builds, answers, others>>

Tick ==
  /\ ~panicked
  /\ \E t \in Times : /\ t > now
                     /\ \A s \in Times : s > now => t <= s
                     /\ now' = t
  /\ UNCHANGED <<card, bury, queues, undo, redo, last_unburied, shown, builds, answers, others, behind, panicked>>

Init ==
  /\ now \in Times /\ \A t \in Times : now <= t
  /\ \E start \in Starts : card = start.cards /\ bury = start.bury
  /\ queues = None /\ undo = <<>> /\ redo = <<>>
  /\ last_unburied = 0
  /\ shown = None
  /\ builds = 0 /\ answers = 0 /\ others = 0
  /\ behind = {} /\ panicked = FALSE

Next ==
  \/ Tick \/ GetNext \/ Answer \/ AnswerRefused \/ DeckList \/ Undo \/ Redo
  \/ \E c \in OtherCards :
       \/ \E op \in OutsideOps : AnswerOutsideQueue(op, c)
       \/ \E queue \in {"Suspended", "UserBuried"} : BuryOrSuspend(c, queue)
       \/ UnburyOrUnsuspend(c)

Spec == Init /\ [][Next]_vars

(***************************************************************************)
(* Properties                                                              *)
(***************************************************************************)
Entries(q) == ToSet(q.main) \cup ToSet(q.learning)

\* Every variable has its type; the counts never go below zero.
TypeOK ==
  /\ now \in Times
  /\ card \in [Cards -> Card]
  /\ queues # None => \A kind \in DOMAIN queues.counts : queues.counts[kind] \in Nat
  /\ shown = None \/ shown.id \in Cards
  /\ Len(undo) <= UndoLimit
  /\ last_unburied <= Today

\* The counts shown to the user are those of the cached queues: learning cards
\* count once they fall within the learn-ahead window.
OfKind(q, kind) == {e \in ToSet(q.main) : e.kind = kind}
Window(q) == {e \in ToSet(q.learning) : e.due <= AheadCutoff(q)}
CountsMatch(q) ==
  /\ q.counts.new = Cardinality(OfKind(q, "New"))
  /\ q.counts.review = Cardinality(OfKind(q, "Review"))
  /\ q.counts.learning = Cardinality(OfKind(q, "DayLearn")) + Cardinality(Window(q))

\* No entry of the cached queues describes a card that has changed since, the
\* state that get_queued_cards() reports as a bug, unless an answer given outside
\* the queues (or its undo or redo) changed that very card.
EntriesAreFresh ==
  queues # None =>
    \A e \in Entries(queues) : e.id \in behind \/
      /\ card[e.id].mtime = e.mtime
      /\ IF e.kind = "Learning" THEN card[e.id].queue \in IntradayQueues
         ELSE card[e.id].queue = e.kind

\* No card waits twice in the queues, however answers are undone and redone.
Distinct(entries) == \A i, j \in DOMAIN entries : entries[i].id = entries[j].id => i = j
OneEntryPerCard(q) ==
  /\ Distinct(q.main) /\ Distinct(q.learning)
  /\ \A e \in ToSet(q.main), f \in ToSet(q.learning) : e.id # f.id

\* The cached queues and their counts stay in step through answers, undos and
\* redos, which edit them by hand instead of building them anew.
QueuesAgree == queues # None => CountsMatch(queues) /\ OneEntryPerCard(queues)

\* A learning card due before the end of the queues' day is in them, or the user
\* would not see it until something else rebuilds them.  Only the unburying of
\* the deck list and an answer outside the queues, which keep them, leave one out.
LostLearning ==
  IF queues = None THEN {}
  ELSE {c \in Cards : /\ card[c].queue \in IntradayQueues
                      /\ card[c].due < Epoch + (queues.day + 1) * DayLen
                      /\ ~HasLearning(queues, c)}
LearningNotLost == [][DeckList \/ LostLearning' \ behind' \subseteq LostLearning]_vars

\* The undo of an answer on queues not rebuilt since gives back the queues of
\* before it: counts, cutoff and main queue, and the same learning cards.
UndoRestoresQueues ==
  [][Undo /\ queues' # None /\ Head(undo).update # None =>
       LET before == Head(undo).update.before IN
       /\ queues'.main = before.main
       /\ queues'.counts = before.counts
       /\ queues'.cutoff = before.cutoff
       /\ ToSet(queues'.learning) = ToSet(before.learning)]_vars

\* The assertion of op_changes(): an operation is being recorded.
NeverPanics == ~panicked
================================================================================
