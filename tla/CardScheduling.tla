---------------------------- MODULE CardScheduling ----------------------------
(***************************************************************************)
(* The scheduling state of cards: answering (rslib/src/scheduler/answering *)
(* and states), filtered decks (scheduler/filtered), burying and           *)
(* suspending, set due date, forget, reposition (scheduler/reviews.rs and  *)
(* new.rs), moving cards to another deck and removing decks.               *)
(*                                                                         *)
(* The due column of a card has three meanings: the position of a new      *)
(* card, a day number, or a time stamp, told apart by the card's type and  *)
(* by their size (a time stamp is at least Epoch).  A card lent to a       *)
(* filtered deck keeps its due in original_due and its home deck in        *)
(* original_deck_id.  An original_due of 0 is read as "none", although 0   *)
(* is also a position and the day a collection was created; and imports    *)
(* may make reviews due before that day.                                   *)
(*                                                                         *)
(* Every operation is one transaction under the collection mutex.          *)
(* Intervals, ease, lapses, memory states and learning steps are left out: *)
(* an answer leads to any state of the types its card state allows.        *)
(***************************************************************************)
EXTENDS Integers, FiniteSets

CONSTANTS
  Cards, Note,        \* cards, and the note of each
  Normal, Filtered,   \* decks
  DefaultDeck,        \* the deck that cannot be removed
  Children,           \* the decks below a deck in the deck tree
  BuryModes,          \* sibling burying settings of the decks' preset
  Delays, Intervals,  \* delays of learning steps and previews in seconds, intervals in days
  Positions,          \* positions the user gives to new cards
  Starts,             \* schedules a run starts from: [ctype, due, opos] of each card
  Epoch, DayLen, FirstDay,  \* first time stamp, length of a day, number of the first day
  FilteredStart,      \* -100000, the first position in a filtered deck
  Times, MaxSteps,    \* bounds: time stamps of operations, the number of operations
  None                \* no card, no deck, no position

Decks == Normal \cup Filtered

ASSUME DeckAssumption ==
  /\ Normal \cap Filtered = {} /\ DefaultDeck \in Normal /\ None \notin Decks
  /\ Children \in [Normal -> SUBSET Decks]
ASSUME TimeAssumption ==
  /\ Epoch \in Nat /\ DayLen \in Nat \ {0} /\ FirstDay \in Nat
  /\ Delays \subseteq Nat \ {0} /\ Intervals \subseteq Nat \ {0}
  /\ Times \subseteq Nat /\ Epoch \in Times
\* No day a card may become due on has a number as large as a time stamp.
ASSUME DayAssumption ==
  \A t \in Times, n \in {0} \cup Delays \cup Intervals :
    t >= Epoch => FirstDay + (t - Epoch) \div DayLen + n < Epoch
ASSUME PositionAssumption == Positions \subseteq Nat /\ FilteredStart \in Int /\ None \notin Int
\* Positions in a filtered deck stay below 0: it holds at most 100000 cards.
ASSUME CardsAssumption == IsFiniteSet(Cards) /\ FilteredStart + Cardinality(Cards) <= 0

VARIABLES
  now,            \* TimestampSecs::now()
  card,           \* the cards table; None after a removal
  exists,         \* the decks table
  reschedule,     \* the option of each filtered deck
  next_position,  \* config key nextPos
  steps           \* operations so far

vars == <<now, card, exists, reschedule, next_position, steps>>

BuriedOrSuspended == {"Suspended", "SchedBuried", "UserBuried"}
Queue == {"New", "Learn", "DayLearn", "Review", "PreviewRepeat"} \cup BuriedOrSuspended
Type == {"New", "Learn", "Review", "Relearn"}
Card == [did: Decks, odid: Decks \cup {None}, ctype: Type, queue: Queue,
         due: Int, odue: Int, opos: Int \cup {None}]
ASSUME NoneAssumption ==
  None \notin Card /\ None \notin [ctype : Type, due : Int, pos : Int \cup {None}]
ASSUME StartsAssumption ==
  \A start \in Starts :
    /\ start \in [Cards -> [ctype : Type, due : Int, opos : Int \cup {None}]]
    /\ \A c \in Cards : start[c].ctype = "Review" => start[c].due < Epoch

Live == {c \in Cards : card[c] # None}
Today == FirstDay + (now - Epoch) \div DayLen
NextDayAt == Epoch + ((now - Epoch) \div DayLen + 1) * DayLen

Operation ==
  /\ steps < MaxSteps
  /\ steps' = steps + 1
  /\ UNCHANGED now

(***************************************************************************)
(* Cards in and out of filtered decks                                      *)
(***************************************************************************)
IsFiltered(k) == k.odid # None
InPreview(k) == k.did \in Filtered /\ ~reschedule[k.did]

RestoredQueue(k) ==
  CASE k.ctype \in {"Learn", "Relearn"} -> IF k.due >= Epoch THEN "Learn" ELSE "DayLearn"
    [] k.ctype = "New" -> "New"
    [] k.ctype = "Review" -> "Review"
RestoreQueueFromType(k) == [k EXCEPT !.queue = RestoredQueue(k)]

\* move_into_filtered_deck()
MovedInto(k, f, resched, position) ==
  IF k.odue # 0 THEN k
  ELSE [k EXCEPT !.odid = k.did, !.did = f, !.odue = k.due,
                 !.queue = IF resched THEN k.queue ELSE "Review",
                 !.due = IF k.due > 0 THEN position ELSE k.due]

\* remove_from_filtered_deck_before_reschedule()
RemovedBeforeReschedule(k) ==
  IF IsFiltered(k) THEN [k EXCEPT !.did = k.odid, !.odid = None, !.odue = 0] ELSE k

\* Seeded fault: the queue is restored from the due date in the filtered deck.
RemovedQueueFirst(k) ==
  IF ~IsFiltered(k) THEN k
  ELSE [k EXCEPT !.did = k.odid, !.odid = None, !.odue = 0,
                 !.due = IF k.odue # 0 THEN k.odue ELSE k.due,
                 !.queue = IF k.queue \in BuriedOrSuspended THEN k.queue ELSE RestoredQueue(k)]
\* remove_from_filtered_deck_restoring_queue()
RemovedRestoringQueue(k) ==
  LET home == [k EXCEPT !.did = k.odid, !.odid = None, !.odue = 0,
                        !.due = IF k.odue # 0 THEN k.odue ELSE k.due]
  IN  IF ~IsFiltered(k) THEN k
      ELSE IF k.queue \in BuriedOrSuspended THEN home ELSE RestoreQueueFromType(home)

\* all_cards_in_single_deck(): lent cards are in their home deck as well.
\* Seeded fault: cards lent to a filtered deck are overlooked.
InSingleDeckOnly(k, d) == k.did = d
InSingleDeck(k, d) == k.did = d \/ k.odid = d

\* The cards after return_all_cards_in_filtered_deck().
Returned(f) ==
  [c \in Cards |-> IF c \in Live /\ InSingleDeck(card[c], f)
                   THEN RemovedRestoringQueue(card[c]) ELSE card[c]]

\* "-is:suspended -is:buried -deck:filtered"
Searchable(cards) ==
  {c \in Live : cards[c].queue \notin BuriedOrSuspended /\ cards[c].did \notin Filtered}

\* rebuild_filtered_deck_inner(): any of the searchable cards match, in any order.
Rebuilt(f, resched, order) ==
  [c \in Cards |-> IF c \in DOMAIN order
                   THEN MovedInto(Returned(f)[c], f, resched, FilteredStart + order[c])
                   ELSE Returned(f)[c]]
Orders(S) == {o \in [S -> 0..(Cardinality(S) - 1)] : \A c, e \in S : o[c] = o[e] => c = e}

RebuildFilteredDeck(f) ==
  /\ exists[f]
  /\ Operation
  /\ \E matching \in SUBSET Searchable(Returned(f)) : \E order \in Orders(matching) :
       card' = Rebuilt(f, reschedule[f], order)
  /\ UNCHANGED <<exists, reschedule, next_position>>

\* A search without matches fails and nothing is added or updated.
AddOrUpdateFilteredDeck(f, resched) ==
  /\ Operation
  /\ \E matching \in (SUBSET Searchable(Returned(f))) \ {{}} : \E order \in Orders(matching) :
       card' = Rebuilt(f, resched, order)
  /\ exists' = [exists EXCEPT ![f] = TRUE]
  /\ reschedule' = [reschedule EXCEPT ![f] = resched]
  /\ UNCHANGED next_position

EmptyFilteredDeck(f) ==
  /\ exists[f]
  /\ Operation
  /\ card' = Returned(f)
  /\ UNCHANGED <<exists, reschedule, next_position>>

(***************************************************************************)
(* Answering                                                               *)
(***************************************************************************)
\* current_card_state(): the position a new card is studied at.
CurrentDue(k) == IF k.did \in Filtered /\ k.odue # 0 THEN k.odue ELSE k.due
NewPosition(k) == IF CurrentDue(k) > 0 THEN CurrentDue(k) ELSE 0
RememberPosition(k) == IF k.ctype = "New" THEN [k EXCEPT !.opos = NewPosition(k)] ELSE k

\* Delays that pass the end of the day become days.
LearningDue(secs) ==
  LET left == NextDayAt - now
  IN  IF secs >= left
      THEN [queue |-> "DayLearn", due |-> Today + (secs - left) \div DayLen + 1]
      ELSE [queue |-> "Learn", due |-> now + secs]

InQueueOf(k, ctype) ==
  {[RememberPosition(k) EXCEPT !.ctype = ctype, !.queue = LearningDue(s).queue,
                               !.due = LearningDue(s).due] : s \in Delays}
\* apply_learning_state() and apply_relearning_state()
IntoLearning(k) == InQueueOf(k, "Learn")
IntoRelearning(k) == InQueueOf(k, "Relearn")
\* apply_review_state()
IntoReview(k) ==
  {[RememberPosition(k) EXCEPT !.ctype = "Review", !.queue = "Review",
                               !.due = Today + i] : i \in Intervals}
\* Failing a review may make a leech of the card, and suspend it.
Leeches(k, next) ==
  IF k.ctype # "Review" THEN {next} ELSE {next, [next EXCEPT !.queue = "Suspended"]}

\* A card that stays in its filtered deck keeps its new due as the original one.
StayLent(next) == IF IsFiltered(next) THEN [next EXCEPT !.odue = next.due] ELSE next

Home(k) == [k EXCEPT !.did = IF IsFiltered(k) THEN k.odid ELSE k.did, !.odid = None, !.odue = 0]
\* The answer buttons: steps remain or are used up, as the preset has it.
NextLearning(k) == IF k.ctype \in {"New", "Learn"} THEN IntoLearning(k) ELSE IntoRelearning(k)
NormalAnswers(k) ==
  LET learning == {StayLent(next) : next \in NextLearning(k)}
      review == {Home(next) : next \in IntoReview(k)}
  IN  UNION {Leeches(k, next) : next \in learning \cup review}

\* apply_preview_state()
PreviewAnswers(k) ==
  {[k EXCEPT !.queue = "PreviewRepeat", !.due = now + s] : s \in Delays}
  \cup {RemovedRestoringQueue(k)}

\* bury_siblings()
GatherOrd(queue) ==
  CASE queue \in {"Learn", "PreviewRepeat"} -> 0 [] queue = "DayLearn" -> 1
    [] queue = "Review" -> 2 [] queue = "New" -> 3 [] queue \in BuriedOrSuspended -> 255
SiblingsToBury(c, mode) ==
  {s \in Live \ {c} :
     /\ Note[s] = Note[c]
     /\ \/ mode.new /\ card[s].queue = "New"
        \/ mode.review /\ card[s].queue = "Review" /\ GatherOrd(card[c].queue) <= 2
        \/ mode.daylearn /\ card[s].queue = "DayLearn" /\ GatherOrd(card[c].queue) <= 1}

\* answer_card_inner(), from the reviewer or from grade_now().
AnswerCard(c) ==
  /\ c \in Live
  /\ Operation
  /\ \E next \in IF InPreview(card[c]) THEN PreviewAnswers(card[c]) ELSE NormalAnswers(card[c]) :
     \E mode \in BuryModes :
       card' = [s \in Cards |-> IF s = c THEN next
                                ELSE IF s \in SiblingsToBury(c, mode)
                                     THEN [card[s] EXCEPT !.queue = "SchedBuried"]
                                     ELSE card[s]]
  /\ UNCHANGED <<exists, reschedule, next_position>>

(***************************************************************************)
(* Burying, suspending and the day rollover                                *)
(***************************************************************************)
BuryOrSuspend(c, queue) ==
  /\ c \in Live /\ card[c].queue \notin {queue, "Suspended"}
  /\ Operation
  /\ card' = [card EXCEPT ![c].queue = queue]
  /\ UNCHANGED <<exists, reschedule, next_position>>

UnburyOrUnsuspend(c) ==
  /\ c \in Live /\ card[c].queue \in BuriedOrSuspended
  /\ Operation
  /\ card' = [card EXCEPT ![c] = RestoreQueueFromType(@)]
  /\ UNCHANGED <<exists, reschedule, next_position>>

\* unbury_on_day_rollover()
UnburyAll ==
  /\ Operation
  /\ card' = [c \in Cards |-> IF c \in Live /\ card[c].queue \in {"SchedBuried", "UserBuried"}
                              THEN RestoreQueueFromType(card[c]) ELSE card[c]]
  /\ UNCHANGED <<exists, reschedule, next_position>>

(***************************************************************************)
(* Manual rescheduling                                                     *)
(***************************************************************************)
OriginalOrCurrentDue(k) == IF IsFiltered(k) THEN k.odue ELSE k.due
\* Seeded fault: a lent card's position is read from the filtered deck.
LastPositionCurrent(k) == IF k.ctype = "New" THEN k.due ELSE k.opos
LastPosition(k) == IF k.ctype = "New" THEN OriginalOrCurrentDue(k) ELSE k.opos

ScheduledAsReview(k, due) ==
  [RemovedBeforeReschedule(k) EXCEPT !.opos = LastPosition(k), !.due = due,
                                     !.ctype = "Review", !.queue = "Review"]
SetDueDate(c, days) ==
  /\ c \in Live
  /\ Operation
  /\ card' = [card EXCEPT ![c] = ScheduledAsReview(@, Today + days)]
  /\ UNCHANGED <<exists, reschedule, next_position>>

\* Seeded fault: a card may have no position to restore.
RestoresAnything(k, restore) == restore
RestoresPosition(k, restore) == restore /\ LastPosition(k) # None
ScheduledAsNew(k, restore) ==
  [RemovedBeforeReschedule(k) EXCEPT
     !.due = IF RestoresPosition(k, restore) THEN LastPosition(k) ELSE next_position,
     !.ctype = "New", !.queue = "New", !.opos = None]
RescheduleCardsAsNew(c, restore) ==
  /\ c \in Live
  /\ Operation
  /\ card' = [card EXCEPT ![c] = ScheduledAsNew(@, restore)]
  /\ next_position' = IF RestoresPosition(card[c], restore) THEN next_position ELSE next_position + 1
  /\ UNCHANGED <<exists, reschedule>>

\* set_new_position(); a card of another type is never in the new queue.
AtPosition(k, p) ==
  IF k.ctype = "New" /\ IsFiltered(k) THEN [k EXCEPT !.odue = p]
  ELSE IF k.ctype = "New" \/ k.queue = "New" THEN [k EXCEPT !.due = p]
  ELSE k

\* shift_existing_cards(), before the cards themselves are placed.
Shifted(k, start, by) == IF k.ctype = "New" /\ k.due >= start THEN AtPosition(k, k.due + by) ELSE k

\* Cards of a note share its position.
Sorted(chosen, start, shift, order) ==
  [c \in Cards |->
     IF c \in chosen THEN AtPosition(card[c], start + order[Note[c]])
     ELSE IF shift /\ c \in Live THEN Shifted(card[c], start, Cardinality(chosen))
     ELSE card[c]]
NoteOrders(chosen) == Orders({Note[c] : c \in chosen})
SortCards(chosen, start, shift) ==
  /\ chosen # {}
  /\ Operation
  /\ \E order \in NoteOrders(chosen) : card' = Sorted(chosen, start, shift, order)
  /\ UNCHANGED <<exists, reschedule, next_position>>

(***************************************************************************)
(* Decks                                                                   *)
(***************************************************************************)
\* set_deck()
SetDeck(c, d) ==
  /\ c \in Live /\ exists[d] /\ card[c].did # d
  /\ Operation
  /\ card' = [card EXCEPT ![c] = [RemovedRestoringQueue(@) EXCEPT !.did = d]]
  /\ UNCHANGED <<exists, reschedule, next_position>>

\* remove_decks_and_child_decks(): cards whose home is removed are deleted, the
\* others go home; the order in which the decks are removed makes no difference.
RemoveDecks(d) ==
  LET removed == {d} \cup (IF d \in Normal THEN Children[d] ELSE {})
      Deleted(k) == \E e \in removed \cap Normal : InSingleDeck(k, e)
      Lent(k) == \E e \in removed \cap Filtered : InSingleDeck(k, e)
  IN  /\ exists[d]
      /\ Operation
      /\ card' = [c \in Cards |->
           IF c \notin Live \/ Deleted(card[c]) THEN None
           ELSE IF Lent(card[c]) THEN RemovedRestoringQueue(card[c]) ELSE card[c]]
      /\ exists' = [e \in Decks |-> exists[e] /\ (e \in removed => e = DefaultDeck)]
      /\ UNCHANGED <<reschedule, next_position>>

Tick ==
  /\ now' \in {t \in Times : t > now}
  /\ UNCHANGED <<card, exists, reschedule, next_position, steps>>

\* Every card starts in the default deck, in the queue of its type.
InitialCard(start) ==
  RestoreQueueFromType([did |-> DefaultDeck, odid |-> None, ctype |-> start.ctype, queue |-> "New",
                        due |-> start.due, odue |-> 0, opos |-> start.opos])

Init ==
  /\ now = Epoch
  /\ \E start \in Starts : card = [c \in Cards |-> InitialCard(start[c])]
  /\ exists = [d \in Decks |-> d \in Normal]
  /\ reschedule \in [Filtered -> {TRUE}]
  /\ next_position = 1
  /\ steps = 0

Next ==
  \/ Tick \/ UnburyAll
  \/ \E f \in Filtered :
       \/ RebuildFilteredDeck(f) \/ EmptyFilteredDeck(f)
       \/ \E resched \in BOOLEAN : AddOrUpdateFilteredDeck(f, resched)
  \/ \E c \in Cards :
       \/ AnswerCard(c)
       \/ \E queue \in BuriedOrSuspended : BuryOrSuspend(c, queue)
       \/ UnburyOrUnsuspend(c)
       \/ \E days \in {0} \cup Intervals : SetDueDate(c, days)
       \/ \E restore \in BOOLEAN : RescheduleCardsAsNew(c, restore)
       \/ \E d \in Normal : SetDeck(c, d)
  \/ \E chosen \in SUBSET Live, start \in Positions, shift \in BOOLEAN : SortCards(chosen, start, shift)
  \/ \E d \in Decks : RemoveDecks(d)

Spec == Init /\ [][Next]_vars

(***************************************************************************)
(* Properties                                                              *)
(***************************************************************************)
TypeOK ==
  /\ now \in Times
  /\ card \in [Cards -> Card \cup {None}]
  /\ exists \in [Decks -> BOOLEAN] /\ exists[DefaultDeck]
  /\ reschedule \in [Filtered -> BOOLEAN]
  /\ next_position \in Nat

\* A card is in a filtered deck exactly while it is lent, from a normal deck that
\* exists, and no original due is left on it at home, where it would keep the card
\* out of the next filtered deck: no sequence of rebuilds, answers, moves and deck
\* removals loses the way home (filtered/card.rs, decks/remove.rs).
LentCardsHaveAHome ==
  \A c \in Live :
    LET k == card[c] IN
    /\ exists[k.did]
    /\ k.did \in Filtered <=> IsFiltered(k)
    /\ IsFiltered(k) => k.odid \in Normal /\ exists[k.odid]
    /\ ~IsFiltered(k) => k.odue = 0

\* Outside filtered decks the queue of a card that is not set aside is the one of
\* its type and of the unit of its due, whatever brought it there.
QueueMatchesDue ==
  \A c \in Live :
    ~IsFiltered(card[c]) =>
      card[c].queue \in BuriedOrSuspended \/ card[c].queue = RestoredQueue(card[c])

\* Studying in filtered decks, previews, burying, suspending and moving between
\* decks never change the schedule of a card, unless what the card is lent with is
\* a due of 0: see CardSchedule.
Schedule ==
  [c \in Cards |->
     IF c \notin Live THEN None
     ELSE [ctype |-> card[c].ctype, due |-> OriginalOrCurrentDue(card[c]), pos |-> card[c].opos]]
Abstract == INSTANCE CardSchedule WITH sched <- Schedule
ImplementsSchedule == Abstract!Spec

\* A new or review card outside filtered decks is due at a position or on a day:
\* "it should return to its old state" after a preview (answering/preview.rs).
DuesComeHome ==
  \A c \in Live :
    card[c].ctype \in {"New", "Review"} /\ ~IsFiltered(card[c]) => card[c].due < Epoch
================================================================================
