----------------------------- MODULE CardSchedule -----------------------------
(***************************************************************************)
(* What scheduling promises about a card, whatever deck it is studied in:  *)
(* its type, when it is next due, and the position it had as a new card    *)
(* change when the user answers it, sets its due date, forgets or          *)
(* repositions it, and by nothing else.  Burying, suspending and moving    *)
(* between decks are no steps here; nor are filtered decks and previews,   *)
(* except that a due of 0 may be lost in them.                             *)
(***************************************************************************)
EXTENDS Integers

CONSTANTS
  Cards,
  Epoch, DayLen, FirstDay,  \* first time stamp, length of a day, number of the first day
  None                      \* no card, no position

VARIABLES now, sched

Type == {"New", "Learn", "Review", "Relearn"}
Today == FirstDay + (now - Epoch) \div DayLen
Live == {c \in Cards : sched[c] # None}
Position(s) == IF s.ctype = "New" THEN s.due ELSE s.pos

Init ==
  /\ now = Epoch
  /\ sched \in [Cards -> [ctype : Type, due : Int, pos : Int \cup {None}]]
  /\ \A c \in Cards : sched[c].ctype = "Review" => sched[c].due < Epoch

\* A learning card is due at a time stamp or, once its delay passes the end of
\* the day, on a later day; a review card is due on a later day.
NextTypes(t) ==
  CASE t \in {"New", "Learn"} -> {"Learn", "Review"}
    [] t \in {"Review", "Relearn"} -> {"Relearn", "Review"}

\* A new card is studied at its position, but at none below 0.
StudiedAt(s) == IF s.ctype = "New" /\ s.due < 0 THEN 0 ELSE Position(s)

Answer(c) ==
  LET next == sched'[c] IN
  /\ c \in Live
  /\ next # None
  /\ next.ctype \in NextTypes(sched[c].ctype)
  /\ next.due >= now \/ (next.due < Epoch /\ next.due > Today)
  /\ next.ctype = "Review" => next.due < Epoch
  /\ next.pos = StudiedAt(sched[c])
  /\ sched' = [sched EXCEPT ![c] = next]
  /\ UNCHANGED now

SetDueDate(c) ==
  LET next == sched'[c] IN
  /\ c \in Live
  /\ next # None
  /\ next.due >= Today /\ next.due < Epoch
  /\ sched' = [sched EXCEPT ![c] = [ctype |-> "Review", due |-> next.due,
                                    pos |-> Position(sched[c])]]
  /\ UNCHANGED now

\* Restoring the position gives back the one the card had as a new card.
Forget(c, restore) ==
  LET next == sched'[c] IN
  /\ c \in Live
  /\ next # None
  /\ restore /\ Position(sched[c]) # None => next.due = Position(sched[c])
  /\ sched' = [sched EXCEPT ![c] = [ctype |-> "New", due |-> next.due, pos |-> None]]
  /\ UNCHANGED now

Reposition ==
  /\ \A c \in Cards :
       sched'[c] # sched[c] =>
         /\ sched[c] # None /\ sched[c].ctype = "New"
         /\ sched'[c] # None
         /\ sched'[c] = [sched[c] EXCEPT !.due = sched'[c].due]
  /\ UNCHANGED now

\* Lent with a due of 0, a card comes home with the position it had in the filtered
\* deck or the time stamp of a preview, and with nothing else.
LosesZeroDue(c) ==
  /\ sched[c] # None /\ sched'[c] # None
  /\ sched[c].due = 0
  /\ sched'[c].due < 0 \/ sched'[c].due >= Epoch
  /\ sched'[c] = [sched[c] EXCEPT !.due = sched'[c].due]

ComeHome ==
  /\ \A c \in Cards : sched'[c] # sched[c] => LosesZeroDue(c)
  /\ UNCHANGED now

\* Removing decks removes cards, and sends others home.
Remove ==
  /\ \A c \in Cards : sched'[c] \in {sched[c], None} \/ LosesZeroDue(c)
  /\ UNCHANGED now

Tick == now' > now /\ UNCHANGED sched

Next ==
  \/ Tick \/ Reposition \/ ComeHome \/ Remove
  \/ \E c \in Cards :
       Answer(c) \/ SetDueDate(c) \/ \E restore \in BOOLEAN : Forget(c, restore)

Spec == Init /\ [][Next]_<<now, sched>>
=============================================================================
