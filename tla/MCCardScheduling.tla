--------------------------- MODULE MCCardScheduling ---------------------------
(* Small instances of CardScheduling for TLC. *)
EXTENDS CardScheduling, TLC

\* All cards belong to one note.
OneNote == [c \in Cards |-> 0]
\* A filtered deck lies below the normal deck that can be removed.
MCChildren == [d \in Normal |-> IF d = DefaultDeck THEN {} ELSE {CHOOSE f \in Filtered : TRUE}]
MCBuryModes == {[new |-> b, review |-> b, daylearn |-> b] : b \in BOOLEAN}
MCFilteredStart == -100
\* A card of each kind, next to a new one, on the day the collection was created.
MCStarts ==
  {[c \in Cards |-> IF c = 1 THEN start ELSE [ctype |-> "New", due |-> 1, opos |-> None]] :
     start \in {[ctype |-> "New", due |-> 0, opos |-> None],
               [ctype |-> "Learn", due |-> Epoch + 1, opos |-> 1],
               [ctype |-> "Relearn", due |-> FirstDay, opos |-> 0],
               [ctype |-> "Review", due |-> FirstDay, opos |-> None],
               [ctype |-> "Review", due |-> FirstDay - 1, opos |-> 1]}}
\* Reviews that are due on the day the collection was created.
MCDayZero == {[c \in Cards |-> [ctype |-> "Review", due |-> FirstDay, opos |-> None]]}
================================================================================
