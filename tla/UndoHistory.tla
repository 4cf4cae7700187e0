----------------------------- MODULE UndoHistory -----------------------------
(***************************************************************************)
(* What undo promises to a user, without queues of change records: the     *)
(* collection has a present state, the states it can be taken back to and  *)
(* the states it can be taken forward to, each of them a whole database.   *)
(***************************************************************************)
EXTENDS Integers, Sequences

CONSTANTS States,   \* databases: records with at least .items and .graves
          Limit     \* number of states kept in past

VARIABLES present, past, future   \* past and future: nearest state first

vars == <<present, past, future>>

Remember(s, states) ==
  <<s>> \o SubSeq(states, 1, IF Len(states) < Limit THEN Len(states) ELSE Limit - 1)

Init == present \in States /\ past = <<>> /\ future = <<>>

\* An undoable operation; an empty custom step is one that changes nothing.
Do ==
  /\ present' \in States
  /\ past' = Remember(present, past) /\ future' = <<>>

\* A note update that is folded into the previous one: the step that results
\* still updates no more than one row.
Amend ==
  /\ past # <<>> /\ present' \in States
  /\ present'.graves = past[1].graves
  /\ \E i \in DOMAIN present'.items : \A j \in DOMAIN present'.items \ {i} :
       present'.items[j] = past[1].items[j]
  /\ past' = past
  /\ \/ future' = <<>>
     \/ future # <<>> /\ present' = Head(future) /\ future' = Tail(future)

Undo ==
  /\ past # <<>>
  /\ present' = Head(past) /\ past' = Tail(past) /\ future' = <<present>> \o future

Redo ==
  /\ future # <<>>
  /\ present' = Head(future) /\ past' = Remember(present, past) /\ future' = Tail(future)

\* Merging the n newest steps into one.
Squash ==
  \E n \in DOMAIN past :
    /\ past' = SubSeq(past, n, Len(past))
    /\ UNCHANGED <<present, future>>

DropFuture == future' = <<>> /\ UNCHANGED <<present, past>>

\* An operation that cannot be undone, a failed one, a sync, a restart.
Forget == present' \in States /\ past' = <<>> /\ future' = <<>>

Next == Do \/ Amend \/ Undo \/ Redo \/ Squash \/ DropFuture \/ Forget

Spec == Init /\ [][Next]_vars

=============================================================================
