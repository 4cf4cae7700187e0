----------------------------- MODULE UndoManager -----------------------------
(***************************************************************************)
(* The undo/redo queues of a collection (rslib/src/undo/mod.rs) together   *)
(* with the transactions that fill them (rslib/src/collection/transact.rs) *)
(* and the per-object change records (card/undo.rs, notes/undo.rs,         *)
(* collection/undo.rs).                                                    *)
(*                                                                         *)
(* The backend serialises all calls on a collection with a mutex, so one   *)
(* transaction runs at a time; within it, every primitive write, the       *)
(* commit and the roll back are separate steps, because the closure handed *)
(* to transact() may fail after any of them and the process may die.       *)
(*                                                                         *)
(* A database row is abstracted to a value and to whether its USN is -1    *)
(* (a change the server has not seen).  Wall-clock time is the counter     *)
(* clock: two calls of set_modified() get different stamps.                *)
(***************************************************************************)
EXTENDS Integers, Sequences, SequencesExt

CONSTANTS
  Items,          \* ids of cards, notes, decks, ...
  Packaged,       \* those that packages the user imports contain
  Values,         \* contents a row can have
  NoItem,         \* a row that does not exist
  NoStep,         \* Option<UndoableOp>::None
  UNDO_LIMIT,     \* steps kept in the undo queue
  OpKinds,        \* kinds of operation passed to transact()
  MaxWrites,      \* bound: writes per transaction
  MaxCounter,     \* bound: operations started
  MaxClock        \* bound: time stamps handed out

ASSUME PackagedAssumption == Packaged \subseteq Items
ASSUME UndoLimitAssumption == UNDO_LIMIT \in Nat \ {0}
ASSUME BoundsAssumption == MaxWrites \in Nat /\ MaxCounter \in Nat /\ MaxClock \in Nat
ASSUME OpKindsAssumption == OpKinds \subseteq {"UpdateNote", "Other", "SkipUndo", "NoUndo"}

VARIABLES
  db,            \* the collection database, as the open connection sees it
  undo_steps,    \* newest step first
  redo_steps,    \* next step to redo last
  mode,          \* UndoMode
  current_step,  \* step being recorded, or NoStep
  counter,       \* number of the last step begun
  trx,           \* the open transaction, or NoTrx
  clock          \* the last time stamp handed out

vars == <<db, undo_steps, redo_steps, mode, current_step, counter, trx, clock>>
queues == <<undo_steps, redo_steps>>

\* A transaction remembers the database it started from (what a roll back
\* restores), the operation it runs, the writes made so far and, when it undoes
\* or redoes a step, that step and the changes of it that are still to revert.
NoTrx == [open |-> FALSE]
NewTrx(op, step, todo) ==
  [open |-> TRUE, saved |-> db, op |-> op, writes |-> 0, step |-> step, todo |-> todo]

Entry == [val: Values, pending: BOOLEAN]
Db == [items: [Items -> Entry \cup {NoItem}],
       graves: SUBSET Items,    \* deletions the server has not seen
       mod: 0..MaxClock,        \* col.mod
       ls: 0..MaxClock]         \* col.ls, the time of the last sync

\* UndoableChange: how to put back what one write replaced.
RowChange == [kind: {"Added", "Updated", "Removed"}, item: Items, old: Entry]
GraveChange == [kind: {"GraveAdded", "GraveRemoved"}, item: Items]
ModifiedChange == [kind: {"Modified"}, old: 0..MaxClock]
Change == RowChange \cup GraveChange \cup ModifiedChange

Row(kind, i, e) == [kind |-> kind, item |-> i, old |-> e]
Grave(kind, i) == [kind |-> kind, item |-> i]
Modified(t) == [kind |-> "Modified", old |-> t]

Step == [kind: OpKinds \cup {"Custom"}, changes: Seq(Change), counter: 1..MaxCounter]

\* None is neither a row nor a step.
ASSUME NoItemAssumption == NoItem \notin Entry
ASSUME NoStepAssumption == NoStep \notin Step

InTrx == trx.open
Undoing == mode # "NormalOp"

-----------------------------------------------------------------------------
(* Writes to the database.  Each returns the new database; the matching     *)
(* change record is the one that save_undo() is given.                      *)

SetRow(d, i, e) == [d EXCEPT !.items[i] = e]
AddGrave(d, i) == [d EXCEPT !.graves = @ \cup {i}]
RemoveGrave(d, i) == [d EXCEPT !.graves = @ \ {i}]

\* The database after reverting change c, and the record that reverts that.
Revert(d, c) ==
  CASE c.kind = "Added"        -> SetRow(d, c.item, NoItem)
    [] c.kind = "Updated"      -> SetRow(d, c.item, c.old)
    [] c.kind = "Removed"      -> SetRow(d, c.item, c.old)
    [] c.kind = "GraveAdded"   -> RemoveGrave(d, c.item)
    [] c.kind = "GraveRemoved" -> AddGrave(d, c.item)
    [] c.kind = "Modified"     -> [d EXCEPT !.mod = c.old]

Inverted(d, c) ==
  CASE c.kind = "Added"        -> Row("Removed", c.item, c.old)
    [] c.kind = "Updated"      -> Row("Updated", c.item, d.items[c.item])
    [] c.kind = "Removed"      -> Row("Added", c.item, c.old)
    [] c.kind = "GraveAdded"   -> Grave("GraveRemoved", c.item)
    [] c.kind = "GraveRemoved" -> Grave("GraveAdded", c.item)
    [] c.kind = "Modified"     -> Modified(d.mod)

\* An update can only be reverted while its object exists ("card disappeared").
CanRevert(d, c) == c.kind = "Updated" => d.items[c.item] # NoItem

\* save_undo() for each of the changes; without a step they are forgotten.
Save(step, changes) ==
  IF step = NoStep THEN step ELSE [step EXCEPT !.changes = @ \o changes]

HasChanges(step) == step.changes # <<>> \/ step.kind = "Custom"

-----------------------------------------------------------------------------
(* begin_step() and end_step().                                             *)

\* Seeded fault: the counter is read before it is incremented.
NewStepStaleCounter(op) == [kind |-> op, changes |-> <<>>, counter |-> counter]

NewStep(op) == [kind |-> op, changes |-> <<>>, counter |-> counter + 1]

BeginStep(op, undo, redo, m) ==
  /\ undo_steps' = IF op = "NoUndo" THEN <<>> ELSE undo
  /\ redo_steps' = IF op = "NoUndo" \/ m = "NormalOp" THEN <<>> ELSE redo
  /\ current_step' = IF op = "NoUndo" THEN NoStep ELSE NewStep(op)
  /\ counter' = IF op = "NoUndo" THEN counter ELSE counter + 1

PushUndo(step, undo) ==
  <<step>> \o SubSeq(undo, 1, IF Len(undo) < UNDO_LIMIT THEN Len(undo) ELSE UNDO_LIMIT - 1)

EndStep(step) ==
  LET keep == step # NoStep /\ HasChanges(step) /\ step.kind # "SkipUndo"
  IN  /\ undo_steps' = IF keep /\ mode # "Undoing" THEN PushUndo(step, undo_steps) ELSE undo_steps
      /\ redo_steps' = IF keep /\ mode = "Undoing" THEN Append(redo_steps, step) ELSE redo_steps
      /\ current_step' = NoStep

-----------------------------------------------------------------------------
Init ==
  /\ db \in [items: [Items -> {[val |-> v, pending |-> FALSE] : v \in Values} \cup {NoItem}],
             graves: {{}}, mod: {0}, ls: {0}]
  /\ undo_steps = <<>> /\ redo_steps = <<>>
  /\ mode = "NormalOp" /\ current_step = NoStep
  /\ counter = 0 /\ trx = NoTrx /\ clock = 0

\* transact() and transact_no_undo(): savepoint, then begin_undoable_operation().
Begin(op) ==
  /\ ~InTrx /\ counter < MaxCounter
  /\ trx' = NewTrx(op, NoStep, <<>>)
  /\ BeginStep(op, undo_steps, redo_steps, "NormalOp")
  /\ UNCHANGED <<db, mode, clock>>

\* One write of the closure, saved in the current step if there is one.
Write(d, changes) ==
  /\ InTrx /\ ~Undoing /\ trx.writes < MaxWrites
  /\ db' = d
  /\ trx' = [trx EXCEPT !.writes = @ + 1]
  /\ current_step' = Save(current_step, changes)
  /\ UNCHANGED <<queues, mode, counter, clock>>

\* A new id is a time stamp no row had before; importing a package gives a deleted
\* row back its id, and leaves the grave of it.
AddItem(i, v) ==
  LET e == [val |-> v, pending |-> TRUE]
  IN  /\ db.items[i] = NoItem /\ (i \in db.graves => i \in Packaged)
      /\ Write(SetRow(db, i, e), <<Row("Added", i, e)>>)

UpdateItem(i, v) ==
  /\ db.items[i] # NoItem /\ db.items[i].val # v
  /\ Write(SetRow(db, i, [val |-> v, pending |-> TRUE]), <<Row("Updated", i, db.items[i])>>)

RemoveItem(i) ==
  /\ db.items[i] # NoItem
  /\ Write(SetRow(AddGrave(db, i), i, NoItem),
           <<Grave("GraveAdded", i), Row("Removed", i, db.items[i])>>)

-----------------------------------------------------------------------------
(* Ending a transaction.                                                    *)

\* Seeded fault: any step that starts with a note update is taken for one.
IsNoteUpdateLoose(step) ==
  step.kind = "UpdateNote" /\ step.changes # <<>> /\ step.changes[1].kind = "Updated"

\* Two updates of one note, within 60 seconds, are kept as a single undo step.
IsNoteUpdate(step) ==
  /\ step.kind = "UpdateNote" /\ Len(step.changes) = 2
  /\ step.changes[1].kind = "Updated" /\ step.changes[2].kind = "Modified"

Coalesces(step) ==
  /\ step # NoStep /\ undo_steps # <<>>
  /\ IsNoteUpdate(step) /\ IsNoteUpdate(Head(undo_steps))
  /\ step.changes[1].item = Head(undo_steps).changes[1].item

\* The Ok branch of transact_inner(): bump mtime, commit, coalesce, end_step().
\* recent stands for the previous step being less than 60 seconds old.
Commit(recent) ==
  LET bump == trx.op = "NoUndo" \/ (~Undoing /\ HasChanges(current_step))
      stamped == IF bump THEN Save(current_step, <<Modified(db.mod)>>) ELSE current_step
  IN  /\ InTrx /\ trx.todo = <<>>
      /\ clock < MaxClock \/ ~bump
      /\ clock' = IF bump THEN clock + 1 ELSE clock
      /\ db' = IF bump THEN [db EXCEPT !.mod = clock + 1] ELSE db
      /\ recent => Coalesces(stamped)
      /\ EndStep(IF recent THEN [stamped EXCEPT !.changes = <<>>] ELSE stamped)
      /\ trx' = NoTrx /\ mode' = "NormalOp"
      /\ UNCHANGED counter

\* Seeded fault: the queues survive a failed operation.
RollBackKeepsQueues ==
  /\ InTrx
  /\ db' = trx.saved /\ current_step' = NoStep
  /\ trx' = NoTrx /\ mode' = "NormalOp"
  /\ UNCHANGED <<queues, counter, clock>>

\* The Err branch: discard the undo queues and roll the database back.
RollBack ==
  /\ InTrx
  /\ BeginStep("NoUndo", undo_steps, redo_steps, mode)
  /\ db' = trx.saved
  /\ trx' = NoTrx /\ mode' = "NormalOp"
  /\ UNCHANGED clock

-----------------------------------------------------------------------------
(* Undo and redo: the popped step is reverted, last change first, inside a  *)
(* transaction of the same kind.                                            *)

Undo ==
  /\ ~InTrx /\ undo_steps # <<>> /\ counter < MaxCounter
  /\ LET step == Head(undo_steps)
     IN  /\ trx' = NewTrx(step.kind, step, Reverse(step.changes))
         /\ BeginStep(step.kind, Tail(undo_steps), redo_steps, "Undoing")
  /\ mode' = "Undoing"
  /\ UNCHANGED <<db, clock>>

Redo ==
  /\ ~InTrx /\ redo_steps # <<>> /\ counter < MaxCounter
  /\ LET step == Last(redo_steps)
     IN  /\ trx' = NewTrx(step.kind, step, Reverse(step.changes))
         /\ BeginStep(step.kind, undo_steps, Front(redo_steps), "Redoing")
  /\ mode' = "Redoing"
  /\ UNCHANGED <<db, clock>>

\* change.undo(col) of the next change; if it fails, only RollBack is left.
RevertNext ==
  /\ InTrx /\ trx.todo # <<>>
  /\ LET c == Head(trx.todo)
     IN  /\ CanRevert(db, c)
         /\ db' = Revert(db, c)
         /\ current_step' = Save(current_step, <<Inverted(db, c)>>)
  /\ trx' = [trx EXCEPT !.todo = Tail(@)]
  /\ UNCHANGED <<queues, mode, counter, clock>>

-----------------------------------------------------------------------------
(* Custom steps and merging (for add-ons and the GUI).                      *)

AddCustomStep ==
  /\ ~InTrx /\ counter < MaxCounter
  /\ undo_steps' = PushUndo(NewStep("Custom"), undo_steps)
  /\ redo_steps' = <<>>
  /\ counter' = counter + 1
  /\ UNCHANGED <<db, mode, current_step, trx, clock>>

\* The changes of steps[idx] followed by those of the newer steps, oldest first:
\* element n is what the n newer steps next to it have been appended to.
Joined(steps, idx) ==
  LET joined[n \in 0..(idx - 1)] ==
        IF n = 0 THEN steps[idx].changes ELSE joined[n - 1] \o steps[idx - n].changes
  IN  joined

\* The target is the first step whose counter is starting_from; without one
\* the call is refused and nothing changes.
MergeUndoableOps(starting_from) ==
  /\ ~InTrx
  /\ \E idx \in DOMAIN undo_steps :
       /\ undo_steps[idx].counter = starting_from
       /\ \A j \in 1..(idx - 1) : undo_steps[j].counter # starting_from
       /\ LET merged == [undo_steps[idx] EXCEPT !.changes = Joined(undo_steps, idx)[idx - 1]]
          IN  undo_steps' = <<merged>> \o SubSeq(undo_steps, idx + 1, Len(undo_steps))
  /\ counter' = starting_from
  /\ UNCHANGED <<db, redo_steps, mode, current_step, trx, clock>>

-----------------------------------------------------------------------------
(* What surrounds the queues.                                               *)

\* What finishing a sync leaves behind: no row or grave is pending.
Synced(d, t) ==
  [items |-> [i \in Items |-> IF d.items[i] = NoItem THEN NoItem
                              ELSE [d.items[i] EXCEPT !.pending = FALSE]],
   graves |-> {}, mod |-> t, ls |-> t]

\* Seeded fault: a sync leaves the undo queue alone.
SyncKeepsQueues ==
  /\ ~InTrx /\ clock < MaxClock
  /\ clock' = clock + 1 /\ db' = Synced(db, clock + 1)
  /\ UNCHANGED <<queues, mode, current_step, counter, trx>>

\* A successful sync first discards the undo queue, then gives every pending row
\* the server's USN and both time stamps the server's time.
Sync ==
  /\ ~InTrx /\ clock < MaxClock
  /\ clock' = clock + 1 /\ db' = Synced(db, clock + 1)
  /\ undo_steps' = <<>> /\ redo_steps' = <<>>
  /\ UNCHANGED <<mode, current_step, counter, trx>>

\* The process dies, or the collection is closed and opened again: SQLite rolls
\* an open transaction back, and the queues were only in memory.
Reopen ==
  /\ db' = IF InTrx THEN trx.saved ELSE db
  /\ undo_steps' = <<>> /\ redo_steps' = <<>>
  /\ mode' = "NormalOp" /\ current_step' = NoStep
  /\ counter' = 0 /\ trx' = NoTrx
  /\ UNCHANGED clock

Next ==
  \/ \E op \in OpKinds : Begin(op)
  \/ \E i \in Items, v \in Values : AddItem(i, v)
  \/ \E i \in Items, v \in Values : UpdateItem(i, v)
  \/ \E i \in Items : RemoveItem(i)
  \/ \E recent \in BOOLEAN : Commit(recent)
  \/ RollBack
  \/ Undo
  \/ Redo
  \/ RevertNext
  \/ AddCustomStep
  \/ \E c \in 1..MaxCounter : MergeUndoableOps(c)
  \/ Sync
  \/ Reopen

Spec == Init /\ [][Next]_vars

-----------------------------------------------------------------------------
(* Properties.                                                              *)

\* Every variable has its type (the fields of UndoManager and UndoableOp).
TypeOK ==
  /\ db \in Db
  /\ undo_steps \in Seq(Step) /\ redo_steps \in Seq(Step)
  /\ mode \in {"NormalOp", "Undoing", "Redoing"}
  /\ current_step \in Step \cup {NoStep}
  /\ counter \in 0..MaxCounter /\ clock \in 0..MaxClock
  /\ InTrx => /\ trx.saved \in Db /\ trx.op \in OpKinds \cup {"Custom"}
              /\ trx.writes \in 0..MaxWrites
              /\ trx.step \in Step \cup {NoStep} /\ trx.todo \in Seq(Change)

\* The undo queue never outgrows UNDO_LIMIT, whatever mix of operations, redos,
\* merges and custom steps filled it (end_step truncates before it pushes).
UndoLimitKept == Len(undo_steps) <= UNDO_LIMIT

\* Counters strictly decrease from the newest undo step to the oldest and none is
\* ahead of the manager's, although merge_undoable_ops() sets the manager's
\* counter back: the target of a merge is therefore unique.
CountersDescend ==
  /\ \A j \in DOMAIN undo_steps : undo_steps[j].counter <= counter
  /\ \A j, k \in DOMAIN undo_steps : j < k => undo_steps[k].counter < undo_steps[j].counter
  /\ current_step # NoStep => \A j \in DOMAIN undo_steps :
                                undo_steps[j].counter < current_step.counter

\* The inductive strengthening of the two: while a step is being recorded, it
\* holds the newest counter and every queued step an older one.
IsSteps(q) == q \in Seq({q[j] : j \in DOMAIN q})
Queue(q, c) ==
  /\ IsSteps(q) /\ Len(q) <= UNDO_LIMIT
  /\ \A j \in DOMAIN q : q[j].counter \in Nat /\ q[j].counter <= c
  /\ \A j, k \in DOMAIN q : j < k => q[k].counter < q[j].counter

IsStep(step) ==
  step = [kind |-> step.kind, changes |-> step.changes, counter |-> step.counter]

CounterInv ==
  /\ counter \in Nat /\ "open" \in DOMAIN trx
  /\ ~InTrx => current_step = NoStep
  /\ current_step = NoStep => Queue(undo_steps, counter)
  /\ current_step # NoStep => /\ IsStep(current_step) /\ current_step.counter = counter
                              /\ counter >= 1 /\ Queue(undo_steps, counter - 1)

\* Reverting a step never meets a missing object, in any order of operations,
\* undos, redos and merges: "card disappeared" is not reachable.
RevertNeverFails == InTrx /\ trx.todo # <<>> => CanRevert(db, Head(trx.todo))

\* collection_changed_since_sync(), as sync_status_offline() reads it.
ChangedSinceSync == db.mod > db.ls
HasPending == db.graves # {} \/ \E i \in Items : db.items[i] # NoItem /\ db.items[i].pending

\* Between transactions, a row or grave the server has not seen makes the offline
\* sync check report a change: undo moves col.mod back only together with every
\* change that was made under the later stamp.
PendingImpliesChanged == ~InTrx /\ HasPending => ChangedSinceSync

\* A committed operation that could be undone leaves last_step (the counter)
\* naming a step of the queue, so that more changes can be merged into it.
LastStepIsTarget ==
  [][ (InTrx /\ ~InTrx' /\ trx.op \in {"UpdateNote", "Other"} /\ mode = "NormalOp"
       /\ undo_steps' # <<>> /\ db'.mod # trx.saved.mod)
      => \E j \in DOMAIN undo_steps' : undo_steps'[j].counter = counter' ]_vars

-----------------------------------------------------------------------------
(* The queues implement UndoHistory: the states that can be returned to are *)
(* those the recorded changes rebuild.                                      *)

\* The databases d goes through while the changes todo are reverted in order.
Reverting(d, todo) ==
  LET state[n \in 0..Len(todo)] == IF n = 0 THEN d ELSE Revert(state[n - 1], todo[n])
  IN  state

Rewind(d, step) == Reverting(d, Reverse(step.changes))[Len(step.changes)]

\* The states reached from d by reverting the steps one after the other.
Rewinding(d, steps) ==
  LET rewound[n \in 0..Len(steps)] == IF n = 0 THEN d ELSE Rewind(rewound[n - 1], steps[n])
  IN  rewound

RewindAll(d, steps) == [n \in 1..Len(steps) |-> Rewinding(d, steps)[n]]

\* A step that is being undone or redone still counts until the commit.
ActiveStep(m) == IF mode = m THEN <<trx.step>> ELSE <<>>

Present == IF InTrx THEN trx.saved ELSE db
Past == RewindAll(Present, ActiveStep("Undoing") \o undo_steps)
Future == RewindAll(Present, ActiveStep("Redoing") \o Reverse(redo_steps))

\* Undo takes the grave of a deleted row back, even if there was one before: a row
\* that was imported under a deleted id.  Those graves are not part of the promise.
Returnable(d) == [d EXCEPT !.graves = @ \ Packaged]
AllReturnable(states) == [n \in DOMAIN states |-> Returnable(states[n])]

History == INSTANCE UndoHistory WITH
  States <- Db, Limit <- UNDO_LIMIT, present <- Returnable(Present),
  past <- AllReturnable(Past), future <- AllReturnable(Future)

\* Undo and redo move the database (rows, col.mod, and the graves of all ids no
\* package contains) between the states the user went through, at any mix of
\* operations, failures, merges, coalesced note updates and a full queue.
ImplementsHistory == History!Spec

\* The same of the whole database, with the graves of ids that packages contain.
WholeHistory == INSTANCE UndoHistory WITH
  States <- Db, Limit <- UNDO_LIMIT, present <- Present, past <- Past, future <- Future
ImplementsWholeHistory == WholeHistory!Spec

=============================================================================
