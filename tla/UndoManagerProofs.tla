-------------------------- MODULE UndoManagerProofs --------------------------
(***************************************************************************)
(* The undo queues keep their bound and their order, and implement the     *)
(* history of databases, for every UNDO_LIMIT, any set of objects and any  *)
(* number of operations.                                                   *)
(*                                                                         *)
(* The first part: CounterInv is inductive and implies UndoLimitKept and   *)
(* CountersDescend.                                                        *)
(*                                                                         *)
(* The second part: a change record fits the database it was made in, and  *)
(* reverting it restores the database before (RevertFits); so does a       *)
(* sequence of records, last one first (Reverts), and a queue of such      *)
(* steps leads from the present through all remembered databases (Leads).  *)
(* HistoryInv says that both queues lead from the present, up to the       *)
(* graves of ids that packages contain (Returnable), that an open          *)
(* transaction has recorded all it did (Recording) or has so far reverted  *)
(* a part of its step (Replaying), and that every database on the way is   *)
(* sound. Each action keeps it and is a step of UndoHistory, or none.      *)
(***************************************************************************)
EXTENDS UndoManager, SequenceTheorems, WellFoundedInduction, TLAPS

\* What Queue(q, c) says of q, with the set its elements are taken from.
LEMMA QueueFacts ==
  ASSUME NEW q, NEW c, Queue(q, c)
  PROVE  /\ q \in Seq({q[j] : j \in DOMAIN q})
         /\ Len(q) \in Nat /\ DOMAIN q = 1..Len(q)
  BY LenProperties DEF Queue, IsSteps

\* A sequence over any set is a sequence over its own elements.
LEMMA SeqIsSteps ==
  ASSUME NEW S, NEW q \in Seq(S)
  PROVE  IsSteps(q)
<1>1. q \in [1..Len(q) -> S] /\ Len(q) \in Nat /\ DOMAIN q = 1..Len(q)
  BY LenProperties
<1>2. q \in [1..Len(q) -> {q[j] : j \in DOMAIN q}]
  BY <1>1
<1>3. QED
  BY <1>1, <1>2, SeqDef DEF IsSteps

\* end_step() and add_custom_step() push a step: it comes first, the newest
\* UNDO_LIMIT - 1 of the others follow in their order.
LEMMA PushUndoFacts ==
  ASSUME NEW q, IsSteps(q), NEW step
  PROVE  /\ IsSteps(PushUndo(step, q))
         /\ Len(PushUndo(step, q)) \in 1..UNDO_LIMIT
         /\ PushUndo(step, q)[1] = step
         /\ \A j \in 2..Len(PushUndo(step, q)) :
              j - 1 \in DOMAIN q /\ PushUndo(step, q)[j] = q[j - 1]
<1> DEFINE S == {q[j] : j \in DOMAIN q}
           n == IF Len(q) < UNDO_LIMIT THEN Len(q) ELSE UNDO_LIMIT - 1
           rest == SubSeq(q, 1, n)
           T == S \cup {step}
<1>0. q \in Seq(S)
  BY DEF IsSteps
<1> HIDE DEF S
<1>1. Len(q) \in Nat /\ DOMAIN q = 1..Len(q) /\ q \in [1..Len(q) -> S]
  BY <1>0, LenProperties
<1>2. n \in Nat /\ n <= Len(q) /\ n <= UNDO_LIMIT - 1
  BY <1>1, UndoLimitAssumption
<1>3. /\ rest \in Seq(S) /\ Len(rest) = n
      /\ \A j \in 1..n : rest[j] = q[j]
  <2>1. \A j \in 1..n : q[j] \in S
    BY <1>1, <1>2
  <2> HIDE DEF n
  <2>2. QED
    BY <1>0, <1>2, <2>1, SubSeqProperties
<1>4. <<step>> \in Seq(T) /\ Len(<<step>>) = 1 /\ <<step>>[1] = step
  OBVIOUS
<1>5. rest \in Seq(T)
  BY <1>3, SeqMonotonic
<1> HIDE DEF n, rest, T
<1>6. /\ <<step>> \o rest \in Seq(T)
      /\ Len(<<step>> \o rest) = 1 + n
      /\ \A j \in 1..(1 + n) :
           (<<step>> \o rest)[j] = IF j <= 1 THEN <<step>>[j] ELSE rest[j - 1]
  BY <1>3, <1>4, <1>5, ConcatProperties
<1>7. PushUndo(step, q) = <<step>> \o rest
  BY DEF PushUndo, rest, n
<1>8. \A j \in 2..(1 + n) : j - 1 \in 1..n /\ j - 1 \in DOMAIN q
  BY <1>1, <1>2
<1>9. IsSteps(PushUndo(step, q))
  BY <1>6, <1>7, SeqIsSteps
<1>10. QED
  BY <1>2, <1>3, <1>4, <1>6, <1>7, <1>8, <1>9, UndoLimitAssumption

\* Pushing a step with a newer counter keeps the queue bounded and ordered.
LEMMA PushKeepsQueue ==
  ASSUME NEW q, NEW c \in Nat, Queue(q, c),
         NEW step, step.counter \in Nat, step.counter > c
  PROVE  Queue(PushUndo(step, q), step.counter)
<1> DEFINE p == PushUndo(step, q)
<1>1. IsSteps(q) /\ DOMAIN q = 1..Len(q)
  BY QueueFacts DEF Queue
<1>2. /\ IsSteps(p) /\ Len(p) \in 1..UNDO_LIMIT /\ p[1] = step
      /\ \A j \in 2..Len(p) : j - 1 \in DOMAIN q /\ p[j] = q[j - 1]
  BY <1>1, PushUndoFacts
<1> HIDE DEF p
<1>3. DOMAIN p = 1..Len(p) /\ Len(p) \in Nat
  BY <1>2, LenProperties DEF IsSteps
<1>4. Len(p) <= UNDO_LIMIT
  BY <1>2, UndoLimitAssumption
<1>5. \A j \in DOMAIN q : q[j].counter \in Nat /\ q[j].counter <= c
  BY DEF Queue
<1>6. \A j \in DOMAIN p : p[j].counter \in Nat /\ p[j].counter <= step.counter
  <2> SUFFICES ASSUME NEW j \in 1..Len(p)
               PROVE  p[j].counter \in Nat /\ p[j].counter <= step.counter
    BY <1>3
  <2>1. CASE j = 1
    BY <2>1, <1>2
  <2>2. CASE j \in 2..Len(p)
    BY <2>2, <1>2, <1>5
  <2>3. QED
    BY <2>1, <2>2, <1>3
<1>7. \A j, k \in DOMAIN p : j < k => p[k].counter < p[j].counter
  <2> SUFFICES ASSUME NEW j \in 1..Len(p), NEW k \in 1..Len(p), j < k
               PROVE  p[k].counter < p[j].counter
    BY <1>3
  <2>1. k \in 2..Len(p) /\ k - 1 \in DOMAIN q /\ p[k] = q[k - 1]
    BY <1>2, <1>3
  <2>2. CASE j = 1
    BY <2>1, <2>2, <1>2, <1>5
  <2>3. CASE j \in 2..Len(p)
    <3>1. j - 1 \in DOMAIN q /\ p[j] = q[j - 1] /\ j - 1 < k - 1
      BY <2>3, <1>2, <1>3
    <3>2. q[k - 1].counter < q[j - 1].counter
      BY <2>1, <3>1 DEF Queue
    <3>3. QED
      BY <2>1, <3>1, <3>2
  <2>4. QED
    BY <2>2, <2>3, <1>3
<1>8. QED
  BY <1>2, <1>4, <1>6, <1>7 DEF Queue, p

\* Popping the newest step keeps the rest of the queue.
LEMMA TailKeepsQueue ==
  ASSUME NEW q, NEW c \in Nat, Queue(q, c), q # <<>>
  PROVE  Queue(Tail(q), c)
<1> DEFINE S == {q[j] : j \in DOMAIN q}
           t == Tail(q)
<1>1. q \in Seq(S) /\ Len(q) \in Nat /\ DOMAIN q = 1..Len(q)
  BY QueueFacts
<1>2. t \in Seq(S) /\ Len(t) = Len(q) - 1 /\ \A j \in 1..Len(t) : t[j] = q[j + 1]
  BY <1>1, HeadTailProperties
<1>3. DOMAIN t = 1..Len(t) /\ Len(t) \in Nat
  BY <1>2, LenProperties
<1>4. IsSteps(t)
  BY <1>2, SeqIsSteps
<1> HIDE DEF t
<1>5. \A j \in DOMAIN t : j + 1 \in DOMAIN q /\ t[j] = q[j + 1]
  BY SMTT(30), <1>1, <1>2, <1>3
<1>6. \A j \in DOMAIN t : t[j].counter \in Nat /\ t[j].counter <= c
  BY <1>5 DEF Queue
<1>7. \A j, k \in DOMAIN t : j < k => t[k].counter < t[j].counter
  <2> SUFFICES ASSUME NEW j \in DOMAIN t, NEW k \in DOMAIN t, j < k
               PROVE  t[k].counter < t[j].counter
    OBVIOUS
  <2>1. j + 1 < k + 1
    BY <1>3
  <2>2. QED
    BY <2>1, <1>5 DEF Queue
<1>8. Len(t) <= UNDO_LIMIT
  BY <1>1, <1>2, UndoLimitAssumption DEF Queue
<1>9. QED
  BY <1>4, <1>6, <1>7, <1>8 DEF Queue, t

\* merge_undoable_ops() keeps the target's counter and drops the newer steps.
LEMMA MergeKeepsQueue ==
  ASSUME NEW q, NEW c \in Nat, Queue(q, c), NEW idx \in DOMAIN q,
         NEW merged, merged.counter = q[idx].counter
  PROVE  Queue(<<merged>> \o SubSeq(q, idx + 1, Len(q)), q[idx].counter)
<1> DEFINE S == {q[j] : j \in DOMAIN q}
           older == SubSeq(q, idx + 1, Len(q))
           p == <<merged>> \o older
           T == S \cup {merged}
           n == Len(q) - idx
<1>1. q \in Seq(S) /\ Len(q) \in Nat /\ DOMAIN q = 1..Len(q) /\ idx \in 1..Len(q)
  BY QueueFacts
<1>2. n \in Nat /\ n <= Len(q) - 1
  BY <1>1
<1>3. /\ older \in Seq(S) /\ Len(older) = n
      /\ \A j \in 1..n : older[j] = q[idx + j]
  <2>1. \A j \in (idx + 1)..Len(q) : q[j] \in S
    BY <1>1
  <2>2. /\ older \in Seq(S)
        /\ Len(older) = IF idx + 1 <= Len(q) THEN Len(q) - (idx + 1) + 1 ELSE 0
        /\ \A j \in 1..(Len(q) - (idx + 1) + 1) : older[j] = q[idx + 1 + j - 1]
    <3> HIDE DEF S
    <3>1. idx + 1 \in Int /\ Len(q) \in Int
      BY <1>1
    <3>2. QED
      BY SMTT(30), <3>1, <2>1, SubSeqProperties
  <2> HIDE DEF S, older
  <2>3. Len(older) = n
    BY <1>1, <2>2
  <2>4. \A j \in 1..n : older[j] = q[idx + j]
    <3> SUFFICES ASSUME NEW j \in 1..n PROVE older[j] = q[idx + j]
      OBVIOUS
    <3>1. j \in 1..(Len(q) - (idx + 1) + 1) /\ idx + 1 + j - 1 = idx + j
      BY <1>1
    <3>2. QED
      BY <2>2, <3>1
  <2>5. QED
    BY <2>2, <2>3, <2>4
<1> HIDE DEF S, older
<1>4. <<merged>> \in Seq(T) /\ Len(<<merged>>) = 1 /\ <<merged>>[1] = merged
  OBVIOUS
<1>5. older \in Seq(T)
  BY <1>3, SeqMonotonic
<1> HIDE DEF T, n
<1>6. /\ p \in Seq(T) /\ Len(p) = 1 + n
      /\ \A j \in 1..(1 + n) : p[j] = IF j <= 1 THEN <<merged>>[j] ELSE older[j - 1]
  BY <1>3, <1>4, <1>5, ConcatProperties
<1>7. DOMAIN p = 1..Len(p)
  BY <1>6, LenProperties
<1>8. IsSteps(p)
  BY <1>6, SeqIsSteps
<1> HIDE DEF p
<1>9. \A j \in DOMAIN p : idx + j - 1 \in DOMAIN q /\ p[j].counter = q[idx + j - 1].counter
  <2> SUFFICES ASSUME NEW j \in 1..(1 + n)
               PROVE  idx + j - 1 \in DOMAIN q /\ p[j].counter = q[idx + j - 1].counter
    BY <1>6, <1>7
  <2>1. idx + j - 1 \in DOMAIN q
    BY <1>1, <1>2 DEF n
  <2>2. CASE j = 1
    BY <2>1, <2>2, <1>1, <1>4, <1>6, <1>2
  <2>3. CASE j \in 2..(1 + n)
    <3>1. j - 1 \in 1..n /\ p[j] = older[j - 1] /\ idx + (j - 1) = idx + j - 1
      BY <2>3, <1>1, <1>2, <1>6
    <3>2. QED
      BY <2>1, <3>1, <1>3
  <2>4. QED
    BY <2>2, <2>3, <1>2
<1>10. \A j \in DOMAIN p : p[j].counter \in Nat /\ p[j].counter <= q[idx].counter
  <2> SUFFICES ASSUME NEW j \in 1..(1 + n)
               PROVE  p[j].counter \in Nat /\ p[j].counter <= q[idx].counter
    BY <1>6, <1>7
  <2>1. idx + j - 1 \in DOMAIN q /\ p[j].counter = q[idx + j - 1].counter
    BY <1>6, <1>7, <1>9
  <2>2. idx \in DOMAIN q /\ q[idx].counter \in Nat /\ q[idx + j - 1].counter \in Nat
    BY <2>1 DEF Queue
  <2>3. idx < idx + j - 1 \/ idx = idx + j - 1
    BY <1>1, <1>2
  <2>4. QED
    BY <2>1, <2>2, <2>3 DEF Queue
<1>11. \A j, k \in DOMAIN p : j < k => p[k].counter < p[j].counter
  <2> SUFFICES ASSUME NEW j \in 1..(1 + n), NEW k \in 1..(1 + n), j < k
               PROVE  p[k].counter < p[j].counter
    BY <1>6, <1>7
  <2>1. /\ idx + j - 1 \in DOMAIN q /\ p[j].counter = q[idx + j - 1].counter
        /\ idx + k - 1 \in DOMAIN q /\ p[k].counter = q[idx + k - 1].counter
    BY <1>6, <1>7, <1>9
  <2>2. idx + j - 1 < idx + k - 1
    BY <1>1, <1>2
  <2>3. QED
    BY <2>1, <2>2 DEF Queue
<1>12. Len(p) <= UNDO_LIMIT
  BY <1>1, <1>2, <1>6, UndoLimitAssumption DEF Queue
<1>13. QED
  BY <1>8, <1>10, <1>11, <1>12 DEF Queue, p, older

\* A later counter is as good an upper bound; the empty queue satisfies any.
LEMMA QueueMonotonic ==
  ASSUME NEW q, NEW c \in Nat, NEW d \in Nat, Queue(q, c), c <= d
  PROVE  Queue(q, d)
  BY DEF Queue

LEMMA EmptyQueue ==
  ASSUME NEW c \in Nat
  PROVE  Queue(<<>>, c)
  BY UndoLimitAssumption DEF Queue, IsSteps

-----------------------------------------------------------------------------
(* CounterInv holds initially and is kept by every action.                  *)

LEMMA InitCounterInv == Init => CounterInv
  BY EmptyQueue DEF Init, CounterInv, InTrx, NoTrx

\* begin_step() with an undo queue that is not newer than the counter.
LEMMA BeginStepFacts ==
  ASSUME counter \in Nat, NEW undo, Queue(undo, counter), NEW op, NEW redo, NEW m,
         BeginStep(op, undo, redo, m)
  PROVE  /\ counter' \in Nat
         /\ current_step' = NoStep => Queue(undo_steps', counter')
         /\ current_step' # NoStep => /\ IsStep(current_step') /\ current_step'.counter = counter'
                                      /\ counter' >= 1 /\ Queue(undo_steps', counter' - 1)
<1>1. CASE op = "NoUndo"
  BY <1>1, EmptyQueue DEF BeginStep
<1>2. CASE op # "NoUndo"
  <2>1. undo_steps' = undo /\ current_step' = NewStep(op) /\ counter' = counter + 1
    BY <1>2 DEF BeginStep
  <2>2. Queue(undo, counter + 1) /\ counter' - 1 = counter
    BY <2>1, QueueMonotonic
  <2>3. IsStep(NewStep(op)) /\ NewStep(op).counter = counter + 1
    BY DEF NewStep, IsStep
  <2>4. QED
    BY <2>1, <2>2, <2>3
<1>3. QED
  BY <1>1, <1>2

\* save_undo() changes neither the counter nor the shape of the current step.
LEMMA SaveFacts ==
  ASSUME NEW step, step # NoStep => IsStep(step), NEW changes
  PROVE  /\ step = NoStep => Save(step, changes) = NoStep
         /\ step # NoStep => /\ IsStep(Save(step, changes))
                             /\ Save(step, changes).counter = step.counter
<1>1. CASE step = NoStep
  BY <1>1 DEF Save
<1>2. CASE step # NoStep
  <2>1. Save(step, changes) = [kind |-> step.kind, changes |-> step.changes \o changes,
                               counter |-> step.counter]
    BY <1>2 DEF Save, IsStep
  <2>2. QED
    BY <1>2, <2>1 DEF IsStep
<1>3. QED
  BY <1>1, <1>2

\* Recording a change, in a closure or while undoing, keeps the invariant.
LEMMA RecordingStep ==
  ASSUME CounterInv, NEW changes, InTrx',
         current_step' = Save(current_step, changes),
         UNCHANGED <<queues, counter>>, "open" \in DOMAIN trx'
  PROVE  CounterInv'
<1>1. undo_steps' = undo_steps /\ counter' = counter
  BY DEF queues
<1>2. CASE current_step = NoStep
  <2>1. current_step' = NoStep /\ Queue(undo_steps, counter) /\ counter \in Nat
    BY <1>2, SaveFacts DEF CounterInv
  <2>2. QED
    BY <1>1, <2>1 DEF CounterInv
<1>3. CASE current_step # NoStep
  <2>1. /\ IsStep(current_step) /\ current_step.counter = counter
        /\ counter >= 1 /\ Queue(undo_steps, counter - 1) /\ counter \in Nat
    BY <1>3 DEF CounterInv
  <2>2. IsStep(current_step') /\ current_step'.counter = counter
    BY <1>3, <2>1, SaveFacts
  <2>3. Queue(undo_steps, counter)
    BY <2>1, QueueMonotonic
  <2>4. QED
    BY <1>1, <2>1, <2>2, <2>3 DEF CounterInv
<1>4. QED
  BY <1>2, <1>3

\* end_step(): whether the step is dropped, pushed or kept for redo, the undo
\* queue stays ordered.
LEMMA EndStepFacts ==
  ASSUME CounterInv, NEW step, EndStep(step),
         step # NoStep => current_step # NoStep /\ step.counter = counter
  PROVE  current_step' = NoStep /\ Queue(undo_steps', counter)
<1>1. counter \in Nat /\ Queue(undo_steps, counter)
  BY QueueMonotonic DEF CounterInv
<1>2. undo_steps' = undo_steps \/ (step # NoStep /\ undo_steps' = PushUndo(step, undo_steps))
  BY DEF EndStep
<1>3. CASE step # NoStep /\ undo_steps' = PushUndo(step, undo_steps)
  <2>1. /\ counter - 1 \in Nat /\ Queue(undo_steps, counter - 1)
        /\ step.counter = counter /\ counter > counter - 1
    BY <1>3 DEF CounterInv
  <2>2. Queue(PushUndo(step, undo_steps), step.counter)
    BY <1>1, <2>1, PushKeepsQueue
  <2>3. QED
    BY <1>3, <2>1, <2>2 DEF EndStep
<1>4. QED
  BY <1>1, <1>2, <1>3 DEF EndStep

\* A transaction is closed with no step left in the making.
LEMMA ClosedStep ==
  ASSUME counter' \in Nat, "open" \in DOMAIN trx', current_step' = NoStep,
         Queue(undo_steps', counter')
  PROVE  CounterInv'
  BY DEF CounterInv

LEMMA BeginCounterInv ==
  ASSUME CounterInv, NEW op \in OpKinds, Begin(op)
  PROVE  CounterInv'
<1>1. counter \in Nat /\ Queue(undo_steps, counter)
  BY DEF Begin, CounterInv
<1>2. BeginStep(op, undo_steps, redo_steps, "NormalOp") /\ trx' = NewTrx(op, NoStep, <<>>)
  BY DEF Begin
<1>3. InTrx' /\ "open" \in DOMAIN trx'
  BY <1>2 DEF NewTrx, InTrx
<1>4. QED
  BY <1>1, <1>2, <1>3, BeginStepFacts DEF CounterInv

LEMMA WriteCounterInv ==
  ASSUME CounterInv, NEW d, NEW changes, Write(d, changes)
  PROVE  CounterInv'
<1>1. InTrx' /\ "open" \in DOMAIN trx'
  BY DEF Write, InTrx, CounterInv
<1>2. QED
  BY <1>1, RecordingStep DEF Write

LEMMA CommitCounterInv ==
  ASSUME CounterInv, NEW recent \in BOOLEAN, Commit(recent)
  PROVE  CounterInv'
<1> DEFINE bump == trx.op = "NoUndo" \/ (~Undoing /\ HasChanges(current_step))
           stamped == IF bump THEN Save(current_step, <<Modified(db.mod)>>) ELSE current_step
           ended == IF recent THEN [stamped EXCEPT !.changes = <<>>] ELSE stamped
<1>1. /\ recent => Coalesces(stamped)
      /\ EndStep(ended) /\ trx' = NoTrx /\ counter' = counter
  BY DEF Commit
<1>2. current_step # NoStep => IsStep(current_step) /\ current_step.counter = counter
  BY DEF CounterInv
<1>3. /\ current_step = NoStep => stamped = NoStep
      /\ current_step # NoStep => IsStep(stamped) /\ stamped.counter = counter
  BY <1>2, SaveFacts
<1> HIDE DEF stamped
<1>4. ended # NoStep => current_step # NoStep /\ ended.counter = counter
  <2>1. CASE current_step = NoStep
    BY <2>1, <1>1, <1>3 DEF Coalesces
  <2>2. CASE current_step # NoStep
    BY <2>2, <1>3 DEF IsStep
  <2>3. QED
    BY <2>1, <2>2
<1> HIDE DEF ended
<1>5. current_step' = NoStep /\ Queue(undo_steps', counter)
  BY <1>1, <1>4, EndStepFacts
<1>6. counter' \in Nat /\ "open" \in DOMAIN trx'
  BY <1>1 DEF NoTrx, CounterInv
<1>7. QED
  BY <1>1, <1>5, <1>6, ClosedStep

LEMMA RollBackCounterInv ==
  ASSUME CounterInv, RollBack
  PROVE  CounterInv'
<1>1. /\ undo_steps' = <<>> /\ current_step' = NoStep /\ counter' = counter
      /\ counter \in Nat /\ "open" \in DOMAIN trx'
  BY DEF RollBack, BeginStep, NoTrx, CounterInv
<1>2. QED
  BY <1>1, EmptyQueue, ClosedStep

LEMMA UndoCounterInv ==
  ASSUME CounterInv, Undo
  PROVE  CounterInv'
<1> DEFINE step == Head(undo_steps)
<1>1. counter \in Nat /\ Queue(undo_steps, counter) /\ undo_steps # <<>>
  BY DEF Undo, CounterInv
<1>2. Queue(Tail(undo_steps), counter)
  BY <1>1, TailKeepsQueue
<1>3. /\ BeginStep(step.kind, Tail(undo_steps), redo_steps, "Undoing")
      /\ trx' = NewTrx(step.kind, step, Reverse(step.changes))
  BY DEF Undo
<1>4. InTrx' /\ "open" \in DOMAIN trx'
  BY <1>3 DEF NewTrx, InTrx
<1>5. QED
  BY <1>1, <1>2, <1>3, <1>4, BeginStepFacts DEF CounterInv

LEMMA RedoCounterInv ==
  ASSUME CounterInv, Redo
  PROVE  CounterInv'
<1> DEFINE step == Last(redo_steps)
<1>1. counter \in Nat /\ Queue(undo_steps, counter)
  BY DEF Redo, CounterInv
<1>2. /\ BeginStep(step.kind, undo_steps, Front(redo_steps), "Redoing")
      /\ trx' = NewTrx(step.kind, step, Reverse(step.changes))
  BY DEF Redo
<1>3. InTrx' /\ "open" \in DOMAIN trx'
  BY <1>2 DEF NewTrx, InTrx
<1>4. QED
  BY <1>1, <1>2, <1>3, BeginStepFacts DEF CounterInv

LEMMA RevertNextCounterInv ==
  ASSUME CounterInv, RevertNext
  PROVE  CounterInv'
<1>1. InTrx' /\ "open" \in DOMAIN trx'
  BY DEF RevertNext, InTrx, CounterInv
<1>2. PICK changes : current_step' = Save(current_step, changes)
  BY DEF RevertNext
<1>3. QED
  BY <1>1, <1>2, RecordingStep DEF RevertNext

LEMMA AddCustomStepCounterInv ==
  ASSUME CounterInv, AddCustomStep
  PROVE  CounterInv'
<1>1. /\ counter \in Nat /\ Queue(undo_steps, counter)
      /\ current_step' = NoStep /\ "open" \in DOMAIN trx'
      /\ undo_steps' = PushUndo(NewStep("Custom"), undo_steps) /\ counter' = counter + 1
  BY DEF AddCustomStep, CounterInv
<1>2. NewStep("Custom").counter = counter + 1
  BY DEF NewStep
<1>3. Queue(undo_steps', counter')
  <2>1. NewStep("Custom").counter \in Nat /\ NewStep("Custom").counter > counter
    BY <1>1, <1>2
  <2>2. QED
    BY <1>1, <1>2, <2>1, PushKeepsQueue
<1>4. QED
  BY <1>1, <1>3, ClosedStep

LEMMA MergeCounterInv ==
  ASSUME CounterInv, NEW starting_from \in 1..MaxCounter, MergeUndoableOps(starting_from)
  PROVE  CounterInv'
<1>1. /\ counter \in Nat /\ Queue(undo_steps, counter)
      /\ current_step' = NoStep /\ "open" \in DOMAIN trx'
      /\ counter' = starting_from /\ starting_from \in Nat
  <2>1. ~InTrx /\ counter' = starting_from /\ UNCHANGED <<current_step, trx>>
    BY Zenon DEF MergeUndoableOps
  <2>2. starting_from \in Nat
    BY BoundsAssumption
  <2>3. QED
    BY <2>1, <2>2 DEF CounterInv
<1>2. PICK idx, changes :
        /\ idx \in DOMAIN undo_steps
        /\ undo_steps[idx].counter = starting_from
        /\ undo_steps' = <<[undo_steps[idx] EXCEPT !.changes = changes]>>
                           \o SubSeq(undo_steps, idx + 1, Len(undo_steps))
  BY DEF MergeUndoableOps
<1>3. [undo_steps[idx] EXCEPT !.changes = changes].counter = undo_steps[idx].counter
  OBVIOUS
<1>4. Queue(undo_steps', starting_from)
  BY <1>1, <1>2, <1>3, MergeKeepsQueue
<1>5. QED
  BY <1>1, <1>4, ClosedStep

\* The inductive step: no action, and no step that changes nothing, breaks it.
LEMMA NextCounterInv == CounterInv /\ [Next]_vars => CounterInv'
<1> SUFFICES ASSUME CounterInv, [Next]_vars
             PROVE  CounterInv'
  OBVIOUS
<1>1. ASSUME NEW op \in OpKinds, Begin(op) PROVE CounterInv'
  BY <1>1, BeginCounterInv
<1>2. ASSUME NEW i \in Items, NEW v \in Values, AddItem(i, v) PROVE CounterInv'
  BY <1>2, WriteCounterInv DEF AddItem
<1>3. ASSUME NEW i \in Items, NEW v \in Values, UpdateItem(i, v) PROVE CounterInv'
  BY <1>3, WriteCounterInv DEF UpdateItem
<1>4. ASSUME NEW i \in Items, RemoveItem(i) PROVE CounterInv'
  BY <1>4, WriteCounterInv DEF RemoveItem
<1>5. ASSUME NEW recent \in BOOLEAN, Commit(recent) PROVE CounterInv'
  BY <1>5, CommitCounterInv
<1>6. CASE RollBack
  BY <1>6, RollBackCounterInv
<1>7. CASE Undo
  BY <1>7, UndoCounterInv
<1>8. CASE Redo
  BY <1>8, RedoCounterInv
<1>9. CASE RevertNext
  BY <1>9, RevertNextCounterInv
<1>10. CASE AddCustomStep
  BY <1>10, AddCustomStepCounterInv
<1>11. ASSUME NEW c \in 1..MaxCounter, MergeUndoableOps(c) PROVE CounterInv'
  BY <1>11, MergeCounterInv
<1>12. CASE Sync
  <2>1. /\ counter' \in Nat /\ "open" \in DOMAIN trx' /\ current_step' = NoStep
        /\ undo_steps' = <<>>
    BY <1>12 DEF Sync, CounterInv
  <2>2. QED
    BY <2>1, EmptyQueue, ClosedStep
<1>13. CASE Reopen
  <2>1. /\ counter' \in Nat /\ "open" \in DOMAIN trx' /\ current_step' = NoStep
        /\ undo_steps' = <<>>
    BY <1>13 DEF Reopen, NoTrx
  <2>2. QED
    BY <2>1, EmptyQueue, ClosedStep
<1>14. CASE UNCHANGED vars
  BY <1>14 DEF vars, CounterInv, InTrx
<1>15. QED
  BY <1>1, <1>2, <1>3, <1>4, <1>5, <1>6, <1>7, <1>8, <1>9, <1>10, <1>11, <1>12, <1>13,
     <1>14 DEF Next

\* The invariant says what the two safety properties ask for.
LEMMA CounterInvSuffices == CounterInv => UndoLimitKept /\ CountersDescend
<1> SUFFICES ASSUME CounterInv
             PROVE  UndoLimitKept /\ CountersDescend
  OBVIOUS
<1>1. CASE current_step = NoStep
  BY <1>1 DEF CounterInv, Queue, UndoLimitKept, CountersDescend
<1>2. CASE current_step # NoStep
  <2>1. /\ current_step.counter = counter /\ counter \in Nat
        /\ Queue(undo_steps, counter - 1)
    BY <1>2 DEF CounterInv
  <2>2. \A j \in DOMAIN undo_steps :
          undo_steps[j].counter <= counter /\ undo_steps[j].counter < counter
    BY <2>1 DEF Queue
  <2>3. QED
    BY <2>1, <2>2 DEF Queue, UndoLimitKept, CountersDescend
<1>3. QED
  BY <1>1, <1>2

\* In every run, for any UNDO_LIMIT and any number of objects and operations, the
\* recorded step holds the newest counter and the queue is bounded and ordered.
THEOREM CounterInvariant == Spec => []CounterInv
<1>1. QED
  BY InitCounterInv, NextCounterInv, PTL DEF Spec

\* undo_steps never holds more than UNDO_LIMIT steps.
THEOREM UndoLimit == Spec => []UndoLimitKept
<1>1. CounterInv => UndoLimitKept
  BY CounterInvSuffices
<1>2. QED
  BY <1>1, CounterInvariant, PTL

\* The counters of the undo queue strictly decrease, so that the target of
\* merge_undoable_ops() is unique.
THEOREM CountersOrdered == Spec => []CountersDescend
<1>1. CounterInv => CountersDescend
  BY CounterInvSuffices
<1>2. QED
  BY <1>1, CounterInvariant, PTL

(* Induction over the numbers, and the recursive functions of the model.     *)

Smaller == {p \in Nat \X Nat : p[1] < p[2]}

\* The order of the naturals has no infinite descent.
LEMMA SmallerIsWellFounded == IsWellFoundedOn(Smaller, Nat)
<1>1. Smaller = OpToRel(<, Nat)
  BY DEF Smaller, OpToRel
<1>2. QED
  BY <1>1, NatLessThanWellFounded

\* Induction: a set with 0 and the successor of each of its numbers has them all.
LEMMA SetInduction ==
  ASSUME NEW S, 0 \in S, \A n \in Nat : n \in S => n + 1 \in S
  PROVE  \A n \in Nat : n \in S
<1> DEFINE T == Nat \ S
<1>1. SUFFICES ASSUME T # {} PROVE FALSE
  OBVIOUS
<1>2. PICK n \in T : \A m \in T : ~ (<<m, n>> \in Smaller)
  BY <1>1, SmallerIsWellFounded, WFMin
<1>3. n - 1 \in Nat /\ n - 1 \in S
  <2>1. n \in Nat /\ n # 0
    OBVIOUS
  <2>2. n - 1 \in Nat /\ n - 1 < n
    BY <2>1
  <2>3. n - 1 \notin T
    BY <1>2, <2>1, <2>2 DEF Smaller
  <2>4. QED
    BY <2>2, <2>3
<1>4. QED
  BY <1>2, <1>3

-----------------------------------------------------------------------------
(* The recursive functions satisfy their equations.                         *)

IsReverting(g, d, todo, m) ==
  g = [n \in 0..m |-> IF n = 0 THEN d ELSE Revert(g[n - 1], todo[n])]

\* A function that reverts m changes one after the other exists, for every m.
LEMMA RevertingExists ==
  ASSUME NEW d, NEW todo
  PROVE  \A m \in Nat : \E g : IsReverting(g, d, todo, m)
<1> DEFINE S == {m \in Nat : \E g : IsReverting(g, d, todo, m)}
<1>1. 0 \in S
  <2>1. IsReverting([n \in 0..0 |-> d], d, todo, 0)
    BY DEF IsReverting
  <2>2. QED
    BY <2>1
<1>2. ASSUME NEW m \in Nat, m \in S PROVE m + 1 \in S
  <2>1. PICK g : IsReverting(g, d, todo, m)
    BY <1>2
  <2> DEFINE h == [n \in 0..(m + 1) |-> IF n = m + 1 THEN Revert(g[m], todo[m + 1]) ELSE g[n]]
  <2>2. ASSUME NEW n \in 0..(m + 1)
        PROVE  h[n] = IF n = 0 THEN d ELSE Revert(h[n - 1], todo[n])
    <3>1. CASE n = 0
      <4>1. h[0] = g[0]
        OBVIOUS
      <4>2. g[0] = d
        BY <2>1 DEF IsReverting
      <4>3. QED
        BY <3>1, <4>1, <4>2
    <3>2. CASE n \in 1..m
      <4>1. h[n] = g[n] /\ h[n - 1] = g[n - 1]
        BY <3>2
      <4>2. g[n] = Revert(g[n - 1], todo[n])
        BY <2>1, <3>2 DEF IsReverting
      <4>3. QED
        BY <3>2, <4>1, <4>2
    <3>3. CASE n = m + 1
      <4>1. h[n] = Revert(g[m], todo[m + 1]) /\ h[n - 1] = g[m] /\ n # 0
        BY <3>3
      <4> HIDE DEF h
      <4>2. QED
        BY <3>3, <4>1
    <3>4. QED
      BY <3>1, <3>2, <3>3
  <2>3. h = [n \in 0..(m + 1) |-> h[n]]
    OBVIOUS
  <2> HIDE DEF h
  <2>4. IsReverting(h, d, todo, m + 1)
    BY <2>2, <2>3 DEF IsReverting
  <2>5. QED
    BY <2>4
<1> HIDE DEF S
<1>3. \A m \in Nat : m \in S
  BY <1>1, <1>2, SetInduction
<1>4. QED
  BY <1>3 DEF S

\* Reverting satisfies its recursive equation.
LEMMA RevertingDef ==
  ASSUME NEW d, NEW todo, Len(todo) \in Nat
  PROVE  /\ Reverting(d, todo)[0] = d
         /\ \A n \in 1..Len(todo) :
              Reverting(d, todo)[n] = Revert(Reverting(d, todo)[n - 1], todo[n])
<1>1. PICK g : IsReverting(g, d, todo, Len(todo))
  BY RevertingExists
<1>2. IsReverting(Reverting(d, todo), d, todo, Len(todo))
  BY <1>1 DEF IsReverting, Reverting
<1> DEFINE r == Reverting(d, todo)
<1> HIDE DEF r
<1>3. r = [n \in 0..Len(todo) |-> IF n = 0 THEN d ELSE Revert(r[n - 1], todo[n])]
  BY <1>2 DEF IsReverting, r
<1>4. r[0] = d /\ \A n \in 1..Len(todo) : r[n] = Revert(r[n - 1], todo[n])
  BY <1>3
<1>5. QED
  BY <1>4 DEF r
IsRewinding(g, d, steps, m) ==
  g = [n \in 0..m |-> IF n = 0 THEN d ELSE Rewind(g[n - 1], steps[n])]

\* A function that reverts m steps one after the other exists, for every m.
LEMMA RewindingExists ==
  ASSUME NEW d, NEW steps
  PROVE  \A m \in Nat : \E g : IsRewinding(g, d, steps, m)
<1> DEFINE S == {m \in Nat : \E g : IsRewinding(g, d, steps, m)}
<1>1. 0 \in S
  <2>1. IsRewinding([n \in 0..0 |-> d], d, steps, 0)
    BY DEF IsRewinding
  <2>2. QED
    BY <2>1
<1>2. ASSUME NEW m \in Nat, m \in S PROVE m + 1 \in S
  <2>1. PICK g : IsRewinding(g, d, steps, m)
    BY <1>2
  <2> DEFINE h == [n \in 0..(m + 1) |-> IF n = m + 1 THEN Rewind(g[m], steps[m + 1]) ELSE g[n]]
  <2>2. ASSUME NEW n \in 0..(m + 1)
        PROVE  h[n] = IF n = 0 THEN d ELSE Rewind(h[n - 1], steps[n])
    <3>1. CASE n = 0
      <4>1. h[0] = g[0]
        OBVIOUS
      <4>2. g[0] = d
        BY <2>1 DEF IsRewinding
      <4>3. QED
        BY <3>1, <4>1, <4>2
    <3>2. CASE n \in 1..m
      <4>1. h[n] = g[n] /\ h[n - 1] = g[n - 1]
        BY <3>2
      <4>2. g[n] = Rewind(g[n - 1], steps[n])
        BY <2>1, <3>2 DEF IsRewinding
      <4>3. QED
        BY <3>2, <4>1, <4>2
    <3>3. CASE n = m + 1
      <4>1. h[n] = Rewind(g[m], steps[m + 1]) /\ h[n - 1] = g[m] /\ n # 0
        BY <3>3
      <4> HIDE DEF h
      <4>2. QED
        BY <3>3, <4>1
    <3>4. QED
      BY <3>1, <3>2, <3>3
  <2>3. h = [n \in 0..(m + 1) |-> h[n]]
    OBVIOUS
  <2> HIDE DEF h
  <2>4. IsRewinding(h, d, steps, m + 1)
    BY <2>2, <2>3 DEF IsRewinding
  <2>5. QED
    BY <2>4
<1> HIDE DEF S
<1>3. \A m \in Nat : m \in S
  BY <1>1, <1>2, SetInduction
<1>4. QED
  BY <1>3 DEF S

\* Rewinding satisfies its recursive equation.
LEMMA RewindingDef ==
  ASSUME NEW d, NEW steps, Len(steps) \in Nat
  PROVE  /\ Rewinding(d, steps)[0] = d
         /\ \A n \in 1..Len(steps) :
              Rewinding(d, steps)[n] = Rewind(Rewinding(d, steps)[n - 1], steps[n])
<1>1. PICK g : IsRewinding(g, d, steps, Len(steps))
  BY RewindingExists
<1>2. IsRewinding(Rewinding(d, steps), d, steps, Len(steps))
  BY <1>1 DEF IsRewinding, Rewinding
<1> DEFINE r == Rewinding(d, steps)
<1> HIDE DEF r
<1>3. r = [n \in 0..Len(steps) |-> IF n = 0 THEN d ELSE Rewind(r[n - 1], steps[n])]
  BY <1>2 DEF IsRewinding, r
<1>4. r[0] = d /\ \A n \in 1..Len(steps) : r[n] = Rewind(r[n - 1], steps[n])
  BY <1>3
<1>5. QED
  BY <1>4 DEF r

IsJoined(g, steps, idx, m) ==
  g = [n \in 0..m |-> IF n = 0 THEN steps[idx].changes
                                  ELSE g[n - 1] \o steps[idx - n].changes]

\* A function that appends the changes of m newer steps exists, for every m.
LEMMA JoinedExists ==
  ASSUME NEW steps, NEW idx
  PROVE  \A m \in Nat : \E g : IsJoined(g, steps, idx, m)
<1> DEFINE S == {m \in Nat : \E g : IsJoined(g, steps, idx, m)}
<1>1. 0 \in S
  <2>1. IsJoined([n \in 0..0 |-> steps[idx].changes], steps, idx, 0)
    BY DEF IsJoined
  <2>2. QED
    BY <2>1
<1>2. ASSUME NEW m \in Nat, m \in S PROVE m + 1 \in S
  <2>1. PICK g : IsJoined(g, steps, idx, m)
    BY <1>2
  <2> DEFINE h == [n \in 0..(m + 1) |-> IF n = m + 1 THEN g[m] \o steps[idx - (m + 1)].changes ELSE g[n]]
  <2>2. ASSUME NEW n \in 0..(m + 1)
        PROVE  h[n] = IF n = 0 THEN steps[idx].changes ELSE h[n - 1] \o steps[idx - n].changes
    <3>1. CASE n = 0
      <4>1. h[0] = g[0]
        OBVIOUS
      <4>2. g[0] = steps[idx].changes
        BY <2>1 DEF IsJoined
      <4>3. QED
        BY <3>1, <4>1, <4>2
    <3>2. CASE n \in 1..m
      <4>1. h[n] = g[n] /\ h[n - 1] = g[n - 1] /\ n # 0
        BY <3>2
      <4>2. g[n] = g[n - 1] \o steps[idx - n].changes
        BY <2>1, <3>2 DEF IsJoined
      <4> HIDE DEF h
      <4>3. QED
        BY <4>1, <4>2, Zenon
    <3>3. CASE n = m + 1
      <4>1. h[n] = g[m] \o steps[idx - (m + 1)].changes /\ h[n - 1] = g[m] /\ n # 0
        BY <3>3
      <4> HIDE DEF h
      <4>2. QED
        BY <3>3, <4>1
    <3>4. QED
      BY <3>1, <3>2, <3>3
  <2>3. h = [n \in 0..(m + 1) |-> h[n]]
    OBVIOUS
  <2> HIDE DEF h
  <2>4. IsJoined(h, steps, idx, m + 1)
    BY <2>2, <2>3 DEF IsJoined
  <2>5. QED
    BY <2>4
<1> HIDE DEF S
<1>3. \A m \in Nat : m \in S
  BY <1>1, <1>2, SetInduction
<1>4. QED
  BY <1>3 DEF S

\* Joined satisfies its recursive equation.
LEMMA JoinedDef ==
  ASSUME NEW steps, NEW idx, idx \in Nat \ {0}
  PROVE  /\ Joined(steps, idx)[0] = steps[idx].changes
         /\ \A n \in 1..(idx - 1) :
              Joined(steps, idx)[n] = Joined(steps, idx)[n - 1] \o steps[idx - n].changes
<1>1. PICK g : IsJoined(g, steps, idx, idx - 1)
  BY JoinedExists
<1>2. IsJoined(Joined(steps, idx), steps, idx, idx - 1)
  BY <1>1 DEF IsJoined, Joined
<1> DEFINE r == Joined(steps, idx)
<1> HIDE DEF r
<1>3. r = [n \in 0..(idx - 1) |-> IF n = 0 THEN steps[idx].changes ELSE r[n - 1] \o steps[idx - n].changes]
  BY <1>2 DEF IsJoined, r
<1>4. r[0] = steps[idx].changes /\ \A n \in 1..(idx - 1) : r[n] = r[n - 1] \o steps[idx - n].changes
  <2>1. 0 \in 0..(idx - 1) /\ \A n \in 1..(idx - 1) : n \in 0..(idx - 1) /\ n # 0
    OBVIOUS
  <2>2. r[0] = steps[idx].changes
    BY <1>3, <2>1
  <2>3. ASSUME NEW n \in 1..(idx - 1) PROVE r[n] = r[n - 1] \o steps[idx - n].changes
    BY ZenonT(60), <1>3, <2>1, <2>3
  <2>4. QED
    BY <2>2, <2>3
<1>5. QED
  BY <1>4 DEF r

\* Change c was the last to be made: d holds what it left behind, as far as undo
\* returns to it.
Fits(d, c) ==
  CASE c.kind = "Added"        -> d.items[c.item] = c.old
    [] c.kind = "Updated"      -> d.items[c.item] # NoItem
    [] c.kind = "Removed"      -> d.items[c.item] = NoItem
    [] c.kind = "GraveAdded"   -> c.item \in Packaged \/ c.item \in d.graves
    [] c.kind = "GraveRemoved" -> c.item \in Packaged \/ c.item \notin d.graves
    [] c.kind = "Modified"     -> TRUE

\* The grave of an id that packages contain, which undo may lose.
LosesGrave(c) == c.kind \in {"GraveAdded", "GraveRemoved"} /\ c.item \in Packaged

\* Writing a row changes that row only, and writing the old row takes it back.
LEMMA RowsOfDb ==
  ASSUME NEW d \in Db, NEW i \in Items, NEW e \in Entry \cup {NoItem}
  PROVE  /\ SetRow(d, i, e) \in Db
         /\ SetRow(d, i, e).items[i] = e
         /\ \A j \in Items \ {i} : SetRow(d, i, e).items[j] = d.items[j]
         /\ SetRow(d, i, e).graves = d.graves
         /\ SetRow(d, i, e).mod = d.mod /\ SetRow(d, i, e).ls = d.ls
         /\ \A f \in Entry \cup {NoItem} : d.items[i] = f => SetRow(SetRow(d, i, e), i, f) = d
<1>1. d = [items |-> d.items, graves |-> d.graves, mod |-> d.mod, ls |-> d.ls]
      /\ d.items \in [Items -> Entry \cup {NoItem}] /\ d.graves \in SUBSET Items
      /\ d.mod \in 0..MaxClock /\ d.ls \in 0..MaxClock
  BY DEF Db
<1>2. SetRow(d, i, e) = [items |-> [d.items EXCEPT ![i] = e], graves |-> d.graves,
                         mod |-> d.mod, ls |-> d.ls]
  BY <1>1 DEF SetRow
<1>3. [d.items EXCEPT ![i] = e] \in [Items -> Entry \cup {NoItem}]
  BY <1>1
<1>4. ASSUME NEW f \in Entry \cup {NoItem}, d.items[i] = f
      PROVE  SetRow(SetRow(d, i, e), i, f) = d
  <2> DEFINE rows == [d.items EXCEPT ![i] = e]
  <2> HIDE DEF rows
  <2>1. SetRow(SetRow(d, i, e), i, f) =
          [items |-> [rows EXCEPT ![i] = f], graves |-> d.graves, mod |-> d.mod, ls |-> d.ls]
    <3>1. SetRow(d, i, e) = [items |-> rows, graves |-> d.graves, mod |-> d.mod, ls |-> d.ls]
      BY <1>2 DEF rows
    <3> DEFINE once == SetRow(d, i, e)
    <3> HIDE DEF once
    <3>2. SetRow(once, i, f) =
            [items |-> [rows EXCEPT ![i] = f], graves |-> d.graves, mod |-> d.mod, ls |-> d.ls]
      <4>1. once.items = rows /\ rows \in [Items -> Entry \cup {NoItem}]
        BY <1>3, <3>1 DEF once, rows
      <4>2. once = [items |-> once.items, graves |-> once.graves, mod |-> once.mod, ls |-> once.ls]
            /\ once.graves = d.graves /\ once.mod = d.mod /\ once.ls = d.ls
        BY <3>1 DEF once
      <4>3. QED
        BY <4>1, <4>2 DEF SetRow
    <3>3. QED
      BY <3>2 DEF once
  <2>2. [rows EXCEPT ![i] = f] = d.items
    BY <1>1, <1>4 DEF rows
  <2>3. QED
    BY <1>1, <2>1, <2>2
<1>5. QED
  BY <1>1, <1>2, <1>3, <1>4 DEF Db

\* Adding a grave and removing it change the graves only, and take each other back.
LEMMA GravesOfDb ==
  ASSUME NEW d \in Db, NEW i \in Items
  PROVE  /\ AddGrave(d, i) \in Db /\ RemoveGrave(d, i) \in Db
         /\ AddGrave(d, i).items = d.items /\ RemoveGrave(d, i).items = d.items
         /\ AddGrave(d, i).graves = d.graves \cup {i}
         /\ RemoveGrave(d, i).graves = d.graves \ {i}
         /\ AddGrave(d, i).mod = d.mod /\ RemoveGrave(d, i).mod = d.mod
         /\ AddGrave(d, i).ls = d.ls /\ RemoveGrave(d, i).ls = d.ls
         /\ i \in d.graves => AddGrave(RemoveGrave(d, i), i) = d
         /\ i \notin d.graves => RemoveGrave(AddGrave(d, i), i) = d
<1>1. d = [items |-> d.items, graves |-> d.graves, mod |-> d.mod, ls |-> d.ls]
      /\ d.items \in [Items -> Entry \cup {NoItem}] /\ d.graves \in SUBSET Items
      /\ d.mod \in 0..MaxClock /\ d.ls \in 0..MaxClock
  BY DEF Db
<1>2. /\ AddGrave(d, i) = [items |-> d.items, graves |-> d.graves \cup {i}, mod |-> d.mod,
                           ls |-> d.ls]
      /\ RemoveGrave(d, i) = [items |-> d.items, graves |-> d.graves \ {i}, mod |-> d.mod,
                              ls |-> d.ls]
  BY <1>1 DEF AddGrave, RemoveGrave
<1>3. /\ AddGrave(RemoveGrave(d, i), i) =
           [items |-> d.items, graves |-> (d.graves \ {i}) \cup {i}, mod |-> d.mod, ls |-> d.ls]
      /\ RemoveGrave(AddGrave(d, i), i) =
           [items |-> d.items, graves |-> (d.graves \cup {i}) \ {i}, mod |-> d.mod, ls |-> d.ls]
  BY ZenonT(60), <1>2 DEF AddGrave, RemoveGrave
<1>4. /\ i \in d.graves => (d.graves \ {i}) \cup {i} = d.graves
      /\ i \notin d.graves => (d.graves \cup {i}) \ {i} = d.graves
  OBVIOUS
<1>5. QED
  BY <1>1, <1>2, <1>3, <1>4 DEF Db

\* A database with another time stamp.
Stamped(d, t) == [d EXCEPT !.mod = t]

\* Setting the time stamp changes it only, and setting the old one takes it back.
LEMMA StampOfDb ==
  ASSUME NEW d \in Db, NEW t \in 0..MaxClock
  PROVE  /\ Stamped(d, t) \in Db
         /\ Stamped(d, t).items = d.items /\ Stamped(d, t).graves = d.graves
         /\ Stamped(d, t).mod = t /\ Stamped(d, t).ls = d.ls
         /\ Stamped(Stamped(d, t), d.mod) = d
  BY DEF Db, Stamped

\* The kinds a change can have, and the fields it has then.
LEMMA ChangeKinds ==
  ASSUME NEW c \in Change
  PROVE  \/ c.kind = "Added" /\ c.item \in Items /\ c.old \in Entry
         \/ c.kind = "Updated" /\ c.item \in Items /\ c.old \in Entry
         \/ c.kind = "Removed" /\ c.item \in Items /\ c.old \in Entry
         \/ c.kind = "GraveAdded" /\ c.item \in Items
         \/ c.kind = "GraveRemoved" /\ c.item \in Items
         \/ c.kind = "Modified" /\ c.old \in 0..MaxClock
  BY DEF Change, RowChange, GraveChange, ModifiedChange

\* What save_undo() is given is a change.
LEMMA NewChanges ==
  /\ \A i \in Items, e \in Entry : /\ Row("Added", i, e) \in Change
                                   /\ Row("Updated", i, e) \in Change
                                   /\ Row("Removed", i, e) \in Change
  /\ \A i \in Items : Grave("GraveAdded", i) \in Change /\ Grave("GraveRemoved", i) \in Change
  /\ \A t \in 0..MaxClock : Modified(t) \in Change
  BY DEF Change, RowChange, GraveChange, ModifiedChange, Row, Grave, Modified

\* Reverting a change that fits restores a database, and the inverse record takes
\* it back: undo_card_change() and its kin record what they replace.
LEMMA ExactRevert ==
  ASSUME NEW d \in Db, NEW c \in Change, Fits(d, c), ~LosesGrave(c)
  PROVE  /\ Revert(d, c) \in Db /\ Revert(d, c).ls = d.ls
         /\ Inverted(d, c) \in Change
         /\ Fits(Revert(d, c), Inverted(d, c))
         /\ Revert(Revert(d, c), Inverted(d, c)) = d
         /\ CanRevert(d, c)
         /\ c.kind = "Modified" => Inverted(d, c).kind = "Modified"
<1>0. d.items \in [Items -> Entry \cup {NoItem}] /\ d.mod \in 0..MaxClock
  BY DEF Db
<1>1. CASE c.kind = "Added" /\ c.item \in Items /\ c.old \in Entry
  <2>1. Revert(d, c) = SetRow(d, c.item, NoItem) /\ Inverted(d, c) = Row("Removed", c.item, c.old)
    BY <1>1 DEF Revert, Inverted
  <2>2. d.items[c.item] = c.old
    BY <1>1 DEF Fits
  <2>3. Row("Removed", c.item, c.old).kind = "Removed"
        /\ Row("Removed", c.item, c.old).item = c.item /\ Row("Removed", c.item, c.old).old = c.old
    BY DEF Row
  <2>4. Revert(Revert(d, c), Inverted(d, c)) = SetRow(SetRow(d, c.item, NoItem), c.item, c.old)
    BY <2>1, <2>3 DEF Revert
  <2>5. Fits(Revert(d, c), Inverted(d, c)) <=> Revert(d, c).items[c.item] = NoItem
    BY <2>1, <2>3 DEF Fits
  <2>6. QED
    BY <1>1, <2>1, <2>2, <2>4, <2>5, RowsOfDb, NewChanges DEF CanRevert
<1>2. CASE c.kind = "Updated" /\ c.item \in Items /\ c.old \in Entry
  <2>1. /\ Revert(d, c) = SetRow(d, c.item, c.old)
        /\ Inverted(d, c) = Row("Updated", c.item, d.items[c.item])
    BY <1>2 DEF Revert, Inverted
  <2>2. d.items[c.item] # NoItem /\ d.items[c.item] \in Entry
    BY <1>0, <1>2 DEF Fits
  <2> DEFINE was == d.items[c.item]
  <2> HIDE DEF was
  <2>3. Row("Updated", c.item, was).kind = "Updated"
        /\ Row("Updated", c.item, was).item = c.item /\ Row("Updated", c.item, was).old = was
    BY DEF Row
  <2>4. Revert(Revert(d, c), Inverted(d, c)) = SetRow(SetRow(d, c.item, c.old), c.item, was)
    BY <2>1, <2>3 DEF Revert, was
  <2>5. Fits(Revert(d, c), Inverted(d, c)) <=> Revert(d, c).items[c.item] # NoItem
    BY <2>1, <2>3 DEF Fits, was
  <2>6. c.old # NoItem
    BY <1>2, NoItemAssumption
  <2>7. d.items[c.item] = was /\ was \in Entry /\ was # NoItem
    BY <2>2 DEF was
  <2>8. QED
    BY <1>2, <2>1, <2>4, <2>5, <2>6, <2>7, RowsOfDb, NewChanges DEF CanRevert
<1>3. CASE c.kind = "Removed" /\ c.item \in Items /\ c.old \in Entry
  <2>1. Revert(d, c) = SetRow(d, c.item, c.old) /\ Inverted(d, c) = Row("Added", c.item, c.old)
    BY <1>3 DEF Revert, Inverted
  <2>2. d.items[c.item] = NoItem
    BY <1>3 DEF Fits
  <2>3. Row("Added", c.item, c.old).kind = "Added"
        /\ Row("Added", c.item, c.old).item = c.item /\ Row("Added", c.item, c.old).old = c.old
    BY DEF Row
  <2>4. Revert(Revert(d, c), Inverted(d, c)) = SetRow(SetRow(d, c.item, c.old), c.item, NoItem)
    BY <2>1, <2>3 DEF Revert
  <2>5. Fits(Revert(d, c), Inverted(d, c)) <=> Revert(d, c).items[c.item] = c.old
    BY <2>1, <2>3 DEF Fits
  <2>6. QED
    BY <1>3, <2>1, <2>2, <2>4, <2>5, RowsOfDb, NewChanges DEF CanRevert
<1>4. CASE c.kind = "GraveAdded" /\ c.item \in Items
  <2>1. Revert(d, c) = RemoveGrave(d, c.item) /\ Inverted(d, c) = Grave("GraveRemoved", c.item)
    BY <1>4 DEF Revert, Inverted
  <2>2. c.item \in d.graves
    BY <1>4 DEF Fits, LosesGrave
  <2>3. Grave("GraveRemoved", c.item).kind = "GraveRemoved"
        /\ Grave("GraveRemoved", c.item).item = c.item
    BY DEF Grave
  <2>4. Revert(Revert(d, c), Inverted(d, c)) = AddGrave(RemoveGrave(d, c.item), c.item)
    BY <2>1, <2>3 DEF Revert
  <2>5. c.item \notin Revert(d, c).graves => Fits(Revert(d, c), Inverted(d, c))
    BY <2>1, <2>3 DEF Fits
  <2>6. QED
    BY <1>4, <2>1, <2>2, <2>4, <2>5, GravesOfDb, NewChanges DEF CanRevert
<1>5. CASE c.kind = "GraveRemoved" /\ c.item \in Items
  <2>1. Revert(d, c) = AddGrave(d, c.item) /\ Inverted(d, c) = Grave("GraveAdded", c.item)
    BY <1>5 DEF Revert, Inverted
  <2>2. c.item \notin d.graves
    BY <1>5 DEF Fits, LosesGrave
  <2>3. Grave("GraveAdded", c.item).kind = "GraveAdded" /\ Grave("GraveAdded", c.item).item = c.item
    BY DEF Grave
  <2>4. Revert(Revert(d, c), Inverted(d, c)) = RemoveGrave(AddGrave(d, c.item), c.item)
    BY <2>1, <2>3 DEF Revert
  <2>5. c.item \in Revert(d, c).graves => Fits(Revert(d, c), Inverted(d, c))
    BY <2>1, <2>3 DEF Fits
  <2>6. QED
    BY <1>5, <2>1, <2>2, <2>4, <2>5, GravesOfDb, NewChanges DEF CanRevert
<1>6. CASE c.kind = "Modified" /\ c.old \in 0..MaxClock
  <2>1. Revert(d, c) = Stamped(d, c.old) /\ Inverted(d, c) = Modified(d.mod)
    BY <1>6 DEF Stamped, Revert, Inverted
  <2>2. Modified(d.mod).kind = "Modified" /\ Modified(d.mod).old = d.mod
    BY DEF Modified
  <2>3. Revert(Revert(d, c), Inverted(d, c)) = Stamped(Stamped(d, c.old), d.mod)
    BY <2>1, <2>2 DEF Stamped, Revert
  <2>4. Fits(Revert(d, c), Inverted(d, c))
    BY <2>1, <2>2 DEF Fits
  <2>5. Modified(d.mod) \in Change
    BY <1>0, NewChanges
  <2>6. /\ Revert(d, c) \in Db /\ Revert(d, c).ls = d.ls
        /\ Revert(Revert(d, c), Inverted(d, c)) = d
    <3> DEFINE t == c.old
               s == Stamped(d, t)
    <3>1. s \in Db /\ s.ls = d.ls /\ Stamped(s, d.mod) = d
      <4>1. t \in 0..MaxClock
        BY <1>6
      <4> HIDE DEF t
      <4>2. QED
        BY <4>1, StampOfDb
    <3>2. Revert(d, c) = s /\ Revert(Revert(d, c), Inverted(d, c)) = Stamped(s, d.mod)
      BY <2>1, <2>3
    <3> HIDE DEF s
    <3>3. QED
      BY <3>1, <3>2
  <2>7. QED
    BY <1>6, <2>1, <2>2, <2>4, <2>5, <2>6 DEF CanRevert
<1>7. QED
  BY <1>1, <1>2, <1>3, <1>4, <1>5, <1>6, ChangeKinds

-----------------------------------------------------------------------------
(* The databases up to the graves that undo may lose.                       *)

\* The databases of the history.
PlainDb == {d \in Db : d.graves \cap Packaged = {}}

\* Reverting a change, as the history sees it.
Back(d, c) == Returnable(Revert(d, c))

\* Returnable takes graves away and nothing else.
LEMMA ReturnableFacts ==
  ASSUME NEW d \in Db
  PROVE  /\ Returnable(d) \in PlainDb /\ Returnable(d) \in Db
         /\ Returnable(d).items = d.items /\ Returnable(d).graves = d.graves \ Packaged
         /\ Returnable(d).mod = d.mod /\ Returnable(d).ls = d.ls
         /\ Returnable(d) = [items |-> d.items, graves |-> d.graves \ Packaged,
                             mod |-> d.mod, ls |-> d.ls]
<1>1. d = [items |-> d.items, graves |-> d.graves, mod |-> d.mod, ls |-> d.ls]
      /\ d.items \in [Items -> Entry \cup {NoItem}] /\ d.graves \in SUBSET Items
      /\ d.mod \in 0..MaxClock /\ d.ls \in 0..MaxClock
  BY DEF Db
<1>2. Returnable(d) = [items |-> d.items, graves |-> d.graves \ Packaged,
                       mod |-> d.mod, ls |-> d.ls]
  BY <1>1 DEF Returnable
<1>3. d.graves \ Packaged \in SUBSET Items /\ (d.graves \ Packaged) \cap Packaged = {}
  BY <1>1
<1>4. QED
  BY <1>1, <1>2, <1>3 DEF Db, PlainDb

\* A database of the history is its own.
LEMMA PlainFacts ==
  ASSUME NEW d \in PlainDb
  PROVE  d \in Db /\ Returnable(d) = d
<1>1. d \in Db /\ d.graves \ Packaged = d.graves
  BY DEF PlainDb
<1>2. d = [items |-> d.items, graves |-> d.graves, mod |-> d.mod, ls |-> d.ls]
  BY <1>1 DEF Db
<1>3. QED
  BY <1>1, <1>2, ReturnableFacts

\* Two databases that differ in such graves only are one to the history.
LEMMA SameReturnable ==
  ASSUME NEW d \in Db, NEW e \in Db, d.items = e.items, d.mod = e.mod, d.ls = e.ls,
         d.graves \ Packaged = e.graves \ Packaged
  PROVE  Returnable(d) = Returnable(e)
  BY ReturnableFacts

\* Writing a row, on either side of Returnable.
LEMMA ReturnableRow ==
  ASSUME NEW d \in Db, NEW i \in Items, NEW e \in Entry \cup {NoItem}
  PROVE  Returnable(SetRow(d, i, e)) = SetRow(Returnable(d), i, e)
<1> DEFINE r == Returnable(d)
           f == SetRow(d, i, e)
           g == SetRow(r, i, e)
<1>1. r \in PlainDb /\ r \in Db /\ r.items = d.items /\ r.graves = d.graves \ Packaged
      /\ r.mod = d.mod /\ r.ls = d.ls
  BY ReturnableFacts
<1> HIDE DEF r
<1>2. /\ f \in Db /\ f.items[i] = e /\ f.graves = d.graves /\ f.mod = d.mod /\ f.ls = d.ls
      /\ \A j \in Items \ {i} : f.items[j] = d.items[j]
  BY RowsOfDb
<1>3. /\ g \in Db /\ g.items[i] = e /\ g.graves = r.graves /\ g.mod = r.mod /\ g.ls = r.ls
      /\ \A j \in Items \ {i} : g.items[j] = r.items[j]
  BY <1>1, RowsOfDb
<1> HIDE DEF f, g
<1>4. f.items = g.items
  BY <1>1, <1>2, <1>3 DEF Db
<1>5. g \in PlainDb
  BY <1>1, <1>3 DEF PlainDb
<1>6. f.graves \ Packaged = g.graves \ Packaged
  BY <1>1, <1>2, <1>3
<1>7. Returnable(f) = Returnable(g) /\ Returnable(g) = g
  BY <1>1, <1>2, <1>3, <1>4, <1>5, <1>6, SameReturnable, PlainFacts
<1>8. QED
  BY <1>7 DEF f, g, r

\* Setting the time stamp, on either side of Returnable.
LEMMA ReturnableStamp ==
  ASSUME NEW d \in Db, NEW t \in 0..MaxClock
  PROVE  Returnable(Stamped(d, t)) = Stamped(Returnable(d), t)
<1> DEFINE r == Returnable(d)
           f == Stamped(d, t)
           g == Stamped(r, t)
<1>1. r \in PlainDb /\ r \in Db /\ r.items = d.items /\ r.graves = d.graves \ Packaged
      /\ r.mod = d.mod /\ r.ls = d.ls
  BY ReturnableFacts
<1> HIDE DEF r
<1>2. f \in Db /\ f.items = d.items /\ f.graves = d.graves /\ f.mod = t /\ f.ls = d.ls
  BY StampOfDb
<1>3. g \in Db /\ g.items = r.items /\ g.graves = r.graves /\ g.mod = t /\ g.ls = r.ls
  BY <1>1, StampOfDb
<1> HIDE DEF f, g
<1>4. g \in PlainDb /\ f.graves \ Packaged = g.graves \ Packaged
  BY <1>1, <1>2, <1>3 DEF PlainDb
<1>5. Returnable(f) = Returnable(g) /\ Returnable(g) = g
  BY <1>1, <1>2, <1>3, <1>4, SameReturnable, PlainFacts
<1>6. QED
  BY <1>5 DEF f, g, r

\* The stamp of a database of the history.
LEMMA StampOfPlain ==
  ASSUME NEW d \in PlainDb, NEW t \in 0..MaxClock
  PROVE  /\ Stamped(d, t) \in PlainDb
         /\ Stamped(d, t).items = d.items /\ Stamped(d, t).graves = d.graves
         /\ Stamped(d, t).mod = t /\ Stamped(d, t).ls = d.ls
         /\ Stamped(Stamped(d, t), d.mod) = d
<1>1. PICK x \in Db : x = d
  BY PlainFacts
<1>2. /\ Stamped(x, t) \in Db
      /\ Stamped(x, t).items = x.items /\ Stamped(x, t).graves = x.graves
      /\ Stamped(x, t).mod = t /\ Stamped(x, t).ls = x.ls
      /\ Stamped(Stamped(x, t), x.mod) = x
  BY StampOfDb
<1>3. x.graves \cap Packaged = {}
  BY <1>1 DEF PlainDb
<1> DEFINE e == Stamped(x, t)
<1>4. e \in Db /\ e.graves = x.graves
  BY <1>2
<1> HIDE DEF e
<1>5. e \in PlainDb
  BY <1>3, <1>4 DEF PlainDb
<1>6. QED
  BY <1>1, <1>2, <1>5 DEF e

\* Reverting a change, on either side of Returnable.
LEMMA BackIsRevert ==
  ASSUME NEW d \in Db, NEW c \in Change
  PROVE  /\ Revert(d, c) \in Db
         /\ Returnable(Revert(d, c)) = Back(Returnable(d), c)
         /\ Inverted(Returnable(d), c) = Inverted(d, c)
         /\ CanRevert(Returnable(d), c) <=> CanRevert(d, c)
<1> DEFINE r == Returnable(d)
<1>1. r \in PlainDb /\ r \in Db /\ r.items = d.items /\ r.graves = d.graves \ Packaged
      /\ r.mod = d.mod /\ r.ls = d.ls
  BY ReturnableFacts
<1>2. Inverted(r, c) = Inverted(d, c) /\ (CanRevert(r, c) <=> CanRevert(d, c))
  <2> HIDE DEF r
  <2>1. QED
    BY ONLY <1>1 DEF Inverted, CanRevert
<1>3. ASSUME NEW i \in Items, NEW e \in Entry \cup {NoItem},
             \A x : Revert(x, c) = SetRow(x, i, e)
      PROVE  Revert(d, c) \in Db /\ Returnable(Revert(d, c)) = Back(r, c)
  <2>1. SetRow(d, i, e) \in Db /\ Returnable(SetRow(d, i, e)) = SetRow(r, i, e)
    BY RowsOfDb, ReturnableRow
  <2> HIDE DEF r
  <2>2. Returnable(SetRow(r, i, e)) = SetRow(Returnable(r), i, e) /\ Returnable(r) = r
    BY <1>1, ReturnableRow, PlainFacts
  <2>3. QED
    BY <1>3, <2>1, <2>2 DEF Back
<1>4. ASSUME NEW i \in Items, \A x : Revert(x, c) = AddGrave(x, i)
      PROVE  Revert(d, c) \in Db /\ Returnable(Revert(d, c)) = Back(r, c)
  <2> HIDE DEF r
  <2> DEFINE f == AddGrave(d, i)
             g == AddGrave(r, i)
  <2>1. /\ f \in Db /\ f.items = d.items /\ f.graves = d.graves \cup {i} /\ f.mod = d.mod /\ f.ls = d.ls
        /\ g \in Db /\ g.items = r.items /\ g.graves = r.graves \cup {i} /\ g.mod = r.mod /\ g.ls = r.ls
    BY <1>1, GravesOfDb
  <2> HIDE DEF f, g
  <2>2. f.graves \ Packaged = g.graves \ Packaged
    BY <1>1, <2>1
  <2>3. Returnable(f) = Returnable(g)
    BY <1>1, <2>1, <2>2, SameReturnable
  <2>4. QED
    BY <1>4, <2>1, <2>3 DEF Back, f, g
<1>5. ASSUME NEW i \in Items, \A x : Revert(x, c) = RemoveGrave(x, i)
      PROVE  Revert(d, c) \in Db /\ Returnable(Revert(d, c)) = Back(r, c)
  <2> HIDE DEF r
  <2> DEFINE f == RemoveGrave(d, i)
             g == RemoveGrave(r, i)
  <2>1. /\ f \in Db /\ f.items = d.items /\ f.graves = d.graves \ {i} /\ f.mod = d.mod /\ f.ls = d.ls
        /\ g \in Db /\ g.items = r.items /\ g.graves = r.graves \ {i} /\ g.mod = r.mod /\ g.ls = r.ls
    BY <1>1, GravesOfDb
  <2> HIDE DEF f, g
  <2>2. f.graves \ Packaged = g.graves \ Packaged
    BY <1>1, <2>1
  <2>3. Returnable(f) = Returnable(g)
    BY <1>1, <2>1, <2>2, SameReturnable
  <2>4. QED
    BY <1>5, <2>1, <2>3 DEF Back, f, g
<1>6. ASSUME NEW t \in 0..MaxClock, \A x : Revert(x, c) = Stamped(x, t)
      PROVE  Revert(d, c) \in Db /\ Returnable(Revert(d, c)) = Back(r, c)
  <2>1. Stamped(d, t) \in Db /\ Returnable(Stamped(d, t)) = Stamped(r, t)
    BY StampOfDb, ReturnableStamp
  <2> HIDE DEF r
  <2>2. Returnable(Stamped(r, t)) = Stamped(Returnable(r), t) /\ Returnable(r) = r
    BY <1>1, ReturnableStamp, PlainFacts
  <2>3. QED
    BY <1>6, <2>1, <2>2 DEF Back
<1> HIDE DEF r
<1>7. Revert(d, c) \in Db /\ Returnable(Revert(d, c)) = Back(r, c)
  <2>1. CASE c.kind = "Added" /\ c.item \in Items
    <3>1. \A x : Revert(x, c) = SetRow(x, c.item, NoItem)
      BY <2>1 DEF Revert
    <3>2. QED
      BY <1>3, <2>1, <3>1
  <2>2. CASE c.kind \in {"Updated", "Removed"} /\ c.item \in Items /\ c.old \in Entry
    <3>1. \A x : Revert(x, c) = SetRow(x, c.item, c.old)
      BY <2>2 DEF Revert
    <3>2. QED
      BY <1>3, <2>2, <3>1
  <2>3. CASE c.kind = "GraveAdded" /\ c.item \in Items
    <3>1. \A x : Revert(x, c) = RemoveGrave(x, c.item)
      BY <2>3 DEF Revert
    <3>2. QED
      BY <1>5, <2>3, <3>1
  <2>4. CASE c.kind = "GraveRemoved" /\ c.item \in Items
    <3>1. \A x : Revert(x, c) = AddGrave(x, c.item)
      BY <2>4 DEF Revert
    <3>2. QED
      BY <1>4, <2>4, <3>1
  <2>5. CASE c.kind = "Modified" /\ c.old \in 0..MaxClock
    <3>1. \A x : Revert(x, c) = Stamped(x, c.old)
      BY <2>5 DEF Stamped, Revert
    <3>2. QED
      BY <1>6, <2>5, <3>1
  <2>6. QED
    BY <2>1, <2>2, <2>3, <2>4, <2>5, ChangeKinds
<1>8. QED
  BY <1>2, <1>7 DEF r

\* The grave of a packaged id comes and goes without the history.
LEMMA GraveIsLost ==
  ASSUME NEW d \in PlainDb, NEW c \in Change, LosesGrave(c)
  PROVE  Back(d, c) = d
<1>1. d \in Db /\ Returnable(d) = d
  BY PlainFacts
<1>2. c.kind \in {"GraveAdded", "GraveRemoved"} /\ c.item \in Packaged /\ c.item \in Items
  BY PackagedAssumption DEF LosesGrave
<1> DEFINE a == AddGrave(d, c.item)
           g == RemoveGrave(d, c.item)
<1>3. /\ a \in Db /\ a.items = d.items /\ a.graves = d.graves \cup {c.item} /\ a.mod = d.mod /\ a.ls = d.ls
      /\ g \in Db /\ g.items = d.items /\ g.graves = d.graves \ {c.item} /\ g.mod = d.mod /\ g.ls = d.ls
  BY <1>1, <1>2, GravesOfDb
<1>4. Revert(d, c) \in {a, g}
  BY <1>2 DEF Revert
<1> HIDE DEF a, g
<1>5. a.graves \ Packaged = d.graves \ Packaged /\ g.graves \ Packaged = d.graves \ Packaged
  BY <1>2, <1>3
<1>6. Returnable(a) = Returnable(d) /\ Returnable(g) = Returnable(d)
  BY <1>1, <1>3, <1>5, SameReturnable
<1>7. QED
  BY <1>1, <1>4, <1>6 DEF Back

\* Reverting a change that fits leads to a database of the history, and the inverse
\* record leads back.
LEMMA RevertFits ==
  ASSUME NEW d \in PlainDb, NEW c \in Change, Fits(d, c)
  PROVE  /\ Back(d, c) \in PlainDb /\ Back(d, c).ls = d.ls
         /\ Inverted(d, c) \in Change
         /\ Fits(Back(d, c), Inverted(d, c))
         /\ Back(Back(d, c), Inverted(d, c)) = d
         /\ CanRevert(d, c)
         /\ c.kind = "Modified" => Inverted(d, c).kind = "Modified"
<1>1. d \in Db /\ Returnable(d) = d
  BY PlainFacts
<1>2. CASE LosesGrave(c)
  <2>1. Back(d, c) = d
    BY <1>2, GraveIsLost
  <2>2. c.kind \in {"GraveAdded", "GraveRemoved"} /\ c.item \in Packaged /\ c.item \in Items
    BY <1>2, PackagedAssumption DEF LosesGrave
  <2> DEFINE inv == Inverted(d, c)
  <2>3. inv \in {Grave("GraveAdded", c.item), Grave("GraveRemoved", c.item)}
    BY <2>2 DEF Inverted
  <2> HIDE DEF inv
  <2>4. inv \in Change /\ LosesGrave(inv) /\ inv.kind \in {"GraveAdded", "GraveRemoved"} /\ inv.item \in Packaged
    <3>1. CASE inv = Grave("GraveAdded", c.item)
      <4>1. inv \in Change
        BY <2>2, <3>1, NewChanges
      <4>2. inv.kind = "GraveAdded" /\ inv.item = c.item
        BY <3>1 DEF Grave
      <4>3. QED
        BY <2>2, <4>1, <4>2 DEF LosesGrave
    <3>2. CASE inv = Grave("GraveRemoved", c.item)
      <4>1. inv \in Change
        BY <2>2, <3>2, NewChanges
      <4>2. inv.kind = "GraveRemoved" /\ inv.item = c.item
        BY <3>2 DEF Grave
      <4>3. QED
        BY <2>2, <4>1, <4>2 DEF LosesGrave
    <3>3. QED
      BY <2>3, <3>1, <3>2
  <2>5. Back(d, inv) = d
    BY <2>4, GraveIsLost
  <2>6. Fits(d, inv)
    BY <2>4 DEF Fits
  <2>7. CanRevert(d, c) /\ c.kind # "Modified"
    BY <2>2 DEF CanRevert
  <2>8. QED
    BY <2>1, <2>4, <2>5, <2>6, <2>7 DEF inv
<1>3. CASE ~LosesGrave(c)
  <2> DEFINE e == Revert(d, c)
             inv == Inverted(d, c)
  <2>1. /\ e \in Db /\ e.ls = d.ls /\ inv \in Change /\ Fits(e, inv) /\ Revert(e, inv) = d
        /\ CanRevert(d, c) /\ (c.kind = "Modified" => inv.kind = "Modified")
    BY <1>1, <1>3, ExactRevert
  <2>2. e.graves \cap Packaged = {}
    <3>1. d.graves \cap Packaged = {} /\ d.graves \subseteq Items
      BY DEF PlainDb, Db
    <3>2. CASE c.kind = "GraveAdded" /\ c.item \in Items
      <4>1. e.graves = d.graves \ {c.item}
        BY <1>1, <3>2, GravesOfDb DEF Revert
      <4>2. QED
        BY <3>1, <4>1
    <3>3. CASE c.kind = "GraveRemoved" /\ c.item \in Items
      <4>1. e.graves = d.graves \cup {c.item} /\ c.item \notin Packaged
        BY <1>1, <1>3, <3>3, GravesOfDb DEF Revert, LosesGrave
      <4>2. QED
        BY <3>1, <4>1
    <3>4. CASE c.kind = "Added" /\ c.item \in Items
      <4>1. e.graves = d.graves
        BY <1>1, <3>4, RowsOfDb DEF Revert
      <4>2. QED
        BY <3>1, <4>1
    <3>5. CASE c.kind \in {"Updated", "Removed"} /\ c.item \in Items /\ c.old \in Entry
      <4>1. e = SetRow(d, c.item, c.old)
        BY <3>5 DEF Revert
      <4>2. e.graves = d.graves
        <5> HIDE DEF e
        <5>1. QED
          BY <1>1, <3>5, <4>1, RowsOfDb
      <4>3. QED
        BY <3>1, <4>2
    <3>6. CASE c.kind = "Modified" /\ c.old \in 0..MaxClock
      <4>1. e = Stamped(d, c.old)
        BY <3>6 DEF Stamped, Revert
      <4>2. e.graves = d.graves
        <5> HIDE DEF e
        <5>1. QED
          BY <1>1, <3>6, <4>1, StampOfDb
      <4>3. QED
        BY <3>1, <4>2
    <3>7. QED
      BY <3>2, <3>3, <3>4, <3>5, <3>6, ChangeKinds
  <2> HIDE DEF e, inv
  <2>3. e \in PlainDb
    BY <2>1, <2>2 DEF PlainDb
  <2>4. Returnable(e) = e
    BY <2>3, PlainFacts
  <2>5. Back(d, c) = e /\ Back(e, inv) = d
    BY <1>1, <2>1, <2>4 DEF Back, e
  <2>6. QED
    BY <2>1, <2>3, <2>5 DEF inv
<1>4. QED
  BY <1>2, <1>3

-----------------------------------------------------------------------------
(* Reversed sequences.                                                      *)

\* An interval from 1 has one end.
LEMMA IntervalEnd ==
  ASSUME NEW m \in Nat, NEW n \in Nat, 1..m = 1..n
  PROVE  m = n
<1>1. m \in 1..m \/ m = 0
  OBVIOUS
<1>2. n \in 1..n \/ n = 0
  OBVIOUS
<1>3. QED
  BY <1>1, <1>2

\* A reversed sequence has the same elements, counted from the end.
LEMMA ReverseFacts ==
  ASSUME NEW S, NEW s \in Seq(S)
  PROVE  /\ Reverse(s) \in Seq(S) /\ Len(Reverse(s)) = Len(s)
         /\ \A i \in 1..Len(s) : Reverse(s)[i] = s[Len(s) - i + 1]
<1>1. Len(s) \in Nat /\ s \in [1..Len(s) -> S]
  BY LenProperties
<1>2. Reverse(s) = [i \in 1..Len(s) |-> s[(Len(s) - i) + 1]]
  BY DEF Reverse
<1>3. \A i \in 1..Len(s) : (Len(s) - i) + 1 \in 1..Len(s)
  BY <1>1
<1>4. Reverse(s) \in [1..Len(s) -> S]
  BY <1>1, <1>2, <1>3
<1>5. Reverse(s) \in Seq(S)
  BY <1>1, <1>4, SeqDef
<1>6. Len(Reverse(s)) = Len(s)
  <2>1. DOMAIN Reverse(s) = 1..Len(Reverse(s)) /\ DOMAIN Reverse(s) = 1..Len(s)
        /\ Len(Reverse(s)) \in Nat
    BY <1>2, <1>5, LenProperties
  <2>2. QED
    BY <1>1, <2>1, IntervalEnd
<1>7. QED
  BY <1>2, <1>5, <1>6

\* Reversing a concatenation swaps its parts.
LEMMA ReverseConcat ==
  ASSUME NEW S, NEW s \in Seq(S), NEW t \in Seq(S)
  PROVE  Reverse(s \o t) = Reverse(t) \o Reverse(s)
<1> DEFINE u == s \o t
           a == Reverse(t)
           b == Reverse(s)
<1>1. Len(s) \in Nat /\ Len(t) \in Nat
  BY LenProperties
<1>2. /\ u \in Seq(S) /\ Len(u) = Len(s) + Len(t)
      /\ \A i \in 1..(Len(s) + Len(t)) : u[i] = IF i <= Len(s) THEN s[i] ELSE t[i - Len(s)]
  BY ConcatProperties
<1>3. /\ a \in Seq(S) /\ Len(a) = Len(t) /\ \A i \in 1..Len(t) : a[i] = t[Len(t) - i + 1]
      /\ b \in Seq(S) /\ Len(b) = Len(s) /\ \A i \in 1..Len(s) : b[i] = s[Len(s) - i + 1]
  BY ReverseFacts
<1> HIDE DEF a, b, u
<1>4. /\ a \o b \in Seq(S) /\ Len(a \o b) = Len(t) + Len(s)
      /\ \A i \in 1..(Len(t) + Len(s)) :
           (a \o b)[i] = IF i <= Len(t) THEN a[i] ELSE b[i - Len(t)]
  BY <1>3, ConcatProperties
<1>5. /\ Reverse(u) \in Seq(S) /\ Len(Reverse(u)) = Len(u)
      /\ \A i \in 1..Len(u) : Reverse(u)[i] = u[Len(u) - i + 1]
  BY <1>2, ReverseFacts
<1>6. ASSUME NEW i \in 1..(Len(t) + Len(s))
      PROVE  Reverse(u)[i] = (a \o b)[i]
  <2>1. Reverse(u)[i] = u[Len(s) + Len(t) - i + 1]
    BY <1>1, <1>2, <1>5
  <2>2. CASE i <= Len(t)
    <3>1. Len(s) + Len(t) - i + 1 \in 1..(Len(s) + Len(t))
          /\ ~ (Len(s) + Len(t) - i + 1 <= Len(s))
          /\ (Len(s) + Len(t) - i + 1) - Len(s) = Len(t) - i + 1
      BY <1>1, <2>2
    <3>2. Reverse(u)[i] = t[Len(t) - i + 1]
      BY <1>2, <2>1, <3>1
    <3>3. i \in 1..Len(t)
      BY <1>1, <2>2
    <3>4. QED
      BY <1>3, <1>4, <2>2, <3>2, <3>3
  <2>3. CASE ~ (i <= Len(t))
    <3>1. Len(s) + Len(t) - i + 1 \in 1..(Len(s) + Len(t))
          /\ Len(s) + Len(t) - i + 1 <= Len(s)
          /\ i - Len(t) \in 1..Len(s)
          /\ Len(s) - (i - Len(t)) + 1 = Len(s) + Len(t) - i + 1
      BY <1>1, <2>3
    <3>2. Reverse(u)[i] = s[Len(s) + Len(t) - i + 1]
      BY <1>2, <2>1, <3>1
    <3>3. b[i - Len(t)] = s[Len(s) - (i - Len(t)) + 1]
      BY <1>3, <3>1
    <3>4. QED
      BY <1>4, <2>3, <3>1, <3>2, <3>3
  <2>4. QED
    BY <2>2, <2>3
<1>7. Len(Reverse(u)) = Len(a \o b) /\ Len(a \o b) = Len(t) + Len(s)
  BY <1>1, <1>2, <1>4, <1>5
<1>8. Reverse(u) = a \o b
  BY <1>4, <1>5, <1>6, <1>7, SeqEqual
<1>9. QED
  BY <1>8 DEF u, a, b

\* Sequences too short to change when they are reversed.
LEMMA ReverseSmall ==
  /\ Reverse(<<>>) = <<>>
  /\ \A x : Reverse(<<x>>) = <<x>>
<1>1. Reverse(<<>>) = <<>>
  <2>1. <<>> \in Seq({}) /\ Len(<<>>) = 0
    BY EmptySeq
  <2>2. Reverse(<<>>) \in Seq({}) /\ Len(Reverse(<<>>)) = 0
    BY <2>1, ReverseFacts
  <2>3. QED
    BY <2>2, EmptySeq
<1>2. ASSUME NEW x PROVE Reverse(<<x>>) = <<x>>
  <2> DEFINE s == <<x>>
  <2>1. s \in Seq({x}) /\ Len(s) = 1 /\ s[1] = x
    OBVIOUS
  <2> HIDE DEF s
  <2>2. Reverse(s) \in Seq({x}) /\ Len(Reverse(s)) = 1 /\ Reverse(s)[1] = s[1]
    BY <2>1, ReverseFacts
  <2>3. Reverse(s) = s
    BY <2>1, <2>2, SeqEqual
  <2>4. QED
    BY <2>3 DEF s
<1>3. QED
  BY <1>1, <1>2

\* The last element of a queue comes first in its reverse.
LEMMA ReverseLast ==
  ASSUME NEW S, NEW s \in Seq(S), s # <<>>
  PROVE  /\ Last(s) \in S /\ Front(s) \in Seq(S) /\ Len(Front(s)) = Len(s) - 1
         /\ s = Front(s) \o <<Last(s)>>
         /\ Reverse(s) = <<Last(s)>> \o Reverse(Front(s))
<1>1. Len(s) \in Nat \ {0} /\ s \in [1..Len(s) -> S]
  BY LenProperties, EmptySeq
<1>2. Last(s) \in S
  BY <1>1 DEF Last
<1>3. Front(s) \in Seq(S) /\ Len(Front(s)) = Len(s) - 1
      /\ \A i \in 1..(Len(s) - 1) : Front(s)[i] = s[i]
  <2>1. \A i \in 1..(Len(s) - 1) : s[i] \in S
    BY <1>1
  <2>2. /\ SubSeq(s, 1, Len(s) - 1) \in Seq(S)
        /\ Len(SubSeq(s, 1, Len(s) - 1)) = IF 1 <= Len(s) - 1 THEN Len(s) - 1 - 1 + 1 ELSE 0
        /\ \A i \in 1..(Len(s) - 1 - 1 + 1) : SubSeq(s, 1, Len(s) - 1)[i] = s[1 + i - 1]
    <3>1. 1 \in Int /\ Len(s) - 1 \in Int
      BY <1>1
    <3>2. QED
      BY <2>1, <3>1, SubSeqProperties
  <2> DEFINE f == SubSeq(s, 1, Len(s) - 1)
  <2> HIDE DEF f
  <2>3. f \in Seq(S) /\ Len(f) = Len(s) - 1 /\ \A i \in 1..(Len(s) - 1) : f[i] = s[i]
    BY <1>1, <2>2 DEF f
  <2>4. QED
    BY <2>3 DEF Front, f
<1>4. s = Front(s) \o <<Last(s)>>
  <2> DEFINE f == Front(s)
             l == <<Last(s)>>
  <2>1. l \in Seq(S) /\ Len(l) = 1 /\ l[1] = s[Len(s)]
    BY <1>2 DEF Last
  <2>2. f \in Seq(S) /\ Len(f) = Len(s) - 1 /\ \A i \in 1..(Len(s) - 1) : f[i] = s[i]
    BY <1>3
  <2> HIDE DEF f, l
  <2>3. /\ f \o l \in Seq(S) /\ Len(f \o l) = Len(s)
        /\ \A i \in 1..Len(s) : (f \o l)[i] = IF i <= Len(s) - 1 THEN f[i] ELSE l[i - (Len(s) - 1)]
    <3>1. /\ f \o l \in Seq(S) /\ Len(f \o l) = Len(f) + Len(l)
          /\ \A i \in 1..(Len(f) + Len(l)) :
               (f \o l)[i] = IF i <= Len(f) THEN f[i] ELSE l[i - Len(f)]
      BY <2>1, <2>2, ConcatProperties
    <3>2. Len(f) + Len(l) = Len(s)
      BY <1>1, <2>1, <2>2
    <3>3. QED
      BY <2>2, <3>1, <3>2
  <2>4. ASSUME NEW i \in 1..Len(s) PROVE s[i] = (f \o l)[i]
    <3>1. CASE i <= Len(s) - 1
      BY <1>1, <2>2, <2>3, <3>1
    <3>2. CASE i = Len(s)
      <4>1. ~ (i <= Len(s) - 1) /\ i - (Len(s) - 1) = 1
        BY <1>1, <3>2
      <4>2. QED
        BY <2>1, <2>3, <3>2, <4>1
    <3>3. i <= Len(s) - 1 \/ i = Len(s)
      <4>1. Len(s) \in Nat
        BY <1>1
      <4>2. QED
        BY <4>1
    <3>4. QED
      BY <3>1, <3>2, <3>3
  <2>5. s = f \o l
    BY <2>3, <2>4, SeqEqual
  <2>6. QED
    BY <2>5 DEF f, l
<1>5. Reverse(s) = <<Last(s)>> \o Reverse(Front(s))
  <2> DEFINE f == Front(s)
             l == <<Last(s)>>
  <2>1. l \in Seq(S) /\ f \in Seq(S) /\ s = f \o l
    BY <1>2, <1>3, <1>4
  <2>2. Reverse(l) = l
    BY ReverseSmall
  <2> HIDE DEF f, l
  <2>3. Reverse(s) = l \o Reverse(f)
    BY <2>1, <2>2, ReverseConcat
  <2>4. QED
    BY <2>3 DEF f, l
<1>6. QED
  BY <1>2, <1>3, <1>4, <1>5

-----------------------------------------------------------------------------
(* Replaying a list of changes backwards.                                   *)

\* p: the databases from d to e, each by reverting one change of todo that fits.
IsReplay(p, d, todo, e) ==
  /\ p \in [0..Len(todo) -> PlainDb] /\ p[0] = d /\ p[Len(todo)] = e
  /\ \A n \in 1..Len(todo) : Fits(p[n - 1], todo[n]) /\ p[n] = Back(p[n - 1], todo[n])

Replays(d, todo, e) == todo \in Seq(Change) /\ \E p : IsReplay(p, d, todo, e)

\* Reverting the changes, the last of them first, takes d back to e.
Reverts(d, changes, e) == changes \in Seq(Change) /\ Replays(d, Reverse(changes), e)

\* Changes that replay are changes, between two databases.
LEMMA ReplaysTypes ==
  ASSUME NEW d, NEW todo, NEW e, Replays(d, todo, e)
  PROVE  todo \in Seq(Change) /\ d \in PlainDb /\ e \in PlainDb
<1>1. todo \in Seq(Change) /\ Len(todo) \in Nat
  BY LenProperties DEF Replays
<1>2. PICK p : IsReplay(p, d, todo, e)
  BY DEF Replays
<1>3. QED
  BY <1>1, <1>2 DEF IsReplay

\* Without changes the database stays.
LEMMA ReplaysEmpty ==
  ASSUME NEW d, NEW e
  PROVE  Replays(d, <<>>, e) <=> d \in PlainDb /\ e = d
<1>1. <<>> \in Seq(Change) /\ Len(<<>>) = 0
  BY EmptySeq
<1>2. ASSUME Replays(d, <<>>, e) PROVE d \in PlainDb /\ e = d
  <2>1. PICK p : IsReplay(p, d, <<>>, e)
    BY <1>2 DEF Replays
  <2>2. QED
    BY <1>1, <2>1 DEF IsReplay
<1>3. ASSUME d \in PlainDb, e = d PROVE Replays(d, <<>>, e)
  <2>1. IsReplay([n \in 0..0 |-> d], d, <<>>, e)
    BY <1>1, <1>3 DEF IsReplay
  <2>2. QED
    BY <1>1, <2>1 DEF Replays
<1>4. QED
  BY <1>2, <1>3

\* One change that fits replays.
LEMMA ReplaysOne ==
  ASSUME NEW d \in PlainDb, NEW c \in Change, Fits(d, c)
  PROVE  Replays(d, <<c>>, Back(d, c))
<1> DEFINE s == <<c>>
           p == [n \in 0..1 |-> IF n = 0 THEN d ELSE Back(d, c)]
<1>1. s \in Seq(Change) /\ Len(s) = 1 /\ s[1] = c
  OBVIOUS
<1>2. Back(d, c) \in PlainDb
  BY RevertFits
<1>3. p \in [0..1 -> PlainDb] /\ p[0] = d /\ p[1] = Back(d, c)
  BY <1>2
<1> HIDE DEF s, p
<1>4. IsReplay(p, d, s, Back(d, c))
  BY <1>1, <1>3 DEF IsReplay
<1>5. QED
  BY <1>1, <1>4 DEF Replays, s

\* Two runs of changes replay one after the other.
LEMMA ReplaysConcat ==
  ASSUME NEW d, NEW a, NEW e, NEW b, NEW f, Replays(d, a, e), Replays(e, b, f)
  PROVE  Replays(d, a \o b, f)
<1>1. a \in Seq(Change) /\ Len(a) \in Nat /\ b \in Seq(Change) /\ Len(b) \in Nat
  BY LenProperties DEF Replays
<1>2. PICK p : IsReplay(p, d, a, e)
  BY DEF Replays
<1>3. PICK q : IsReplay(q, e, b, f)
  BY DEF Replays
<1> DEFINE s == a \o b
           r == [n \in 0..(Len(a) + Len(b)) |-> IF n <= Len(a) THEN p[n] ELSE q[n - Len(a)]]
<1>4. /\ s \in Seq(Change) /\ Len(s) = Len(a) + Len(b)
      /\ \A n \in 1..(Len(a) + Len(b)) : s[n] = IF n <= Len(a) THEN a[n] ELSE b[n - Len(a)]
  BY <1>1, ConcatProperties
<1>5. /\ p \in [0..Len(a) -> PlainDb] /\ p[0] = d /\ p[Len(a)] = e
      /\ \A n \in 1..Len(a) : Fits(p[n - 1], a[n]) /\ p[n] = Back(p[n - 1], a[n])
      /\ q \in [0..Len(b) -> PlainDb] /\ q[0] = e /\ q[Len(b)] = f
      /\ \A n \in 1..Len(b) : Fits(q[n - 1], b[n]) /\ q[n] = Back(q[n - 1], b[n])
  BY <1>2, <1>3 DEF IsReplay
<1>6. r \in [0..(Len(a) + Len(b)) -> PlainDb]
  BY <1>1, <1>5
<1>7. r[0] = d
  BY <1>1, <1>5
<1>8. \A n \in 0..Len(b) : r[Len(a) + n] = q[n]
  <2> SUFFICES ASSUME NEW n \in 0..Len(b) PROVE r[Len(a) + n] = q[n]
    OBVIOUS
  <2>1. CASE n = 0
    BY <1>1, <1>5, <2>1
  <2>2. CASE n # 0
    BY <1>1, <2>2
  <2>3. QED
    BY <2>1, <2>2
<1>9. \A n \in 0..Len(a) : r[n] = p[n]
  BY <1>1
<1> HIDE DEF r, s
<1>10. ASSUME NEW n \in 1..(Len(a) + Len(b))
       PROVE  Fits(r[n - 1], s[n]) /\ r[n] = Back(r[n - 1], s[n])
  <2>1. CASE n <= Len(a)
    <3>1. n \in 1..Len(a) /\ n - 1 \in 0..Len(a) /\ n \in 0..Len(a)
      BY <1>1, <2>1
    <3>2. r[n - 1] = p[n - 1] /\ r[n] = p[n] /\ s[n] = a[n]
      BY <1>4, <1>9, <2>1, <3>1
    <3>3. QED
      BY <1>5, <3>1, <3>2
  <2>2. CASE ~ (n <= Len(a))
    <3> DEFINE k == n - Len(a)
    <3>1. k \in 1..Len(b) /\ k - 1 \in 0..Len(b) /\ k \in 0..Len(b)
          /\ n = Len(a) + k /\ n - 1 = Len(a) + (k - 1)
      BY <1>1, <2>2
    <3>2. s[n] = b[k]
      BY <1>4, <2>2
    <3> HIDE DEF k
    <3>3. r[n - 1] = q[k - 1] /\ r[n] = q[k]
      BY <1>8, <3>1
    <3>4. QED
      BY <1>5, <3>1, <3>2, <3>3
  <2>3. QED
    BY <2>1, <2>2
<1>11. r[Len(a) + Len(b)] = f
  <2>1. Len(b) \in 0..Len(b)
    BY <1>1
  <2>2. QED
    BY <1>5, <1>8, <2>1
<1>12. IsReplay(r, d, s, f)
  BY <1>4, <1>6, <1>7, <1>10, <1>11 DEF IsReplay
<1>13. QED
  BY <1>4, <1>12 DEF Replays, s

\* The next change to revert fits; what is left replays from there.
LEMMA ReplaysNext ==
  ASSUME NEW d, NEW todo, NEW e, Replays(d, todo, e), todo # <<>>
  PROVE  /\ Head(todo) \in Change /\ Fits(d, Head(todo))
         /\ Replays(Back(d, Head(todo)), Tail(todo), e)
<1>1. todo \in Seq(Change)
  BY DEF Replays
<1>2. Len(todo) \in Nat \ {0} /\ todo[1] = Head(todo)
  BY <1>1, EmptySeq
<1>3. PICK p : IsReplay(p, d, todo, e)
  BY DEF Replays
<1> DEFINE t == Tail(todo)
           c == Head(todo)
           q == [n \in 0..(Len(todo) - 1) |-> p[n + 1]]
<1>4. /\ c \in Change /\ t \in Seq(Change) /\ Len(t) = Len(todo) - 1
      /\ \A n \in 1..Len(t) : t[n] = todo[n + 1]
  BY <1>1, HeadTailProperties
<1>5. /\ p \in [0..Len(todo) -> PlainDb] /\ p[0] = d /\ p[Len(todo)] = e
      /\ \A n \in 1..Len(todo) : Fits(p[n - 1], todo[n]) /\ p[n] = Back(p[n - 1], todo[n])
  BY <1>3 DEF IsReplay
<1>6. Fits(d, c) /\ p[1] = Back(d, c)
  <2>1. 1 \in 1..Len(todo) /\ 1 - 1 = 0
    BY <1>2
  <2>2. QED
    BY <1>2, <1>5, <2>1
<1>7. q \in [0..(Len(todo) - 1) -> PlainDb] /\ q[0] = p[1] /\ q[Len(todo) - 1] = e
      /\ \A n \in 0..(Len(todo) - 1) : q[n] = p[n + 1]
  BY <1>2, <1>5
<1> HIDE DEF q, t, c
<1>8. ASSUME NEW n \in 1..Len(t)
      PROVE  Fits(q[n - 1], t[n]) /\ q[n] = Back(q[n - 1], t[n])
  <2>1. n + 1 \in 1..Len(todo) /\ n \in 0..(Len(todo) - 1) /\ n - 1 \in 0..(Len(todo) - 1)
        /\ (n + 1) - 1 = n /\ (n - 1) + 1 = n
    BY <1>2, <1>4
  <2>2. q[n - 1] = p[n] /\ q[n] = p[n + 1] /\ t[n] = todo[n + 1]
    BY <1>4, <1>7, <2>1
  <2>3. Fits(p[(n + 1) - 1], todo[n + 1]) /\ p[n + 1] = Back(p[(n + 1) - 1], todo[n + 1])
    BY <1>5, <2>1
  <2>4. QED
    BY <2>1, <2>2, <2>3
<1>9. IsReplay(q, Back(d, c), t, e)
  BY <1>4, <1>6, <1>7, <1>8 DEF IsReplay
<1>10. QED
  BY <1>4, <1>6, <1>9 DEF Replays, t, c

\* A replay is what the recursive function computes.
LEMMA ReplaysResult ==
  ASSUME NEW d \in Db, NEW todo, NEW e, Replays(Returnable(d), todo, e)
  PROVE  /\ Reverting(d, todo)[Len(todo)] \in Db
         /\ Returnable(Reverting(d, todo)[Len(todo)]) = e
<1>1. Len(todo) \in Nat /\ todo \in Seq(Change) /\ \A n \in 1..Len(todo) : todo[n] \in Change
  BY LenProperties, ElementOfSeq DEF Replays
<1>2. PICK p : IsReplay(p, Returnable(d), todo, e)
  BY DEF Replays
<1> DEFINE r == Reverting(d, todo)
           S == {n \in Nat : n <= Len(todo) => r[n] \in Db /\ Returnable(r[n]) = p[n]}
<1>3. r[0] = d /\ \A n \in 1..Len(todo) : r[n] = Revert(r[n - 1], todo[n])
  BY <1>1, RevertingDef
<1>4. /\ p[0] = Returnable(d) /\ p[Len(todo)] = e
      /\ \A n \in 1..Len(todo) : p[n] = Back(p[n - 1], todo[n])
  BY <1>2 DEF IsReplay
<1> HIDE DEF r
<1>5. 0 \in S
  BY <1>3, <1>4
<1>6. ASSUME NEW n \in Nat, n \in S PROVE n + 1 \in S
  <2>1. SUFFICES ASSUME n + 1 <= Len(todo) PROVE r[n + 1] \in Db /\ Returnable(r[n + 1]) = p[n + 1]
    OBVIOUS
  <2>2. n + 1 \in 1..Len(todo) /\ (n + 1) - 1 = n /\ r[n] \in Db /\ Returnable(r[n]) = p[n]
    BY <1>1, <1>6, <2>1
  <2> DEFINE x == r[n]
             c == todo[n + 1]
  <2>3. x \in Db /\ c \in Change /\ r[n + 1] = Revert(x, c) /\ p[n + 1] = Back(Returnable(x), c)
    BY <1>1, <1>3, <1>4, <2>2
  <2> HIDE DEF x, c
  <2>4. Revert(x, c) \in Db /\ Returnable(Revert(x, c)) = Back(Returnable(x), c)
    BY <2>3, BackIsRevert
  <2>5. QED
    BY <2>3, <2>4
<1>7. \A n \in Nat : n \in S
  <2> HIDE DEF S
  <2>1. QED
    BY <1>5, <1>6, SetInduction
<1>8. r[Len(todo)] \in Db /\ Returnable(r[Len(todo)]) = p[Len(todo)]
  BY <1>1, <1>7
<1>9. QED
  BY <1>4, <1>8 DEF r

\* What reverts is a sequence of changes, between two databases.
LEMMA RevertsTypes ==
  ASSUME NEW d, NEW changes, NEW e, Reverts(d, changes, e)
  PROVE  changes \in Seq(Change) /\ d \in PlainDb /\ e \in PlainDb
  BY ReplaysTypes DEF Reverts

\* A step without changes leads nowhere else.
LEMMA RevertsEmpty ==
  ASSUME NEW d, NEW e
  PROVE  Reverts(d, <<>>, e) <=> d \in PlainDb /\ e = d
  BY ReplaysEmpty, ReverseSmall, EmptySeq DEF Reverts

\* One change that fits reverts.
LEMMA RevertsOne ==
  ASSUME NEW d \in PlainDb, NEW c \in Change, Fits(d, c)
  PROVE  Reverts(d, <<c>>, Back(d, c))
<1>1. <<c>> \in Seq(Change)
  OBVIOUS
<1>2. Replays(d, <<c>>, Back(d, c)) /\ Reverse(<<c>>) = <<c>>
  BY ReplaysOne, ReverseSmall
<1>3. QED
  BY <1>1, <1>2 DEF Reverts

\* Nothing is lost on the way back to a database of the history.
LEMMA RevertsExactly ==
  ASSUME NEW d \in PlainDb, NEW c \in Change, Fits(d, c), NEW e \in PlainDb, Revert(d, c) = e
  PROVE  Reverts(d, <<c>>, e)
<1>1. Back(d, c) = e
  BY PlainFacts DEF Back
<1>2. QED
  BY <1>1, RevertsOne

\* What was done later is reverted first.
LEMMA RevertsConcat ==
  ASSUME NEW d, NEW older, NEW e, NEW newer, NEW f, Reverts(d, newer, e), Reverts(e, older, f)
  PROVE  Reverts(d, older \o newer, f)
<1>1. older \in Seq(Change) /\ newer \in Seq(Change)
  BY DEF Reverts
<1>2. older \o newer \in Seq(Change) /\ Reverse(older \o newer) = Reverse(newer) \o Reverse(older)
  BY <1>1, ConcatProperties, ReverseConcat
<1>3. Replays(d, Reverse(newer) \o Reverse(older), f)
  BY ReplaysConcat DEF Reverts
<1>4. QED
  BY <1>2, <1>3 DEF Reverts

\* The database a step goes back to, as the history sees it.
Return(d, step) == Returnable(Rewind(d, step))

\* Rewind computes the database a step goes back to.
LEMMA RevertsRewind ==
  ASSUME NEW d \in Db, NEW step, NEW e, Reverts(Returnable(d), step.changes, e)
  PROVE  Rewind(d, step) \in Db /\ Return(d, step) = e
<1> DEFINE todo == Reverse(step.changes)
<1>1. Replays(Returnable(d), todo, e) /\ Len(todo) = Len(step.changes)
  BY ReverseFacts DEF Reverts
<1>2. Reverting(d, todo)[Len(todo)] \in Db /\ Returnable(Reverting(d, todo)[Len(todo)]) = e
  BY <1>1, ReplaysResult
<1>3. QED
  BY <1>1, <1>2 DEF Rewind, Return

\* The same from a database of the history.
LEMMA RevertsReturn ==
  ASSUME NEW d, NEW step, NEW e, Reverts(d, step.changes, e)
  PROVE  Return(d, step) = e
<1>1. d \in PlainDb
  BY RevertsTypes
<1>2. d \in Db /\ Returnable(d) = d
  BY <1>1, PlainFacts
<1>3. QED
  BY <1>2, RevertsRewind

-----------------------------------------------------------------------------
(* The states a queue of steps leads back to.                               *)

\* The database that step n is reverted in.
Before(d, past, n) == IF n = 1 THEN d ELSE past[n - 1]

\* past[n] is where reverting the first n steps, one after the other, leads.
Reaches(d, steps, past) ==
  /\ steps \in Seq(Step) /\ past \in Seq(PlainDb) /\ Len(past) = Len(steps)
  /\ \A n \in 1..Len(steps) : Reverts(Before(d, past, n), steps[n].changes, past[n])

\* A queue leads to as many databases as it has steps.
LEMMA ReachesTypes ==
  ASSUME NEW d, NEW steps, NEW past, Reaches(d, steps, past)
  PROVE  /\ steps \in Seq(Step) /\ past \in Seq(PlainDb)
         /\ Len(steps) \in Nat /\ Len(past) = Len(steps)
         /\ DOMAIN steps = 1..Len(steps) /\ DOMAIN past = 1..Len(steps)
         /\ past \in [1..Len(steps) -> PlainDb]
  BY LenProperties DEF Reaches

\* The databases a queue leads to, as the history sees them.
ReturnAll(d, steps) == AllReturnable(RewindAll(d, steps))

\* RewindAll computes them.
LEMMA ReachesResult ==
  ASSUME NEW d \in Db, NEW steps, NEW past, Reaches(Returnable(d), steps, past)
  PROVE  ReturnAll(d, steps) = past
<1> DEFINE N == Len(steps)
           q == Returnable(d)
           r == Rewinding(d, steps)
           S == {n \in Nat : n <= N => /\ r[n] \in Db
                                       /\ Returnable(r[n]) = (IF n = 0 THEN q ELSE past[n])}
<1>1. N \in Nat /\ past \in [1..N -> PlainDb]
  BY ReachesTypes
<1>2. r[0] = d /\ \A n \in 1..N : r[n] = Rewind(r[n - 1], steps[n])
  BY <1>1, RewindingDef
<1>3. \A n \in 1..N : Reverts(Before(q, past, n), steps[n].changes, past[n])
  BY DEF Reaches
<1> HIDE DEF N, q, r
<1>4. 0 \in S
  BY <1>2 DEF q
<1>5. ASSUME NEW n \in Nat, n \in S PROVE n + 1 \in S
  <2>1. SUFFICES ASSUME n + 1 <= N
                 PROVE  r[n + 1] \in Db /\ Returnable(r[n + 1]) = past[n + 1]
    OBVIOUS
  <2>2. n + 1 \in 1..N /\ (n + 1) - 1 = n /\ (n + 1 = 1 <=> n = 0)
    BY <1>1, <2>1
  <2>3. r[n] \in Db /\ Returnable(r[n]) = Before(q, past, n + 1)
    <3>1. n <= N
      BY <1>1, <2>1
    <3>2. QED
      BY <1>5, <2>2, <3>1 DEF Before
  <2>4. r[n + 1] = Rewind(r[n], steps[n + 1])
    BY <1>2, <2>2
  <2> DEFINE x == r[n]
             step == steps[n + 1]
  <2>5. x \in Db /\ Reverts(Returnable(x), step.changes, past[n + 1]) /\ r[n + 1] = Rewind(x, step)
    BY <1>3, <2>2, <2>3, <2>4
  <2> HIDE DEF x, step
  <2>6. Rewind(x, step) \in Db /\ Return(x, step) = past[n + 1]
    BY <2>5, RevertsRewind
  <2>7. QED
    BY <2>5, <2>6 DEF Return
<1>6. \A n \in Nat : n \in S
  <2> HIDE DEF S
  <2>1. QED
    BY <1>4, <1>5, SetInduction
<1>7. \A n \in 1..N : Returnable(r[n]) = past[n]
  <2> SUFFICES ASSUME NEW n \in 1..N PROVE Returnable(r[n]) = past[n]
    OBVIOUS
  <2>1. n \in Nat /\ n <= N /\ n # 0
    BY <1>1
  <2>2. QED
    BY <1>6, <2>1
<1>8. RewindAll(d, steps) = [n \in 1..N |-> r[n]]
  BY DEF RewindAll, N, r
<1>9. AllReturnable([n \in 1..N |-> r[n]]) = [n \in 1..N |-> Returnable(r[n])]
  BY DEF AllReturnable
<1>10. [n \in 1..N |-> Returnable(r[n])] = past
  BY <1>1, <1>7
<1>11. QED
  BY <1>8, <1>9, <1>10 DEF ReturnAll

\* The same from a database of the history.
LEMMA PlainReaches ==
  ASSUME NEW d \in PlainDb, NEW steps, NEW past, Reaches(d, steps, past)
  PROVE  ReturnAll(d, steps) = past
<1>1. d \in Db /\ Returnable(d) = d
  BY PlainFacts
<1>2. QED
  BY <1>1, ReachesResult

\* An empty queue leads nowhere.
LEMMA ReachesEmpty ==
  ASSUME NEW d
  PROVE  Reaches(d, <<>>, <<>>)
  BY EmptySeq DEF Reaches

\* RewindAll of an empty queue is empty.
LEMMA NoStepsNoStates ==
  ASSUME NEW d
  PROVE  ReturnAll(d, <<>>) = <<>>
<1>1. RewindAll(d, <<>>) = [n \in {} |-> Rewinding(d, <<>>)[n]]
  BY EmptySeq DEF RewindAll
<1>2. RewindAll(d, <<>>) = <<>>
  BY <1>1
<1>3. AllReturnable(<<>>) = <<>>
  BY DEF AllReturnable
<1>4. QED
  BY <1>2, <1>3 DEF ReturnAll

\* One more step in front leads to d first.
LEMMA ReachesCons ==
  ASSUME NEW d, NEW steps, NEW past, Reaches(d, steps, past),
         NEW e, NEW step \in Step, Reverts(e, step.changes, d)
  PROVE  Reaches(e, <<step>> \o steps, <<d>> \o past)
<1> DEFINE s == <<step>> \o steps
           p == <<d>> \o past
           N == Len(steps)
<1>1. /\ N \in Nat /\ Len(past) = N /\ steps \in Seq(Step) /\ past \in Seq(PlainDb)
      /\ \A n \in 1..N : Reverts(Before(d, past, n), steps[n].changes, past[n])
  BY ReachesTypes DEF Reaches
<1>2. d \in PlainDb
  BY RevertsTypes
<1>3. <<step>> \in Seq(Step) /\ Len(<<step>>) = 1 /\ <<step>>[1] = step
  OBVIOUS
<1>4. <<d>> \in Seq(PlainDb) /\ Len(<<d>>) = 1 /\ <<d>>[1] = d
  BY <1>2
<1>5. /\ s \in Seq(Step) /\ Len(s) = 1 + N
      /\ \A n \in 1..(1 + N) : s[n] = IF n <= 1 THEN <<step>>[n] ELSE steps[n - 1]
  BY <1>1, <1>3, ConcatProperties
<1>6. /\ p \in Seq(PlainDb) /\ Len(p) = 1 + N
      /\ \A n \in 1..(1 + N) : p[n] = IF n <= 1 THEN <<d>>[n] ELSE past[n - 1]
  BY <1>1, <1>4, ConcatProperties
<1> HIDE DEF s, p, N
<1>7. ASSUME NEW n \in 1..(1 + N)
      PROVE  Reverts(Before(e, p, n), s[n].changes, p[n])
  <2>1. CASE n = 1
    <3>1. s[n] = step /\ p[n] = d /\ Before(e, p, n) = e
      BY <1>1, <1>3, <1>4, <1>5, <1>6, <2>1 DEF Before
    <3>2. QED
      BY <3>1
  <2>2. CASE n \in 2..(1 + N)
    <3>1. /\ n - 1 \in 1..N /\ ~ (n <= 1) /\ n # 1
          /\ n - 1 \in 1..(1 + N)
      BY <1>1, <2>2
    <3>2. s[n] = steps[n - 1] /\ p[n] = past[n - 1]
      BY <1>5, <1>6, <3>1
    <3>3. Before(e, p, n) = Before(d, past, n - 1)
      <4>1. Before(e, p, n) = p[n - 1]
        BY <3>1 DEF Before
      <4>2. CASE n = 2
        <5>1. n - 1 = 1 /\ 1 \in 1..(1 + N) /\ 1 <= 1
          BY <1>1, <4>2
        <5>2. p[1] = d
          BY <1>4, <1>6, <5>1
        <5>3. QED
          BY <4>1, <5>1, <5>2 DEF Before
      <4>3. CASE n # 2
        <5>1. ~ (n - 1 <= 1) /\ n - 1 # 1
          BY <3>1, <4>3
        <5>2. p[n - 1] = past[(n - 1) - 1]
          BY <1>6, <3>1, <5>1
        <5>3. QED
          BY <4>1, <5>1, <5>2 DEF Before
      <4>4. QED
        BY <4>2, <4>3
    <3>4. QED
      BY <1>1, <3>1, <3>2, <3>3
  <2>3. n = 1 \/ n \in 2..(1 + N)
    BY <1>1
  <2>4. QED
    BY <2>1, <2>2, <2>3
<1>8. Reaches(e, s, p)
  BY <1>5, <1>6, <1>7 DEF Reaches
<1>9. QED
  BY <1>8 DEF s, p

\* From any state on the way, the later steps lead to the later states.
LEMMA ReachesSuffix ==
  ASSUME NEW d, NEW steps, NEW past, Reaches(d, steps, past), NEW k \in 1..Len(steps)
  PROVE  /\ past[k] \in PlainDb
         /\ Reaches(past[k], SubSeq(steps, k + 1, Len(steps)), SubSeq(past, k + 1, Len(past)))
<1> DEFINE N == Len(steps)
           s == SubSeq(steps, k + 1, N)
           p == SubSeq(past, k + 1, N)
           M == N - k
<1>1. /\ N \in Nat /\ Len(past) = N /\ steps \in Seq(Step) /\ past \in Seq(PlainDb)
      /\ past \in [1..N -> PlainDb] /\ steps \in [1..N -> Step] /\ k \in 1..N
      /\ \A n \in 1..N : Reverts(Before(d, past, n), steps[n].changes, past[n])
  BY ReachesTypes, LenProperties DEF Reaches
<1> HIDE DEF N
<1>2. M \in Nat /\ N - (k + 1) + 1 = M /\ (~(k + 1 <= N) => M = 0)
  <2>1. N \in Nat /\ k \in 1..N
    BY <1>1
  <2>2. QED
    BY <2>1
<1>3. s \in Seq(Step) /\ Len(s) = M /\ \A n \in 1..M : s[n] = steps[k + n]
  <2>1. \A n \in (k + 1)..N : steps[n] \in Step
    BY <1>1
  <2>2. /\ s \in Seq(Step) /\ Len(s) = IF k + 1 <= N THEN N - (k + 1) + 1 ELSE 0
        /\ \A n \in 1..(N - (k + 1) + 1) : s[n] = steps[(k + 1) + n - 1]
    <3>1. k + 1 \in Int /\ N \in Int
      BY <1>1
    <3>2. QED
      BY <2>1, <3>1, SubSeqProperties
  <2> HIDE DEF s, M
  <2>3. \A n \in 1..M : (k + 1) + n - 1 = k + n
    BY <1>1, <1>2
  <2>4. QED
    BY <1>2, <2>2, <2>3
<1>4. p \in Seq(PlainDb) /\ Len(p) = M /\ \A n \in 1..M : p[n] = past[k + n]
  <2>1. \A n \in (k + 1)..N : past[n] \in PlainDb
    BY <1>1
  <2>2. /\ p \in Seq(PlainDb) /\ Len(p) = IF k + 1 <= N THEN N - (k + 1) + 1 ELSE 0
        /\ \A n \in 1..(N - (k + 1) + 1) : p[n] = past[(k + 1) + n - 1]
    <3>1. k + 1 \in Int /\ N \in Int
      BY <1>1
    <3>2. QED
      BY <2>1, <3>1, SubSeqProperties
  <2> HIDE DEF p, M
  <2>3. \A n \in 1..M : (k + 1) + n - 1 = k + n
    BY <1>1, <1>2
  <2>4. QED
    BY <1>2, <2>2, <2>3
<1> HIDE DEF s, p, M
<1>5. ASSUME NEW n \in 1..M
      PROVE  Reverts(Before(past[k], p, n), s[n].changes, p[n])
  <2>1. k + n \in 1..N /\ k + n # 1 /\ (k + n) - 1 = k + (n - 1)
    BY <1>1, <1>2 DEF M
  <2>2. Before(d, past, k + n) = past[k + (n - 1)]
    BY <2>1 DEF Before
  <2>3. Before(past[k], p, n) = past[k + (n - 1)]
    <3>1. CASE n = 1
      <4>1. k + (n - 1) = k
        BY <1>1, <3>1
      <4>2. QED
        BY <3>1, <4>1 DEF Before
    <3>2. CASE n # 1
      <4>1. n - 1 \in 1..M
        BY <1>2, <3>2
      <4>2. QED
        BY <1>4, <3>2, <4>1 DEF Before
    <3>3. QED
      BY <3>1, <3>2
  <2>4. Reverts(Before(d, past, k + n), steps[k + n].changes, past[k + n])
    BY <1>1, <2>1
  <2>5. QED
    BY <1>3, <1>4, <2>2, <2>3, <2>4
<1>6. Reaches(past[k], s, p)
  BY <1>3, <1>4, <1>5 DEF Reaches
<1>7. QED
  BY <1>1, <1>6 DEF s, p, N

\* A queue that is cut at its end still leads where its first steps did.
LEMMA ReachesPrefix ==
  ASSUME NEW d, NEW steps, NEW past, Reaches(d, steps, past), NEW k \in 0..Len(steps)
  PROVE  Reaches(d, SubSeq(steps, 1, k), SubSeq(past, 1, k))
<1> DEFINE N == Len(steps)
           s == SubSeq(steps, 1, k)
           p == SubSeq(past, 1, k)
<1>1. /\ N \in Nat /\ Len(past) = N /\ steps \in Seq(Step) /\ past \in Seq(PlainDb)
      /\ past \in [1..N -> PlainDb] /\ steps \in [1..N -> Step] /\ k \in 0..N
      /\ \A n \in 1..N : Reverts(Before(d, past, n), steps[n].changes, past[n])
  BY ReachesTypes, LenProperties DEF Reaches
<1> HIDE DEF N
<1>2. k \in Int /\ 1 \in Int /\ k - 1 + 1 = k /\ (~(1 <= k) => k = 0)
      /\ \A n \in 1..k : 1 + n - 1 = n
  <2>1. k \in Nat
    BY <1>1
  <2>2. QED
    BY <2>1
<1>3. s \in Seq(Step) /\ Len(s) = k /\ \A n \in 1..k : s[n] = steps[n]
  <2>1. \A n \in 1..k : steps[n] \in Step
    BY <1>1
  <2>2. /\ s \in Seq(Step) /\ Len(s) = IF 1 <= k THEN k - 1 + 1 ELSE 0
        /\ \A n \in 1..(k - 1 + 1) : s[n] = steps[1 + n - 1]
    BY <1>2, <2>1, SubSeqProperties
  <2> HIDE DEF s
  <2>3. QED
    BY <1>2, <2>2
<1>4. p \in Seq(PlainDb) /\ Len(p) = k /\ \A n \in 1..k : p[n] = past[n]
  <2>1. \A n \in 1..k : past[n] \in PlainDb
    BY <1>1
  <2>2. /\ p \in Seq(PlainDb) /\ Len(p) = IF 1 <= k THEN k - 1 + 1 ELSE 0
        /\ \A n \in 1..(k - 1 + 1) : p[n] = past[1 + n - 1]
    BY <1>2, <2>1, SubSeqProperties
  <2> HIDE DEF p
  <2>3. QED
    BY <1>2, <2>2
<1> HIDE DEF s, p
<1>5. ASSUME NEW n \in 1..k PROVE Reverts(Before(d, p, n), s[n].changes, p[n])
  <2>1. n \in 1..N
    BY <1>1
  <2>2. Before(d, p, n) = Before(d, past, n)
    <3>1. CASE n = 1
      BY <3>1 DEF Before
    <3>2. CASE n # 1
      <4>1. n - 1 \in 1..k
        BY <1>1, <3>2
      <4>2. QED
        BY <1>4, <3>2, <4>1 DEF Before
    <3>3. QED
      BY <3>1, <3>2
  <2>3. QED
    BY <1>1, <1>3, <1>4, <2>1, <2>2
<1>6. Reaches(d, s, p)
  BY <1>3, <1>4, <1>5 DEF Reaches
<1>7. QED
  BY <1>6 DEF s, p

-----------------------------------------------------------------------------
(* The inductive invariant.                                                 *)

\* The state as the history sees it.
Now == Returnable(db)
Began == Returnable(trx.saved)
Here == Returnable(Present)
Behind == AllReturnable(Past)
Ahead == AllReturnable(Future)

\* A deleted row is not there, and what the server has not seen carries a stamp
\* later than the last sync, which is not later than t.
Consistent(d) == \A i \in d.graves : d.items[i] = NoItem
Unsent(d) == d.graves # {} \/ \E i \in Items : d.items[i] # NoItem /\ d.items[i].pending
SoundDb(t) == {d \in PlainDb : Consistent(d) /\ d.ls <= t /\ (Unsent(d) => d.mod > d.ls)}

\* commit always ends a step by recording the old stamp, and undoing it, the
\* last change first, makes a step that starts with one.
StartsModified(changes) == changes # <<>> => changes[1].kind = "Modified"
EndsModified(changes) == changes # <<>> => changes[Len(changes)].kind = "Modified"

\* What the queues hold.
UndoSteps == {s \in Step : s.kind # "NoUndo" /\ HasChanges(s) /\ EndsModified(s.changes)}
RedoSteps == {s \in Step : s.kind # "NoUndo" /\ HasChanges(s) /\ StartsModified(s.changes)}

\* Reverting the steps leads from one sound database to the next.
Leads(d, steps, t) ==
  /\ d \in SoundDb(t) /\ ReturnAll(d, steps) \in Seq(SoundDb(t))
  /\ Reaches(d, steps, ReturnAll(d, steps))

\* The fields of an open transaction.
IsTrx ==
  trx = [open |-> TRUE, saved |-> trx.saved, op |-> trx.op, writes |-> trx.writes,
         step |-> trx.step, todo |-> trx.todo]

\* In the closure of transact(): all it did to the database is in the step.
Recording ==
  /\ redo_steps = <<>> /\ trx.todo = <<>> /\ trx.op \in OpKinds
  /\ Consistent(Now) /\ db.ls <= clock
  /\ trx.op = "NoUndo" => current_step = NoStep /\ undo_steps = <<>>
  /\ trx.op # "NoUndo" => /\ current_step \in Step /\ current_step.kind = trx.op
                          /\ Reverts(Now, current_step.changes, Began)

\* In undo_inner(): what is reverted is in the step, what is left still fits.
Replaying ==
  LET done == current_step.changes
  IN  /\ trx.step \in Step /\ trx.step.kind # "NoUndo" /\ HasChanges(trx.step)
      /\ current_step \in Step /\ current_step.kind = trx.step.kind /\ trx.op = trx.step.kind
      /\ Len(done) + Len(trx.todo) = Len(trx.step.changes)
      /\ Reverts(Now, done, Began)
      /\ Replays(Now, trx.todo, Return(Began, trx.step))
      /\ mode = "Undoing" => IF done = <<>> THEN StartsModified(trx.todo) ELSE StartsModified(done)
      /\ mode = "Redoing" => IF trx.todo = <<>> THEN EndsModified(done) ELSE EndsModified(trx.todo)

\* The steps behind Behind and Ahead.
PastSteps == ActiveStep("Undoing") \o undo_steps
FutureSteps == ActiveStep("Redoing") \o Reverse(redo_steps)

\* Both queues lead from the present, and an open transaction is in the step.
HistoryInv ==
  /\ TypeOK
  /\ undo_steps \in Seq(UndoSteps) /\ redo_steps \in Seq(RedoSteps)
  /\ Leads(Here, PastSteps, clock) /\ Leads(Here, FutureSteps, clock)
  /\ \/ trx = NoTrx /\ mode = "NormalOp" /\ current_step = NoStep
     \/ IsTrx /\ mode = "NormalOp" /\ Recording
     \/ IsTrx /\ mode # "NormalOp" /\ Replaying

-----------------------------------------------------------------------------
(* Queues of steps between sound databases.                                 *)

\* A sound database is a database.
LEMMA SoundIsDb ==
  ASSUME NEW t, NEW d \in SoundDb(t)
  PROVE  d \in PlainDb
  BY DEF SoundDb

\* What is sound at a time is sound later.
LEMMA SoundLater ==
  ASSUME NEW t \in Nat
  PROVE  SoundDb(t) \subseteq SoundDb(t + 1)
<1> SUFFICES ASSUME NEW d \in SoundDb(t) PROVE d \in SoundDb(t + 1)
  OBVIOUS
<1>1. d.ls <= t + 1
  BY DEF SoundDb, PlainDb, Db
<1>2. QED
  BY <1>1 DEF SoundDb

\* The types of a queue that leads through sound databases.
LEMMA LeadsTypes ==
  ASSUME NEW d, NEW steps, NEW t, Leads(d, steps, t)
  PROVE  /\ d \in PlainDb /\ d \in SoundDb(t) /\ steps \in Seq(Step)
         /\ ReturnAll(d, steps) \in Seq(SoundDb(t))
         /\ Len(ReturnAll(d, steps)) = Len(steps) /\ Len(steps) \in Nat
  BY SoundIsDb, ReachesTypes DEF Leads

\* Such a queue is known from the databases it reaches.
LEMMA LeadsIntro ==
  ASSUME NEW t, NEW d \in SoundDb(t), NEW steps, NEW past \in Seq(SoundDb(t)),
         Reaches(d, steps, past)
  PROVE  Leads(d, steps, t) /\ ReturnAll(d, steps) = past
  BY SoundIsDb, PlainReaches DEF Leads

\* A queue leads from a database to the same as from what the history sees of it.
LEMMA SeenLeads ==
  ASSUME NEW d \in Db, NEW steps, NEW t, Leads(Returnable(d), steps, t)
  PROVE  ReturnAll(d, steps) = ReturnAll(Returnable(d), steps)
  BY ReachesResult DEF Leads

\* It stays one as time goes on.
LEMMA LeadsLater ==
  ASSUME NEW d, NEW steps, NEW t \in Nat, Leads(d, steps, t)
  PROVE  Leads(d, steps, t + 1)
<1>1. d \in SoundDb(t + 1)
  BY SoundLater DEF Leads
<1>2. ReturnAll(d, steps) \in Seq(SoundDb(t + 1))
  BY SoundLater, SeqMonotonic DEF Leads
<1>3. QED
  BY <1>1, <1>2 DEF Leads

\* An empty queue leads through no database.
LEMMA LeadsEmpty ==
  ASSUME NEW t, NEW d \in SoundDb(t)
  PROVE  Leads(d, <<>>, t) /\ ReturnAll(d, <<>>) = <<>>
  BY ReachesEmpty, EmptySeq, LeadsIntro

\* One more step in front leads to d first.
LEMMA LeadsCons ==
  ASSUME NEW d, NEW steps, NEW t, Leads(d, steps, t), NEW e \in SoundDb(t),
         NEW step \in Step, Reverts(e, step.changes, d)
  PROVE  /\ Leads(e, <<step>> \o steps, t)
         /\ ReturnAll(e, <<step>> \o steps) = <<d>> \o ReturnAll(d, steps)
<1> DEFINE p == ReturnAll(d, steps)
<1>1. d \in SoundDb(t) /\ p \in Seq(SoundDb(t)) /\ Reaches(d, steps, p)
  BY DEF Leads
<1> HIDE DEF p
<1>2. <<d>> \o p \in Seq(SoundDb(t))
  <2>1. <<d>> \in Seq(SoundDb(t))
    BY <1>1
  <2>2. QED
    BY <1>1, <2>1, ConcatProperties
<1>3. Reaches(e, <<step>> \o steps, <<d>> \o p)
  BY <1>1, ReachesCons
<1>4. Leads(e, <<step>> \o steps, t) /\ ReturnAll(e, <<step>> \o steps) = <<d>> \o p
  BY <1>2, <1>3, LeadsIntro
<1>5. QED
  BY <1>4 DEF p

\* From the k-th database on, the steps after the k-th lead as before.
LEMMA LeadsSuffix ==
  ASSUME NEW d, NEW steps, NEW t, Leads(d, steps, t), NEW k \in 1..Len(steps)
  PROVE  LET p == ReturnAll(d, steps)
         IN  /\ p[k] \in SoundDb(t)
             /\ Leads(p[k], SubSeq(steps, k + 1, Len(steps)), t)
             /\ ReturnAll(p[k], SubSeq(steps, k + 1, Len(steps))) = SubSeq(p, k + 1, Len(p))
<1> DEFINE p == ReturnAll(d, steps)
<1>1. p \in Seq(SoundDb(t)) /\ Reaches(d, steps, p)
  BY DEF Leads
<1> HIDE DEF p
<1>2. Len(p) = Len(steps) /\ Len(steps) \in Nat
  BY <1>1, ReachesTypes
<1>3. \A n \in 1..Len(p) : p[n] \in SoundDb(t)
  BY <1>1, ElementOfSeq
<1>4. Reaches(p[k], SubSeq(steps, k + 1, Len(steps)), SubSeq(p, k + 1, Len(p)))
  BY <1>1, ReachesSuffix
<1>5. SubSeq(p, k + 1, Len(p)) \in Seq(SoundDb(t))
  <2>1. k + 1 \in Int /\ Len(p) \in Int /\ \A n \in (k + 1)..Len(p) : p[n] \in SoundDb(t)
    BY <1>2, <1>3
  <2>2. QED
    BY <2>1, SubSeqProperties
<1>6. p[k] \in SoundDb(t)
  BY <1>2, <1>3
<1>7. QED
  BY <1>4, <1>5, <1>6, LeadsIntro DEF p

\* A non-empty sequence is its first element followed by the others.
LEMMA HeadAndTail ==
  ASSUME NEW S, NEW s \in Seq(S), s # <<>>
  PROVE  /\ Len(s) \in Nat \ {0} /\ s[1] \in S /\ Head(s) = s[1]
         /\ Tail(s) \in Seq(S) /\ s = <<s[1]>> \o Tail(s) /\ Tail(s) = SubSeq(s, 2, Len(s))
<1>1. Len(s) \in Nat \ {0}
  BY EmptySeq
<1>2. 1 \in 1..Len(s) /\ Len(s) \in 1..Len(s) /\ 1 + 1 = 2
  BY <1>1
<1>3. SubSeq(s, 1, Len(s)) = <<s[1]>> \o SubSeq(s, 1 + 1, Len(s))
  BY <1>2, SubSeqRecursiveFirst
<1>4. SubSeq(s, 1, Len(s)) = s /\ Tail(s) = SubSeq(s, 2, Len(s))
  BY SubSeqFull, TailIsSubSeq
<1>5. s = <<s[1]>> \o Tail(s)
  BY <1>2, <1>3, <1>4
<1>6. s[1] \in S
  BY <1>2, ElementOfSeq
<1>7. Head(s) = s[1]
  OBVIOUS
<1>8. Tail(s) \in Seq(S)
  BY HeadTailProperties
<1>9. QED
  BY <1>1, <1>4, <1>5, <1>6, <1>7, <1>8

\* A sequence with one more element in front.
LEMMA ConsFacts ==
  ASSUME NEW S, NEW x \in S, NEW s \in Seq(S)
  PROVE  /\ <<x>> \o s \in Seq(S) /\ Len(<<x>> \o s) = 1 + Len(s) /\ (<<x>> \o s)[1] = x
         /\ <<x>> \o s # <<>> /\ Head(<<x>> \o s) = x /\ Tail(<<x>> \o s) = s
<1>1. <<x>> \in Seq(S) /\ Len(<<x>>) = 1 /\ <<x>>[1] = x
  OBVIOUS
<1>2. Len(s) \in Nat
  BY LenProperties
<1> DEFINE u == <<x>> \o s
           one == <<x>>
<1>3. one \in Seq(S) /\ Len(one) = 1 /\ one[1] = x
  BY <1>1
<1> HIDE DEF one
<1>4. /\ u \in Seq(S) /\ Len(u) = 1 + Len(s)
      /\ \A n \in 1..(1 + Len(s)) : u[n] = IF n <= 1 THEN one[n] ELSE s[n - 1]
  BY <1>3, ConcatProperties DEF one
<1> HIDE DEF u
<1>5. u[1] = x /\ u # <<>>
  <2>1. 1 \in 1..(1 + Len(s)) /\ 1 <= 1
    BY <1>2
  <2>2. u[1] = x
    BY <1>3, <1>4, <2>1
  <2>3. Len(u) # 0
    BY <1>2, <1>4
  <2>4. QED
    BY <2>2, <2>3, EmptySeq
<1>6. /\ Tail(u) \in Seq(S) /\ Len(Tail(u)) = Len(u) - 1
      /\ \A n \in 1..Len(Tail(u)) : Tail(u)[n] = u[n + 1]
  BY <1>4, <1>5, HeadTailProperties
<1>7. \A n \in 1..Len(Tail(u)) : Tail(u)[n] = s[n]
  <2> SUFFICES ASSUME NEW n \in 1..Len(Tail(u)) PROVE Tail(u)[n] = s[n]
    OBVIOUS
  <2>1. n + 1 \in 1..(1 + Len(s)) /\ ~ (n + 1 <= 1) /\ (n + 1) - 1 = n
    BY <1>2, <1>4, <1>6
  <2>2. QED
    BY <1>4, <1>6, <2>1
<1>8. Len(Tail(u)) = Len(s)
  BY <1>2, <1>4, <1>6
<1>9. Tail(u) = s
  BY <1>6, <1>7, <1>8, SeqEqual
<1>10. Head(u) = u[1]
  OBVIOUS
<1>11. QED
  BY <1>4, <1>5, <1>9, <1>10 DEF u

\* The first step of a queue leads to a sound database, the others from there.
LEMMA LeadsNext ==
  ASSUME NEW d, NEW steps \in Seq(Step), NEW step \in Step, NEW t,
         Leads(d, <<step>> \o steps, t)
  PROVE  LET e == Return(d, step)
         IN  /\ e \in SoundDb(t) /\ Reverts(d, step.changes, e) /\ Leads(e, steps, t)
             /\ ReturnAll(d, <<step>> \o steps) = <<e>> \o ReturnAll(e, steps)
<1> DEFINE q == <<step>> \o steps
           p == ReturnAll(d, q)
<1>1. q \in Seq(Step) /\ Len(q) = 1 + Len(steps) /\ q[1] = step /\ q # <<>> /\ Tail(q) = steps
  BY ConsFacts
<1>2. Len(steps) \in Nat
  BY LenProperties
<1> HIDE DEF q
<1>3. /\ Reaches(d, q, p) /\ p \in Seq(SoundDb(t)) /\ Len(p) = Len(q)
      /\ Leads(d, q, t)
  BY LeadsTypes DEF Leads, q
<1>4. 1 \in 1..Len(q) /\ 1 + 1 = 2
  BY <1>1, <1>2
<1>5. /\ p[1] \in SoundDb(t)
      /\ Leads(p[1], SubSeq(q, 2, Len(q)), t)
      /\ ReturnAll(p[1], SubSeq(q, 2, Len(q))) = SubSeq(p, 2, Len(p))
  BY <1>3, <1>4, LeadsSuffix
<1> HIDE DEF p
<1>6. SubSeq(q, 2, Len(q)) = steps
  BY <1>1, TailIsSubSeq
<1>7. p = <<p[1]>> \o SubSeq(p, 2, Len(p))
  <2>1. p # <<>>
    <3>1. Len(p) # 0
      BY <1>1, <1>2, <1>3
    <3>2. QED
      BY <3>1, EmptySeq
  <2>2. QED
    BY <1>3, <2>1, HeadAndTail
<1>8. Reverts(d, step.changes, p[1])
  BY <1>1, <1>3, <1>4 DEF Reaches, Before
<1>9. Return(d, step) = p[1]
  BY <1>8, RevertsReturn
<1>10. ReturnAll(d, q) = <<p[1]>> \o ReturnAll(p[1], steps)
  BY <1>5, <1>6, <1>7 DEF p
<1>11. QED
  BY <1>5, <1>6, <1>8, <1>9, <1>10 DEF q

\* end_step() pushes a step, as the history remembers one more state.
LEMMA LeadsPush ==
  ASSUME NEW d, NEW undo, NEW t, Leads(d, undo, t), NEW e \in SoundDb(t),
         NEW step \in Step, Reverts(e, step.changes, d)
  PROVE  /\ Leads(e, PushUndo(step, undo), t)
         /\ ReturnAll(e, PushUndo(step, undo)) = History!Remember(d, ReturnAll(d, undo))
<1> DEFINE p == ReturnAll(d, undo)
           k == IF Len(undo) < UNDO_LIMIT THEN Len(undo) ELSE UNDO_LIMIT - 1
<1>1. /\ Reaches(d, undo, p) /\ p \in Seq(SoundDb(t)) /\ Len(p) = Len(undo)
      /\ Len(undo) \in Nat /\ d \in SoundDb(t)
  BY LeadsTypes DEF Leads
<1> HIDE DEF p
<1>2. k \in 0..Len(undo)
  BY <1>1, UndoLimitAssumption
<1>3. PushUndo(step, undo) = <<step>> \o SubSeq(undo, 1, k)
  BY DEF PushUndo
<1>4. History!Remember(d, p) = <<d>> \o SubSeq(p, 1, k)
  BY <1>1 DEF History!Remember
<1> HIDE DEF k
<1>5. Reaches(d, SubSeq(undo, 1, k), SubSeq(p, 1, k))
  BY <1>1, <1>2, ReachesPrefix
<1>6. SubSeq(p, 1, k) \in Seq(SoundDb(t))
  <2>1. \A n \in 1..Len(p) : p[n] \in SoundDb(t)
    BY <1>1, ElementOfSeq
  <2>2. 1 \in Int /\ k \in Int /\ \A n \in 1..k : p[n] \in SoundDb(t)
    BY <1>1, <1>2, <2>1
  <2>3. QED
    BY <2>2, SubSeqProperties
<1>7. Leads(d, SubSeq(undo, 1, k), t) /\ ReturnAll(d, SubSeq(undo, 1, k)) = SubSeq(p, 1, k)
  BY <1>1, <1>5, <1>6, LeadsIntro
<1>8. /\ Leads(e, <<step>> \o SubSeq(undo, 1, k), t)
      /\ ReturnAll(e, <<step>> \o SubSeq(undo, 1, k)) = <<d>> \o SubSeq(p, 1, k)
  <2> DEFINE rest == SubSeq(undo, 1, k)
             first == SubSeq(p, 1, k)
  <2>1. Leads(d, rest, t) /\ ReturnAll(d, rest) = first
    BY <1>7
  <2> HIDE DEF rest, first
  <2>2. Leads(e, <<step>> \o rest, t) /\ ReturnAll(e, <<step>> \o rest) = <<d>> \o first
    BY <2>1, LeadsCons
  <2>3. QED
    BY <2>2 DEF rest, first
<1>9. QED
  BY <1>3, <1>4, <1>8 DEF p

-----------------------------------------------------------------------------
(* What the invariant says of the state, and how it is established.         *)

\* A step of the abstract specification, or a stutter of it.
HistoryStep == [History!Next]_(History!vars)

\* The steps of the queues are steps.
LEMMA StepSets ==
  UndoSteps \subseteq Step /\ RedoSteps \subseteq Step
  BY DEF UndoSteps, RedoSteps

\* An empty sequence in front of another changes nothing.
LEMMA NoPrefix ==
  ASSUME NEW S, NEW s \in Seq(S)
  PROVE  <<>> \o s = s
  BY ConcatEmptySeq

\* The types the invariant gives.
LEMMA InvTypes ==
  ASSUME HistoryInv
  PROVE  /\ undo_steps \in Seq(UndoSteps) /\ redo_steps \in Seq(RedoSteps)
         /\ undo_steps \in Seq(Step) /\ redo_steps \in Seq(Step)
         /\ Reverse(redo_steps) \in Seq(Step)
         /\ clock \in 0..MaxClock /\ clock \in Nat
         /\ counter \in 0..MaxCounter /\ counter \in Nat
  BY StepSets, ReverseFacts, BoundsAssumption DEF HistoryInv, TypeOK

\* The database, and what the history sees of it.
LEMMA InvDb ==
  ASSUME HistoryInv
  PROVE  /\ db \in Db /\ Now \in PlainDb /\ Now \in Db /\ Returnable(Now) = Now
         /\ Now.items = db.items /\ Now.graves = db.graves \ Packaged
         /\ Now.mod = db.mod /\ Now.ls = db.ls
         /\ InTrx => trx.saved \in Db
         /\ Present \in Db
<1>1. db \in Db /\ (InTrx => trx.saved \in Db)
  BY DEF HistoryInv, TypeOK
<1>2. QED
  BY <1>1, ReturnableFacts, PlainFacts DEF Now, Present

\* The history is what the queues lead to from the present.
LEMMA SeenHistory ==
  ASSUME HistoryInv
  PROVE  Behind = ReturnAll(Here, PastSteps) /\ Ahead = ReturnAll(Here, FutureSteps)
<1>1. Present \in Db /\ Leads(Here, PastSteps, clock) /\ Leads(Here, FutureSteps, clock)
  BY InvDb DEF HistoryInv
<1>2. Behind = ReturnAll(Present, PastSteps) /\ Ahead = ReturnAll(Present, FutureSteps)
  BY DEF Behind, Ahead, Past, Future, PastSteps, FutureSteps, ReturnAll
<1>3. ReturnAll(Present, PastSteps) = ReturnAll(Returnable(Present), PastSteps)
      /\ ReturnAll(Present, FutureSteps) = ReturnAll(Returnable(Present), FutureSteps)
  BY <1>1, SeenLeads DEF Here
<1>4. QED
  BY <1>2, <1>3 DEF Here

\* The same of the next state.
LEMMA SeenAfter ==
  ASSUME NEW s \in Db, Present' = s, NEW t,
         Leads(Returnable(s), PastSteps', t), Leads(Returnable(s), FutureSteps', t)
  PROVE  /\ Here' = Returnable(s)
         /\ Behind' = ReturnAll(Returnable(s), PastSteps')
         /\ Ahead' = ReturnAll(Returnable(s), FutureSteps')
<1>1. Here' = Returnable(s)
  BY DEF Here
<1>2. Behind' = ReturnAll(s, PastSteps') /\ Ahead' = ReturnAll(s, FutureSteps')
  BY DEF Behind, Ahead, Past, Future, PastSteps, FutureSteps, ReturnAll
<1>3. ReturnAll(s, PastSteps') = ReturnAll(Returnable(s), PastSteps')
      /\ ReturnAll(s, FutureSteps') = ReturnAll(Returnable(s), FutureSteps')
  BY SeenLeads
<1>4. QED
  BY <1>1, <1>2, <1>3

\* Between transactions, the queues lead from the database as it is.
LEMMA IdleFacts ==
  ASSUME HistoryInv, ~InTrx
  PROVE  /\ trx = NoTrx /\ mode = "NormalOp" /\ current_step = NoStep
         /\ Here = Now /\ Behind = ReturnAll(Now, undo_steps)
         /\ Ahead = ReturnAll(Now, Reverse(redo_steps))
         /\ Leads(Now, undo_steps, clock) /\ Leads(Now, Reverse(redo_steps), clock)
         /\ Now \in SoundDb(clock)
<1>1. trx = NoTrx /\ mode = "NormalOp" /\ current_step = NoStep
  BY DEF HistoryInv, IsTrx, InTrx
<1>2. Here = Now
  BY DEF Here, Present, Now
<1>3. ActiveStep("Undoing") = <<>> /\ ActiveStep("Redoing") = <<>>
  BY <1>1 DEF ActiveStep
<1>4. <<>> \o undo_steps = undo_steps /\ <<>> \o Reverse(redo_steps) = Reverse(redo_steps)
  BY InvTypes, NoPrefix
<1>5. PastSteps = undo_steps /\ FutureSteps = Reverse(redo_steps)
  BY <1>3, <1>4 DEF PastSteps, FutureSteps
<1>6. Behind = ReturnAll(Now, undo_steps) /\ Ahead = ReturnAll(Now, Reverse(redo_steps))
  BY <1>2, <1>5, SeenHistory
<1>7. Leads(Now, undo_steps, clock) /\ Leads(Now, Reverse(redo_steps), clock)
  BY <1>2, <1>5 DEF HistoryInv
<1>8. QED
  BY <1>1, <1>2, <1>6, <1>7, LeadsTypes

\* In the closure of transact(), they lead from the database it started from.
LEMMA RecordingFacts ==
  ASSUME HistoryInv, InTrx, mode = "NormalOp"
  PROVE  /\ IsTrx /\ Recording /\ redo_steps = <<>>
         /\ Here = Began /\ Behind = ReturnAll(Began, undo_steps) /\ Ahead = <<>>
         /\ Leads(Began, undo_steps, clock) /\ Began \in SoundDb(clock)
<1>1. IsTrx /\ Recording /\ redo_steps = <<>>
  BY DEF HistoryInv, InTrx, NoTrx, Recording
<1>2. Here = Began
  BY DEF Here, Present, Began
<1>3. ActiveStep("Undoing") = <<>> /\ ActiveStep("Redoing") = <<>>
  BY DEF ActiveStep
<1>4. <<>> \o undo_steps = undo_steps /\ <<>> \o Reverse(redo_steps) = <<>>
  BY <1>1, InvTypes, NoPrefix, ReverseSmall
<1>5. PastSteps = undo_steps /\ FutureSteps = <<>>
  BY <1>3, <1>4 DEF PastSteps, FutureSteps
<1>6. Behind = ReturnAll(Began, undo_steps)
  BY <1>2, <1>5, SeenHistory
<1>7. Ahead = <<>>
  BY <1>2, <1>5, SeenHistory, NoStepsNoStates
<1>8. Leads(Began, undo_steps, clock)
  BY <1>2, <1>5 DEF HistoryInv
<1>9. QED
  BY <1>1, <1>2, <1>6, <1>7, <1>8, LeadsTypes

\* While a step is undone it is still the first of the past.
LEMMA UndoingFacts ==
  ASSUME HistoryInv, InTrx, mode = "Undoing"
  PROVE  LET e == Return(Began, trx.step)
         IN  /\ IsTrx /\ Replaying /\ Here = Began /\ Began \in SoundDb(clock)
             /\ e \in SoundDb(clock) /\ Leads(e, undo_steps, clock)
             /\ Leads(Began, Reverse(redo_steps), clock)
             /\ Behind = <<e>> \o ReturnAll(e, undo_steps)
             /\ Ahead = ReturnAll(Began, Reverse(redo_steps))
<1> DEFINE e == Return(Began, trx.step)
<1>1. IsTrx /\ Replaying /\ trx.step \in Step
  BY DEF HistoryInv, InTrx, NoTrx, Replaying
<1>2. Here = Began
  BY DEF Here, Present, Began
<1>3. ActiveStep("Undoing") = <<trx.step>> /\ ActiveStep("Redoing") = <<>>
  BY DEF ActiveStep
<1>4. <<>> \o Reverse(redo_steps) = Reverse(redo_steps)
  BY InvTypes, NoPrefix
<1>5. PastSteps = <<trx.step>> \o undo_steps /\ FutureSteps = Reverse(redo_steps)
  BY <1>3, <1>4 DEF PastSteps, FutureSteps
<1>6. /\ Leads(Began, <<trx.step>> \o undo_steps, clock)
      /\ Leads(Began, Reverse(redo_steps), clock)
  BY <1>2, <1>5 DEF HistoryInv
<1>7. /\ e \in SoundDb(clock) /\ Leads(e, undo_steps, clock)
      /\ ReturnAll(Began, <<trx.step>> \o undo_steps) = <<e>> \o ReturnAll(e, undo_steps)
  <2>1. undo_steps \in Seq(Step)
    BY InvTypes
  <2>2. QED
    BY <1>1, <1>6, <2>1, LeadsNext
<1> HIDE DEF e
<1>8. Behind = <<e>> \o ReturnAll(e, undo_steps)
  BY <1>2, <1>5, <1>7, SeenHistory
<1>9. Ahead = ReturnAll(Began, Reverse(redo_steps))
  BY <1>2, <1>5, SeenHistory
<1>10. Began \in SoundDb(clock)
  BY <1>6, LeadsTypes
<1>11. QED
  BY <1>1, <1>2, <1>6, <1>7, <1>8, <1>9, <1>10 DEF e

\* While a step is redone it is still the first of the future.
LEMMA RedoingFacts ==
  ASSUME HistoryInv, InTrx, mode = "Redoing"
  PROVE  LET e == Return(Began, trx.step)
         IN  /\ IsTrx /\ Replaying /\ Here = Began /\ Began \in SoundDb(clock)
             /\ e \in SoundDb(clock) /\ Leads(e, Reverse(redo_steps), clock)
             /\ Leads(Began, undo_steps, clock)
             /\ Behind = ReturnAll(Began, undo_steps)
             /\ Ahead = <<e>> \o ReturnAll(e, Reverse(redo_steps))
<1> DEFINE e == Return(Began, trx.step)
<1>1. IsTrx /\ Replaying /\ trx.step \in Step
  BY DEF HistoryInv, InTrx, NoTrx, Replaying
<1>2. Here = Began
  BY DEF Here, Present, Began
<1>3. ActiveStep("Undoing") = <<>> /\ ActiveStep("Redoing") = <<trx.step>>
  BY DEF ActiveStep
<1>4. <<>> \o undo_steps = undo_steps
  BY InvTypes, NoPrefix
<1>5. PastSteps = undo_steps /\ FutureSteps = <<trx.step>> \o Reverse(redo_steps)
  BY <1>3, <1>4 DEF PastSteps, FutureSteps
<1>6. /\ Leads(Began, <<trx.step>> \o Reverse(redo_steps), clock)
      /\ Leads(Began, undo_steps, clock)
  BY <1>2, <1>5 DEF HistoryInv
<1>7. /\ e \in SoundDb(clock) /\ Leads(e, Reverse(redo_steps), clock)
      /\ ReturnAll(Began, <<trx.step>> \o Reverse(redo_steps)) =
           <<e>> \o ReturnAll(e, Reverse(redo_steps))
  <2> DEFINE steps == Reverse(redo_steps)
  <2>1. steps \in Seq(Step) /\ Leads(Began, <<trx.step>> \o steps, clock)
    BY <1>6, InvTypes
  <2> HIDE DEF steps
  <2>2. /\ e \in SoundDb(clock) /\ Leads(e, steps, clock)
        /\ ReturnAll(Began, <<trx.step>> \o steps) = <<e>> \o ReturnAll(e, steps)
    BY <1>1, <2>1, LeadsNext
  <2>3. QED
    BY <2>2 DEF steps
<1> HIDE DEF e
<1>8. Ahead = <<e>> \o ReturnAll(e, Reverse(redo_steps))
  BY <1>2, <1>5, <1>7, SeenHistory
<1>9. Behind = ReturnAll(Began, undo_steps)
  BY <1>2, <1>5, SeenHistory
<1>10. Began \in SoundDb(clock)
  BY <1>6, LeadsTypes
<1>11. QED
  BY <1>1, <1>2, <1>6, <1>7, <1>8, <1>9, <1>10 DEF e

\* A state between transactions, with queues that lead from its database.
LEMMA IdleAfter ==
  ASSUME trx' = NoTrx, mode' = "NormalOp", current_step' = NoStep,
         undo_steps' \in Seq(UndoSteps), redo_steps' \in Seq(RedoSteps),
         counter' \in 0..MaxCounter, clock' \in 0..MaxClock, db' \in Db,
         Leads(Now', undo_steps', clock'), Leads(Now', Reverse(redo_steps'), clock')
  PROVE  /\ HistoryInv' /\ Here' = Now' /\ Behind' = ReturnAll(Now', undo_steps')
         /\ Ahead' = ReturnAll(Now', Reverse(redo_steps'))
<1>1. ~InTrx'
  BY DEF InTrx, NoTrx
<1>2. Present' = db' /\ Now' = Returnable(db') /\ Here' = Now'
  BY <1>1 DEF Here, Present, Now
<1>3. ActiveStep("Undoing")' = <<>> /\ ActiveStep("Redoing")' = <<>>
  BY DEF ActiveStep
<1>4. undo_steps' \in Seq(Step) /\ redo_steps' \in Seq(Step)
  BY StepSets
<1>5. <<>> \o undo_steps' = undo_steps' /\ <<>> \o Reverse(redo_steps') = Reverse(redo_steps')
  BY <1>4, NoPrefix, ReverseFacts
<1>6. PastSteps' = undo_steps' /\ FutureSteps' = Reverse(redo_steps')
  BY <1>3, <1>5 DEF PastSteps, FutureSteps
<1>7. Behind' = ReturnAll(Now', undo_steps') /\ Ahead' = ReturnAll(Now', Reverse(redo_steps'))
  BY <1>2, <1>6, SeenAfter
<1>9. TypeOK'
  BY <1>1, <1>4 DEF TypeOK
<1>10. HistoryInv'
  BY <1>2, <1>6, <1>9 DEF HistoryInv
<1>11. QED
  BY <1>2, <1>7, <1>10

\* The fields of an open transaction.
LEMMA OpenTrx ==
  ASSUME NEW s, NEW o, NEW w, NEW st, NEW td,
         trx' = [open |-> TRUE, saved |-> s, op |-> o, writes |-> w, step |-> st, todo |-> td]
  PROVE  /\ IsTrx' /\ InTrx' /\ Present' = s
         /\ Began' = Returnable(s) /\ Here' = Returnable(s)
         /\ trx'.saved = s /\ trx'.op = o /\ trx'.writes = w /\ trx'.step = st /\ trx'.todo = td
  BY DEF IsTrx, InTrx, Here, Present, Began

\* A step that moves no queue and no database of the history is a stutter of it.
LEMMA Stuttering ==
  ASSUME Here' = Here, Behind' = Behind, Ahead' = Ahead
  PROVE  HistoryStep
  BY DEF HistoryStep, History!vars, Here, Behind, Ahead

\* A state in the closure of transact().
LEMMA RecordingAfter ==
  ASSUME NEW s \in Db, NEW o \in OpKinds, NEW w \in 0..MaxWrites, NEW st \in Step \cup {NoStep},
         trx' = [open |-> TRUE, saved |-> s, op |-> o, writes |-> w, step |-> st, todo |-> <<>>],
         mode' = "NormalOp", redo_steps' = <<>>, undo_steps' \in Seq(UndoSteps),
         Leads(Returnable(s), undo_steps', clock'),
         db' \in Db, Consistent(Now'), db'.ls <= clock',
         current_step' \in Step \cup {NoStep},
         o = "NoUndo" => current_step' = NoStep /\ undo_steps' = <<>>,
         o # "NoUndo" => /\ current_step' \in Step /\ current_step'.kind = o
                         /\ Reverts(Now', current_step'.changes, Returnable(s)),
         counter' \in 0..MaxCounter, clock' \in 0..MaxClock
  PROVE  /\ HistoryInv' /\ Here' = Returnable(s)
         /\ Behind' = ReturnAll(Returnable(s), undo_steps') /\ Ahead' = <<>>
<1>1. /\ IsTrx' /\ InTrx' /\ Present' = s /\ Here' = Returnable(s) /\ Began' = Returnable(s)
      /\ trx'.saved = s /\ trx'.op = o /\ trx'.writes = w /\ trx'.step = st /\ trx'.todo = <<>>
  BY OpenTrx
<1>2. Recording'
  BY <1>1 DEF Recording
<1>3. ActiveStep("Undoing")' = <<>> /\ ActiveStep("Redoing")' = <<>>
  BY DEF ActiveStep
<1>4. undo_steps' \in Seq(Step) /\ <<>> \in Seq(Step) /\ <<>> \in Seq(RedoSteps)
      /\ <<>> \in Seq(Change)
  BY StepSets, EmptySeq
<1>5. <<>> \o undo_steps' = undo_steps' /\ <<>> \o Reverse(redo_steps') = <<>>
  BY <1>4, NoPrefix, ReverseSmall
<1>6. PastSteps' = undo_steps' /\ FutureSteps' = <<>>
  BY <1>3, <1>5 DEF PastSteps, FutureSteps
<1>8. Returnable(s) \in SoundDb(clock')
  BY LeadsTypes
<1>9. Leads(Returnable(s), <<>>, clock')
  BY <1>8, LeadsEmpty
<1>7. Behind' = ReturnAll(Returnable(s), undo_steps') /\ Ahead' = <<>>
  <2> DEFINE r == Returnable(s)
  <2>1. Leads(r, PastSteps', clock') /\ Leads(r, FutureSteps', clock')
    BY <1>6, <1>9
  <2>2. Behind' = ReturnAll(r, PastSteps') /\ Ahead' = ReturnAll(r, FutureSteps')
    BY <1>1, <2>1, SeenAfter
  <2> HIDE DEF r
  <2>3. Ahead' = <<>>
    BY <1>6, <2>2, NoStepsNoStates
  <2>4. QED
    BY <1>6, <2>2, <2>3 DEF r
<1>10. TypeOK'
  BY <1>1, <1>4 DEF TypeOK
<1>11. HistoryInv'
  BY <1>1, <1>2, <1>4, <1>6, <1>9, <1>10 DEF HistoryInv
<1>12. QED
  BY <1>1, <1>7, <1>11

\* begin_step() makes an empty step with the next counter.
LEMMA NewStepFacts ==
  ASSUME counter \in Nat, counter < MaxCounter, NEW op \in OpKinds \cup {"Custom"}
  PROVE  /\ NewStep(op) \in Step /\ NewStep(op).kind = op /\ NewStep(op).changes = <<>>
         /\ counter + 1 \in 0..MaxCounter
<1>1. <<>> \in Seq(Change)
  BY EmptySeq
<1>2. counter + 1 \in 1..MaxCounter /\ counter + 1 \in 0..MaxCounter
  BY BoundsAssumption
<1>3. QED
  BY <1>1, <1>2 DEF NewStep, Step

\* transact() drops the future; without undo it forgets the past as well.
LEMMA BeginHistory ==
  ASSUME HistoryInv, NEW op \in OpKinds, Begin(op)
  PROVE  HistoryInv' /\ HistoryStep
<1>1. ~InTrx /\ counter < MaxCounter /\ counter \in Nat /\ counter \in 0..MaxCounter
      /\ clock \in 0..MaxClock /\ undo_steps \in Seq(UndoSteps)
  BY InvTypes DEF Begin
<1>2. /\ mode = "NormalOp" /\ Here = Now /\ Behind = ReturnAll(Now, undo_steps)
      /\ Leads(Now, undo_steps, clock) /\ Now \in SoundDb(clock)
  BY <1>1, IdleFacts
<1>3. /\ db \in Db /\ Now \in Db /\ Now \in PlainDb /\ Returnable(db) = Now
      /\ Consistent(Now) /\ db.ls <= clock
  <2>1. Consistent(Now) /\ Now.ls <= clock
    BY <1>2 DEF SoundDb
  <2>2. QED
    BY <2>1, InvDb DEF Now
<1>4. /\ trx' = [open |-> TRUE, saved |-> db, op |-> op, writes |-> 0, step |-> NoStep, todo |-> <<>>]
      /\ BeginStep(op, undo_steps, redo_steps, "NormalOp")
      /\ db' = db /\ Now' = Now /\ mode' = mode /\ clock' = clock
  BY DEF Begin, NewTrx, Now
<1>5. 0 \in 0..MaxWrites
  BY BoundsAssumption
<1>6. CASE op = "NoUndo"
  <2>1. undo_steps' = <<>> /\ redo_steps' = <<>> /\ current_step' = NoStep /\ counter' = counter
    BY <1>4, <1>6 DEF BeginStep
  <2>2. Leads(Now, <<>>, clock) /\ ReturnAll(Now, <<>>) = <<>> /\ <<>> \in Seq(UndoSteps)
    BY <1>2, <1>3, LeadsEmpty, EmptySeq
  <2>3. HistoryInv' /\ Here' = Now /\ Behind' = ReturnAll(Now, undo_steps') /\ Ahead' = <<>>
    BY <1>1, <1>2, <1>3, <1>4, <1>5, <1>6, <2>1, <2>2, RecordingAfter
  <2>4. History!Forget
    BY <1>3, <2>1, <2>2, <2>3 DEF History!Forget, Here, Behind, Ahead
  <2>5. QED
    BY <2>3, <2>4 DEF HistoryStep, History!Next
<1>7. CASE op # "NoUndo"
  <2>1. /\ undo_steps' = undo_steps /\ redo_steps' = <<>> /\ current_step' = NewStep(op)
        /\ counter' = counter + 1
    BY <1>4, <1>7 DEF BeginStep
  <2>2. NewStep(op) \in Step /\ NewStep(op).kind = op /\ NewStep(op).changes = <<>>
        /\ counter + 1 \in 0..MaxCounter
    BY <1>1, NewStepFacts
  <2>3. Reverts(Now, <<>>, Now)
    BY <1>3, RevertsEmpty
  <2>4. /\ current_step' \in Step /\ current_step'.kind = op /\ counter' \in 0..MaxCounter
        /\ Reverts(Now', current_step'.changes, Now)
    BY <1>4, <2>1, <2>2, <2>3
  <2>5. HistoryInv' /\ Here' = Now /\ Behind' = ReturnAll(Now, undo_steps') /\ Ahead' = <<>>
    BY <1>1, <1>2, <1>3, <1>4, <1>5, <1>7, <2>1, <2>4, RecordingAfter
  <2>6. History!DropFuture
    BY <1>2, <2>1, <2>5 DEF History!DropFuture, Here, Behind, Ahead
  <2>7. QED
    BY <2>5, <2>6 DEF HistoryStep, History!Next
<1>8. QED
  BY <1>6, <1>7

\* save_undo() records the changes in the step, if there is one.
LEMMA SaveChanges ==
  ASSUME NEW step \in Step, NEW changes \in Seq(Change)
  PROVE  /\ Save(step, changes) \in Step /\ Save(step, changes).kind = step.kind
         /\ Save(step, changes).changes = step.changes \o changes
         /\ Save(step, changes).counter = step.counter
<1>1. step # NoStep
  BY NoStepAssumption
<1>2. /\ step = [kind |-> step.kind, changes |-> step.changes, counter |-> step.counter]
      /\ step.changes \in Seq(Change)
  BY DEF Step
<1>3. Save(step, changes) = [kind |-> step.kind, changes |-> step.changes \o changes,
                             counter |-> step.counter]
  BY <1>1, <1>2 DEF Save
<1>4. step.changes \o changes \in Seq(Change)
  BY <1>2, ConcatProperties
<1>5. QED
  BY <1>3, <1>4 DEF Step

\* A write of the closure is recorded as what takes it back.
LEMMA WriteHistory ==
  ASSUME HistoryInv, NEW d \in Db, NEW changes, Write(d, changes),
         Consistent(Returnable(d)), d.ls = db.ls, Reverts(Returnable(d), changes, Now)
  PROVE  HistoryInv' /\ HistoryStep
<1>1. /\ InTrx /\ mode = "NormalOp" /\ trx.writes < MaxWrites
      /\ db' = d /\ Now' = Returnable(d) /\ trx' = [trx EXCEPT !.writes = @ + 1]
      /\ current_step' = Save(current_step, changes)
      /\ undo_steps' = undo_steps /\ redo_steps' = redo_steps
      /\ mode' = mode /\ counter' = counter /\ clock' = clock
  BY DEF Write, Undoing, queues, Now
<1>2. /\ IsTrx /\ Recording /\ redo_steps = <<>> /\ Here = Began
      /\ Behind = ReturnAll(Began, undo_steps) /\ Ahead = <<>>
      /\ Leads(Began, undo_steps, clock)
  BY <1>1, RecordingFacts
<1>3. /\ undo_steps \in Seq(UndoSteps) /\ counter \in 0..MaxCounter
      /\ clock \in 0..MaxClock /\ trx.saved \in Db /\ Began = Returnable(trx.saved)
  BY <1>1, InvTypes, InvDb DEF Began
<1>4. trx.writes \in 0..MaxWrites /\ trx.step \in Step \cup {NoStep} /\ current_step \in Step \cup {NoStep}
  BY <1>1 DEF HistoryInv, TypeOK
<1>5. trx' = [open |-> TRUE, saved |-> trx.saved, op |-> trx.op, writes |-> trx.writes + 1,
              step |-> trx.step, todo |-> <<>>]
  <2> DEFINE s == trx.saved
             o == trx.op
             w == trx.writes
             st == trx.step
  <2>1. trx = [open |-> TRUE, saved |-> s, op |-> o, writes |-> w, step |-> st, todo |-> trx.todo]
        /\ trx.todo = <<>> /\ trx' = [trx EXCEPT !.writes = @ + 1]
    BY <1>1, <1>2 DEF IsTrx, Recording
  <2> HIDE DEF s, o, w, st
  <2>2. trx = [open |-> TRUE, saved |-> s, op |-> o, writes |-> w, step |-> st, todo |-> <<>>]
    BY <2>1
  <2>3. trx' = [open |-> TRUE, saved |-> s, op |-> o, writes |-> w + 1, step |-> st, todo |-> <<>>]
    BY <2>1, <2>2
  <2>4. QED
    BY <2>3 DEF s, o, w, st
<1>6. trx.writes + 1 \in 0..MaxWrites
  BY <1>1, <1>4, BoundsAssumption
<1>7. trx.op \in OpKinds /\ d.ls <= clock /\ changes \in Seq(Change)
  BY <1>2, RevertsTypes DEF Recording
<1>8. ASSUME trx.op = "NoUndo" PROVE current_step' = NoStep /\ undo_steps' = <<>>
  BY <1>1, <1>2, <1>8 DEF Recording, Save
<1>9. ASSUME trx.op # "NoUndo"
      PROVE  /\ current_step' \in Step /\ current_step'.kind = trx.op
             /\ Reverts(Now', current_step'.changes, Began)
  <2>1. /\ current_step \in Step /\ current_step.kind = trx.op
        /\ Reverts(Now, current_step.changes, Began)
    BY <1>2, <1>9 DEF Recording
  <2>2. /\ current_step' \in Step /\ current_step'.kind = trx.op
        /\ current_step'.changes = current_step.changes \o changes
    BY <1>1, <1>7, <2>1, SaveChanges
  <2>3. Reverts(Returnable(d), current_step.changes \o changes, Began)
    BY <2>1, RevertsConcat
  <2>4. QED
    BY <1>1, <2>2, <2>3
<1>10. current_step' \in Step \cup {NoStep}
  BY <1>8, <1>9
<1>11. /\ HistoryInv' /\ Here' = Began /\ Behind' = ReturnAll(Began, undo_steps')
       /\ Ahead' = <<>>
  <2> DEFINE s == trx.saved
             o == trx.op
             w == trx.writes + 1
             st == trx.step
  <2>1. /\ trx' = [open |-> TRUE, saved |-> s, op |-> o, writes |-> w, step |-> st, todo |-> <<>>]
        /\ o \in OpKinds /\ w \in 0..MaxWrites /\ st \in Step \cup {NoStep}
        /\ Leads(Returnable(s), undo_steps', clock') /\ s \in Db
        /\ o = "NoUndo" => current_step' = NoStep /\ undo_steps' = <<>>
        /\ o # "NoUndo" => /\ current_step' \in Step /\ current_step'.kind = o
                           /\ Reverts(Now', current_step'.changes, Returnable(s))
    BY <1>1, <1>2, <1>3, <1>4, <1>5, <1>6, <1>7, <1>8, <1>9
  <2>2. /\ mode' = "NormalOp" /\ redo_steps' = <<>> /\ undo_steps' \in Seq(UndoSteps)
        /\ db' \in Db /\ Consistent(Now') /\ db'.ls <= clock'
        /\ counter' \in 0..MaxCounter /\ clock' \in 0..MaxClock
    BY <1>1, <1>2, <1>3, <1>7
  <2> HIDE DEF s, o, w, st
  <2>3. /\ HistoryInv' /\ Here' = Returnable(s)
        /\ Behind' = ReturnAll(Returnable(s), undo_steps') /\ Ahead' = <<>>
    BY <1>10, <2>1, <2>2, RecordingAfter
  <2>4. QED
    BY <1>3, <2>3 DEF s
<1>12. QED
  BY <1>1, <1>2, <1>11, Stuttering

\* Adding a row is recorded as what takes it back.
LEMMA AddItemHistory ==
  ASSUME HistoryInv, NEW i \in Items, NEW v \in Values, AddItem(i, v)
  PROVE  HistoryInv' /\ HistoryStep
<1> DEFINE e == [val |-> v, pending |-> TRUE]
           r == SetRow(db, i, e)
           d == SetRow(Now, i, e)
           c == Row("Added", i, e)
<1>1. db.items[i] = NoItem /\ (i \in db.graves => i \in Packaged) /\ Write(r, <<c>>)
  BY DEF AddItem
<1>2. /\ e \in Entry /\ db \in Db /\ Now \in Db /\ Now \in PlainDb /\ Now.items = db.items
      /\ Now.graves = db.graves \ Packaged /\ Now.ls = db.ls /\ Now = Returnable(db)
  BY InvDb DEF Entry, Now
<1>3. Consistent(Now)
  BY <1>1, RecordingFacts DEF Write, Undoing, Recording
<1> HIDE DEF e
<1>4. /\ d \in Db /\ d.items[i] = e /\ d.graves = Now.graves
      /\ \A j \in Items \ {i} : d.items[j] = Now.items[j]
      /\ SetRow(d, i, NoItem) = Now
  BY <1>1, <1>2, RowsOfDb
<1>5. r \in Db /\ r.ls = db.ls /\ Returnable(r) = d
  BY <1>2, RowsOfDb, ReturnableRow
<1>6. Consistent(d)
  <2>1. Now.graves \subseteq Items /\ i \notin Now.graves
    BY <1>1, <1>2 DEF Db
  <2> HIDE DEF d
  <2>2. QED
    BY <1>3, <1>4, <2>1 DEF Consistent
<1>7. c \in Change /\ c.kind = "Added" /\ c.item = i /\ c.old = e
  BY <1>2, NewChanges DEF Row
<1>8. d \in PlainDb
  <2> HIDE DEF d
  <2>1. QED
    BY <1>2, <1>4 DEF PlainDb
<1> HIDE DEF d, c, r
<1>9. Fits(d, c) /\ Revert(d, c) = Now
  BY <1>4, <1>7 DEF Fits, Revert
<1>10. Reverts(d, <<c>>, Now)
  BY <1>2, <1>7, <1>8, <1>9, RevertsExactly
<1>11. QED
  BY <1>1, <1>5, <1>6, <1>10, WriteHistory

\* Updating a row is recorded as what takes it back.
LEMMA UpdateItemHistory ==
  ASSUME HistoryInv, NEW i \in Items, NEW v \in Values, UpdateItem(i, v)
  PROVE  HistoryInv' /\ HistoryStep
<1> DEFINE e == [val |-> v, pending |-> TRUE]
           was == db.items[i]
           r == SetRow(db, i, e)
           d == SetRow(Now, i, e)
           c == Row("Updated", i, was)
<1>1. was # NoItem /\ Write(r, <<c>>)
  BY DEF UpdateItem
<1>2. /\ e \in Entry /\ db \in Db /\ Now \in Db /\ Now \in PlainDb /\ Now.items = db.items
      /\ Now.ls = db.ls /\ Now = Returnable(db)
  BY InvDb DEF Entry, Now
<1>3. was \in Entry /\ e # NoItem
  <2>1. was \in Entry
    BY <1>1, <1>2 DEF Db
  <2>2. QED
    BY <1>2, <2>1, NoItemAssumption
<1>4. Consistent(Now)
  BY <1>1, RecordingFacts DEF Write, Undoing, Recording
<1> HIDE DEF e
<1>13. Now.items[i] = was
  BY <1>2
<1>5. /\ d \in Db /\ d.items[i] = e /\ d.graves = Now.graves
      /\ \A j \in Items \ {i} : d.items[j] = Now.items[j]
      /\ SetRow(d, i, was) = Now
  <2>1. Now \in Db /\ i \in Items /\ e \in Entry \cup {NoItem}
    BY <1>2
  <2>2. /\ d \in Db /\ d.items[i] = e /\ d.graves = Now.graves
        /\ \A j \in Items \ {i} : d.items[j] = Now.items[j]
        /\ \A f \in Entry \cup {NoItem} : Now.items[i] = f => SetRow(d, i, f) = Now
    BY ONLY <2>1, RowsOfDb
  <2> HIDE DEF was, d
  <2>3. SetRow(d, i, was) = Now
    BY ONLY <1>3, <1>13, <2>2
  <2>4. QED
    BY <2>2, <2>3
<1>6. r \in Db /\ r.ls = db.ls /\ Returnable(r) = d
  BY <1>2, RowsOfDb, ReturnableRow
<1>7. Consistent(d)
  <2>1. Now.graves \subseteq Items /\ i \notin Now.graves
    BY <1>1, <1>2, <1>4 DEF Db, Consistent
  <2> HIDE DEF d
  <2>2. QED
    BY <1>4, <1>5, <2>1 DEF Consistent
<1> HIDE DEF was
<1>8. c \in Change /\ c.kind = "Updated" /\ c.item = i /\ c.old = was
  BY <1>3, NewChanges DEF Row
<1>9. d \in PlainDb
  <2> HIDE DEF d
  <2>1. QED
    BY <1>2, <1>5 DEF PlainDb
<1> HIDE DEF d, c, r
<1>10. Fits(d, c) /\ Revert(d, c) = Now
  BY <1>3, <1>5, <1>8 DEF Fits, Revert
<1>11. Reverts(d, <<c>>, Now)
  BY <1>2, <1>8, <1>9, <1>10, RevertsExactly
<1>12. QED
  BY <1>1, <1>6, <1>7, <1>11, WriteHistory

\* Two changes in a row.
LEMMA TwoChanges ==
  ASSUME NEW c1 \in Change, NEW c2 \in Change
  PROVE  <<c1>> \o <<c2>> = <<c1, c2>>
<1>1. /\ <<c1>> \in Seq(Change) /\ Len(<<c1>>) = 1 /\ <<c1>>[1] = c1
      /\ <<c2>> \in Seq(Change) /\ Len(<<c2>>) = 1 /\ <<c2>>[1] = c2
  OBVIOUS
<1>2. /\ <<c1, c2>> \in Seq(Change) /\ Len(<<c1, c2>>) = 2
      /\ <<c1, c2>>[1] = c1 /\ <<c1, c2>>[2] = c2
  OBVIOUS
<1> DEFINE a == <<c1>>
           b == <<c2>>
           ab == <<c1, c2>>
<1> HIDE DEF a, b, ab
<1>3. /\ a \o b \in Seq(Change) /\ Len(a \o b) = 2
      /\ (a \o b)[1] = c1 /\ (a \o b)[2] = c2
  <2>1. a \in Seq(Change) /\ b \in Seq(Change) /\ Len(a) = 1 /\ Len(b) = 1
        /\ a[1] = c1 /\ b[1] = c2
    BY <1>1 DEF a, b
  <2>2. /\ a \o b \in Seq(Change) /\ Len(a \o b) = 1 + 1
        /\ \A n \in 1..(1 + 1) : (a \o b)[n] = IF n <= 1 THEN a[n] ELSE b[n - 1]
    BY <2>1, ConcatProperties
  <2>3. QED
    BY <2>1, <2>2
<1>4. ab \in Seq(Change) /\ Len(ab) = 2 /\ ab[1] = c1 /\ ab[2] = c2
  BY <1>2 DEF ab
<1>5. a \o b = ab
  <2>1. \A n \in 1..2 : (a \o b)[n] = ab[n]
    BY <1>3, <1>4
  <2>2. QED
    BY <1>3, <1>4, <2>1, SeqEqual
<1>6. QED
  BY <1>5 DEF a, b, ab

\* Removing a row is recorded, with its grave, as what takes it back; the grave of
\* a row that a package contains is nothing to the history.
LEMMA RemoveItemHistory ==
  ASSUME HistoryInv, NEW i \in Items, RemoveItem(i)
  PROVE  HistoryInv' /\ HistoryStep
<1> DEFINE was == db.items[i]
           r == SetRow(AddGrave(db, i), i, NoItem)
           g == Returnable(AddGrave(db, i))
           d == SetRow(g, i, NoItem)
           c1 == Grave("GraveAdded", i)
           c2 == Row("Removed", i, was)
<1>1. was # NoItem /\ Write(r, <<c1, c2>>)
  BY DEF RemoveItem
<1>2. /\ db \in Db /\ Now \in Db /\ Now \in PlainDb /\ Now.items = db.items
      /\ Now.graves = db.graves \ Packaged /\ Now.ls = db.ls /\ Now = Returnable(db)
      /\ Now.mod = db.mod
  BY InvDb DEF Now
<1>3. was \in Entry
  BY <1>1, <1>2 DEF Db
<1>4. Consistent(Now)
  BY <1>1, RecordingFacts DEF Write, Undoing, Recording
<1>5. i \notin Now.graves /\ Now.graves \subseteq Items
  BY <1>1, <1>2, <1>4 DEF Db, Consistent
<1>6. /\ AddGrave(db, i) \in Db /\ AddGrave(db, i).items = db.items
      /\ AddGrave(db, i).graves = db.graves \cup {i}
      /\ AddGrave(db, i).mod = db.mod /\ AddGrave(db, i).ls = db.ls
  BY <1>2, GravesOfDb
<1>7. /\ r \in Db /\ r.ls = db.ls /\ Returnable(r) = d
  <2> DEFINE a == AddGrave(db, i)
  <2> HIDE DEF a
  <2>1. SetRow(a, i, NoItem) \in Db /\ SetRow(a, i, NoItem).ls = a.ls
        /\ Returnable(SetRow(a, i, NoItem)) = SetRow(Returnable(a), i, NoItem)
    BY <1>6, RowsOfDb, ReturnableRow DEF a
  <2>2. QED
    BY <1>6, <2>1 DEF a
<1>8. /\ g \in PlainDb /\ g \in Db /\ g.items = db.items /\ g.mod = db.mod /\ g.ls = db.ls
      /\ g.graves = (db.graves \cup {i}) \ Packaged
  BY <1>6, ReturnableFacts
<1> HIDE DEF g, r
<1>9. g.items[i] = was
  BY <1>8
<1> HIDE DEF was
<1>10. /\ d \in Db /\ d.items[i] = NoItem /\ d.graves = g.graves /\ d.ls = g.ls
       /\ \A j \in Items \ {i} : d.items[j] = g.items[j]
       /\ SetRow(d, i, was) = g
  BY <1>3, <1>8, <1>9, RowsOfDb
<1> HIDE DEF d
<1>11. Consistent(d) /\ d \in PlainDb
  <2>1. \A j \in d.graves : j = i \/ (j \in Now.graves /\ j \in Items \ {i})
    BY <1>2, <1>5, <1>8, <1>10
  <2>2. Consistent(d)
    BY <1>2, <1>4, <1>8, <1>10, <2>1 DEF Consistent
  <2>3. d \in PlainDb
    BY <1>8, <1>10 DEF PlainDb
  <2>4. QED
    BY <2>2, <2>3
<1>12. /\ c1 \in Change /\ c1.kind = "GraveAdded" /\ c1.item = i
       /\ c2 \in Change /\ c2.kind = "Removed" /\ c2.item = i /\ c2.old = was
  BY <1>3, NewChanges DEF Row, Grave
<1>13. <<c1>> \o <<c2>> = <<c1, c2>>
  BY <1>12, TwoChanges
<1> HIDE DEF c1, c2
<1>14. Reverts(d, <<c2>>, g)
  <2>1. Fits(d, c2) /\ Revert(d, c2) = g
    BY <1>10, <1>12 DEF Fits, Revert
  <2>2. QED
    BY <1>8, <1>11, <1>12, <2>1, RevertsExactly
<1>15. Reverts(g, <<c1>>, Now)
  <2>1. RemoveGrave(g, i) \in Db /\ RemoveGrave(g, i).items = g.items
        /\ RemoveGrave(g, i).graves = g.graves \ {i}
        /\ RemoveGrave(g, i).mod = g.mod /\ RemoveGrave(g, i).ls = g.ls
    BY <1>8, GravesOfDb
  <2>2. Returnable(RemoveGrave(g, i)) = Returnable(Now) /\ Returnable(Now) = Now
    <3> DEFINE x == RemoveGrave(g, i)
    <3>1. x \in Db /\ x.items = Now.items /\ x.mod = Now.mod /\ x.ls = Now.ls
          /\ x.graves \ Packaged = Now.graves \ Packaged
      BY <1>2, <1>5, <1>8, <2>1
    <3> HIDE DEF x
    <3>2. QED
      BY <1>2, <3>1, SameReturnable, PlainFacts DEF x
  <2>3. Back(g, c1) = Now
    BY <1>12, <2>2 DEF Back, Revert
  <2>4. Fits(g, c1)
    BY <1>8, <1>12 DEF Fits
  <2>5. QED
    BY <1>8, <1>12, <2>3, <2>4, RevertsOne
<1>16. Reverts(d, <<c1, c2>>, Now)
  BY <1>13, <1>14, <1>15, RevertsConcat
<1>17. QED
  BY <1>1, <1>7, <1>11, <1>16, WriteHistory

\* Nothing left to undo or redo.
LEMMA ForgottenAfter ==
  ASSUME trx' = NoTrx, mode' = "NormalOp", current_step' = NoStep,
         undo_steps' = <<>>, redo_steps' = <<>>, db' \in Db,
         counter' \in 0..MaxCounter, clock' \in 0..MaxClock, Now' \in SoundDb(clock')
  PROVE  HistoryInv' /\ HistoryStep
<1>1. <<>> \in Seq(UndoSteps) /\ <<>> \in Seq(RedoSteps)
  BY EmptySeq
<1>2. Leads(Now', <<>>, clock') /\ ReturnAll(Now', <<>>) = <<>> /\ Reverse(<<>>) = <<>>
  BY LeadsEmpty, ReverseSmall
<1>3. HistoryInv' /\ Here' = Now' /\ Behind' = <<>> /\ Ahead' = <<>>
  BY <1>1, <1>2, IdleAfter
<1>4. Here' \in Db
  BY <1>3, SoundIsDb, PlainFacts
<1>5. History!Forget
  BY <1>3, <1>4 DEF History!Forget, Here, Behind, Ahead
<1>6. QED
  BY <1>3, <1>5 DEF HistoryStep, History!Next

\* The present of the history is sound, in a transaction too.
LEMMA PresentIsSound ==
  ASSUME HistoryInv
  PROVE  Here \in SoundDb(clock)
  BY LeadsTypes DEF HistoryInv

\* A failed operation forgets past and future and keeps the present.
LEMMA RollBackHistory ==
  ASSUME HistoryInv, RollBack
  PROVE  HistoryInv' /\ HistoryStep
<1>1. /\ InTrx /\ db' = trx.saved /\ Now' = Began /\ trx' = NoTrx /\ mode' = "NormalOp" /\ clock' = clock
      /\ undo_steps' = <<>> /\ redo_steps' = <<>> /\ current_step' = NoStep /\ counter' = counter
  BY DEF RollBack, BeginStep, Now, Began
<1>2. Began \in SoundDb(clock) /\ trx.saved \in Db
  BY <1>1, PresentIsSound, InvDb DEF Here, Present, Began
<1>3. counter \in 0..MaxCounter /\ clock \in 0..MaxClock
  BY InvTypes
<1>4. QED
  BY <1>1, <1>2, <1>3, ForgottenAfter

\* A database that was just synced has nothing unsent.
LEMMA SyncedIsSound ==
  ASSUME NEW d \in Db, NEW t \in 0..MaxClock
  PROVE  Synced(d, t) \in Db /\ Synced(d, t) \in SoundDb(t)
<1> DEFINE rows == [i \in Items |-> IF d.items[i] = NoItem THEN NoItem
                                    ELSE [d.items[i] EXCEPT !.pending = FALSE]]
<1>1. ASSUME NEW i \in Items
      PROVE  rows[i] = NoItem \/ (rows[i] \in Entry /\ rows[i].pending = FALSE)
  <2>1. CASE d.items[i] = NoItem
    BY <2>1
  <2>2. CASE d.items[i] # NoItem
    <3>1. d.items[i] \in Entry
      BY <2>2 DEF Db
    <3>2. [d.items[i] EXCEPT !.pending = FALSE] \in Entry
          /\ [d.items[i] EXCEPT !.pending = FALSE].pending = FALSE
      <4> DEFINE e == d.items[i]
      <4>1. e \in Entry
        BY <3>1
      <4> HIDE DEF e
      <4>2. [e EXCEPT !.pending = FALSE] \in Entry /\ [e EXCEPT !.pending = FALSE].pending = FALSE
        BY <4>1 DEF Entry
      <4>3. QED
        BY <4>2 DEF e
    <3>3. rows[i] = [d.items[i] EXCEPT !.pending = FALSE]
      BY <2>2
    <3> HIDE DEF rows
    <3>4. QED
      BY <3>2, <3>3
  <2>3. QED
    BY <2>1, <2>2
<1>2. rows = [i \in Items |-> rows[i]]
  OBVIOUS
<1>3. Synced(d, t) = [items |-> rows, graves |-> {}, mod |-> t, ls |-> t]
  BY DEF Synced
<1> HIDE DEF rows
<1>4. rows \in [Items -> Entry \cup {NoItem}]
  BY <1>1, <1>2
<1> DEFINE s == Synced(d, t)
<1>5. s.items = rows /\ s.graves = {} /\ s.mod = t /\ s.ls = t /\ s \in Db
  BY <1>3, <1>4 DEF Db
<1> HIDE DEF s
<1>6. Consistent(s)
  BY <1>5 DEF Consistent
<1>7. ~ Unsent(s)
  <2>1. ASSUME NEW i \in Items, rows[i] # NoItem, rows[i].pending PROVE FALSE
    BY <1>1, <2>1
  <2>2. QED
    BY <1>5, <2>1 DEF Unsent
<1>8. s.ls <= t
  BY <1>5
<1>9. s \in SoundDb(t)
  BY <1>5, <1>6, <1>7, <1>8 DEF SoundDb, PlainDb
<1>10. QED
  BY <1>5, <1>9 DEF s

\* A sync forgets past and future.
LEMMA SyncHistory ==
  ASSUME HistoryInv, Sync
  PROVE  HistoryInv' /\ HistoryStep
<1>1. /\ ~InTrx /\ clock < MaxClock /\ clock' = clock + 1 /\ db' = Synced(db, clock + 1)
      /\ undo_steps' = <<>> /\ redo_steps' = <<>>
      /\ mode' = mode /\ current_step' = current_step /\ counter' = counter /\ trx' = trx
  BY DEF Sync
<1>2. trx = NoTrx /\ mode = "NormalOp" /\ current_step = NoStep
  BY <1>1, IdleFacts
<1>3. db \in Db /\ clock \in Nat /\ counter \in 0..MaxCounter
  BY InvTypes, InvDb
<1>4. clock + 1 \in 0..MaxClock
  BY <1>1, <1>3, BoundsAssumption
<1>5. db' \in Db /\ db' \in SoundDb(clock + 1)
  BY <1>1, <1>3, <1>4, SyncedIsSound
<1>6. Now' = db'
  BY <1>5, SoundIsDb, PlainFacts DEF Now
<1>7. QED
  BY <1>1, <1>2, <1>3, <1>4, <1>5, <1>6, ForgottenAfter

\* So does a restart, which rolls an open transaction back.
LEMMA ReopenHistory ==
  ASSUME HistoryInv, Reopen
  PROVE  HistoryInv' /\ HistoryStep
<1>1. /\ db' = Present /\ Now' = Here /\ undo_steps' = <<>> /\ redo_steps' = <<>> /\ mode' = "NormalOp"
      /\ current_step' = NoStep /\ counter' = 0 /\ trx' = NoTrx /\ clock' = clock
  BY DEF Reopen, Present, Here, Now
<1>2. clock \in 0..MaxClock /\ Present \in Db /\ 0 \in 0..MaxCounter
  BY InvTypes, InvDb, BoundsAssumption
<1>3. QED
  BY <1>1, <1>2, PresentIsSound, ForgottenAfter

\* end_step() keeps the queue one of undo steps.
LEMMA PushSteps ==
  ASSUME NEW undo \in Seq(UndoSteps), NEW step \in UndoSteps
  PROVE  PushUndo(step, undo) \in Seq(UndoSteps)
<1> DEFINE k == IF Len(undo) < UNDO_LIMIT THEN Len(undo) ELSE UNDO_LIMIT - 1
<1>1. Len(undo) \in Nat /\ k \in 0..Len(undo)
  BY LenProperties, UndoLimitAssumption
<1>2. PushUndo(step, undo) = <<step>> \o SubSeq(undo, 1, k)
  BY DEF PushUndo
<1> HIDE DEF k
<1>3. SubSeq(undo, 1, k) \in Seq(UndoSteps)
  <2>1. \A n \in 1..Len(undo) : undo[n] \in UndoSteps
    BY ElementOfSeq
  <2>2. 1 \in Int /\ k \in Int /\ \A n \in 1..k : undo[n] \in UndoSteps
    BY <1>1, <2>1
  <2>3. QED
    BY <2>2, SubSeqProperties
<1>4. QED
  BY <1>2, <1>3, ConsFacts

\* A custom step is an operation that changes nothing.
LEMMA AddCustomStepHistory ==
  ASSUME HistoryInv, AddCustomStep
  PROVE  HistoryInv' /\ HistoryStep
<1> DEFINE step == NewStep("Custom")
<1>1. /\ ~InTrx /\ counter < MaxCounter /\ undo_steps' = PushUndo(step, undo_steps)
      /\ redo_steps' = <<>> /\ counter' = counter + 1 /\ db' = db /\ Now' = Now /\ mode' = mode
      /\ current_step' = current_step /\ trx' = trx /\ clock' = clock
  BY DEF AddCustomStep, Now
<1>2. /\ trx = NoTrx /\ mode = "NormalOp" /\ current_step = NoStep
      /\ Here = Now /\ Behind = ReturnAll(Now, undo_steps)
      /\ Leads(Now, undo_steps, clock) /\ Now \in SoundDb(clock)
  BY <1>1, IdleFacts
<1>3. /\ undo_steps \in Seq(UndoSteps) /\ counter \in Nat /\ clock \in 0..MaxClock
  BY InvTypes
<1>13. db \in Db /\ Now \in Db /\ Now \in PlainDb
  BY InvDb
<1>4. step \in Step /\ step.kind = "Custom" /\ step.changes = <<>> /\ counter + 1 \in 0..MaxCounter
  BY <1>1, <1>3, NewStepFacts
<1> HIDE DEF step
<1>5. step \in UndoSteps
  BY <1>4 DEF UndoSteps, HasChanges, EndsModified
<1>6. Reverts(Now, step.changes, Now)
  BY <1>4, <1>13, RevertsEmpty
<1>7. /\ Leads(Now, PushUndo(step, undo_steps), clock)
      /\ ReturnAll(Now, PushUndo(step, undo_steps)) = History!Remember(Now, ReturnAll(Now, undo_steps))
  BY <1>2, <1>4, <1>6, LeadsPush
<1>8. PushUndo(step, undo_steps) \in Seq(UndoSteps)
  BY <1>3, <1>5, PushSteps
<1>9. /\ <<>> \in Seq(RedoSteps) /\ Leads(Now, <<>>, clock) /\ ReturnAll(Now, <<>>) = <<>>
      /\ Reverse(<<>>) = <<>>
  BY <1>2, EmptySeq, LeadsEmpty, ReverseSmall
<1>10. /\ HistoryInv' /\ Here' = Now' /\ Behind' = ReturnAll(Now', undo_steps')
       /\ Ahead' = ReturnAll(Now', Reverse(redo_steps'))
  BY <1>1, <1>2, <1>3, <1>4, <1>7, <1>8, <1>9, <1>13, IdleAfter
<1>11. Behind' = History!Remember(Here, Behind) /\ Ahead' = <<>> /\ Here' \in Db
  BY <1>1, <1>2, <1>7, <1>9, <1>10, <1>13
<1>12. QED
  BY <1>10, <1>11 DEF HistoryStep, History!Next, History!Do, Here, Behind, Ahead

-----------------------------------------------------------------------------
(* Undo and redo.                                                           *)

\* A state in undo_inner(), for either direction.
LEMMA ReplayingAfter ==
  ASSUME NEW s \in Db, NEW o \in OpKinds \cup {"Custom"}, NEW w \in 0..MaxWrites, NEW st \in Step,
         NEW td \in Seq(Change),
         trx' = [open |-> TRUE, saved |-> s, op |-> o, writes |-> w, step |-> st, todo |-> td],
         mode' \in {"Undoing", "Redoing"}, Replaying',
         undo_steps' \in Seq(UndoSteps), redo_steps' \in Seq(RedoSteps),
         Leads(Returnable(s), PastSteps', clock'), Leads(Returnable(s), FutureSteps', clock'),
         db' \in Db, current_step' \in Step,
         counter' \in 0..MaxCounter, clock' \in 0..MaxClock
  PROVE  /\ HistoryInv' /\ Here' = Returnable(s)
         /\ Behind' = ReturnAll(Returnable(s), PastSteps')
         /\ Ahead' = ReturnAll(Returnable(s), FutureSteps')
<1>1. /\ IsTrx' /\ InTrx' /\ Present' = s /\ Here' = Returnable(s)
      /\ trx'.saved = s /\ trx'.op = o /\ trx'.writes = w /\ trx'.step = st /\ trx'.todo = td
  BY OpenTrx
<1>2. undo_steps' \in Seq(Step) /\ redo_steps' \in Seq(Step)
  BY StepSets
<1>3. TypeOK'
  BY <1>1, <1>2 DEF TypeOK
<1>4. HistoryInv'
  BY <1>1, <1>3 DEF HistoryInv
<1>5. Behind' = ReturnAll(Returnable(s), PastSteps') /\ Ahead' = ReturnAll(Returnable(s), FutureSteps')
  BY <1>1, SeenAfter
<1>6. QED
  BY <1>1, <1>4, <1>5

\* Reversed, a step that ends with a stamp starts with one.
LEMMA ReverseEnds ==
  ASSUME NEW changes \in Seq(Change)
  PROVE  /\ EndsModified(changes) => StartsModified(Reverse(changes))
         /\ StartsModified(changes) => EndsModified(Reverse(changes))
<1>1. /\ Reverse(changes) \in Seq(Change) /\ Len(Reverse(changes)) = Len(changes)
      /\ \A i \in 1..Len(changes) : Reverse(changes)[i] = changes[Len(changes) - i + 1]
  BY ReverseFacts
<1>2. Len(changes) \in Nat
  BY LenProperties
<1>3. CASE Len(changes) = 0
  <2>1. Reverse(changes) = <<>>
    BY <1>1, <1>3, EmptySeq
  <2>2. QED
    BY <2>1 DEF StartsModified, EndsModified
<1>4. CASE Len(changes) # 0
  <2>1. /\ 1 \in 1..Len(changes) /\ Len(changes) \in 1..Len(changes)
        /\ Len(changes) - 1 + 1 = Len(changes) /\ Len(changes) - Len(changes) + 1 = 1
    BY <1>2, <1>4
  <2>2. Reverse(changes)[1] = changes[Len(changes)] /\ Reverse(changes)[Len(changes)] = changes[1]
    BY <1>1, <2>1
  <2>3. changes # <<>>
    BY <1>4, EmptySeq
  <2>4. QED
    BY <1>1, <2>2, <2>3 DEF StartsModified, EndsModified
<1>5. QED
  BY <1>3, <1>4

\* undo_inner() has popped a step that leads from the database as it is.
LEMMA StartReplay ==
  ASSUME HistoryInv, ~InTrx, counter < MaxCounter, NEW step \in Step,
         step.kind # "NoUndo", HasChanges(step), NEW e, Reverts(Now, step.changes, e),
         trx' = NewTrx(step.kind, step, Reverse(step.changes)),
         current_step' = NewStep(step.kind), counter' = counter + 1, db' = db, clock' = clock,
         mode' \in {"Undoing", "Redoing"},
         mode' = "Undoing" => EndsModified(step.changes),
         mode' = "Redoing" => StartsModified(step.changes),
         undo_steps' \in Seq(UndoSteps), redo_steps' \in Seq(RedoSteps),
         Leads(Now, PastSteps', clock), Leads(Now, FutureSteps', clock)
  PROVE  /\ HistoryInv' /\ Here' = Now
         /\ Behind' = ReturnAll(Now, PastSteps') /\ Ahead' = ReturnAll(Now, FutureSteps')
<1> DEFINE td == Reverse(step.changes)
           o == step.kind
<1>1. step.changes \in Seq(Change) /\ o \in OpKinds \cup {"Custom"}
  BY DEF Step
<1>2. /\ counter \in Nat /\ clock \in 0..MaxClock /\ db \in Db /\ Now \in Db /\ Now \in PlainDb
      /\ Now = Returnable(db) /\ Now' = Now
  BY InvTypes, InvDb DEF Now
<1>3. td \in Seq(Change) /\ Len(td) = Len(step.changes) /\ Len(td) \in Nat
  BY <1>1, ReverseFacts, LenProperties
<1>4. NewStep(o) \in Step /\ NewStep(o).kind = o /\ NewStep(o).changes = <<>>
      /\ counter + 1 \in 0..MaxCounter
  BY <1>1, <1>2, NewStepFacts
<1>5. trx' = [open |-> TRUE, saved |-> db, op |-> o, writes |-> 0, step |-> step, todo |-> td]
  BY DEF NewTrx
<1>6. /\ Began' = Now /\ trx'.op = o /\ trx'.step = step /\ trx'.todo = td
  BY <1>2, <1>5, OpenTrx
<1>7. Replays(Now, td, e) /\ Return(Now, step) = e
  BY <1>2, RevertsReturn DEF Reverts
<1>8. Reverts(Now, <<>>, Now)
  BY <1>2, RevertsEmpty
<1>9. mode' = "Undoing" => StartsModified(td)
  BY <1>1, ReverseEnds
<1>10. mode' = "Redoing" => EndsModified(td) /\ EndsModified(<<>>)
  BY <1>1, ReverseEnds DEF EndsModified
<1>11. Len(<<>>) + Len(td) = Len(step.changes)
  BY <1>3, EmptySeq
<1> HIDE DEF td, o
<1>12. current_step'.changes = <<>> /\ current_step'.kind = o /\ current_step' \in Step
  BY <1>4 DEF o
<1>13. Replaying'
  BY <1>2, <1>6, <1>7, <1>8, <1>9, <1>10, <1>11, <1>12 DEF Replaying, o
<1>14. 0 \in 0..MaxWrites
  BY BoundsAssumption
<1>15. /\ clock' = clock /\ counter' \in 0..MaxCounter /\ clock' \in 0..MaxClock /\ db' \in Db
  BY <1>2, <1>4
<1>16. Leads(Now, PastSteps', clock') /\ Leads(Now, FutureSteps', clock')
  BY <1>15
<1>17. QED
  BY <1>1, <1>2, <1>3, <1>5, <1>12, <1>13, <1>14, <1>15, <1>16, ReplayingAfter DEF o

\* Undo only opens its transaction: the history moves when it commits.
LEMMA UndoBegins ==
  ASSUME HistoryInv, Undo
  PROVE  HistoryInv' /\ HistoryStep
<1> DEFINE step == Head(undo_steps)
           rest == Tail(undo_steps)
<1>1. /\ ~InTrx /\ undo_steps # <<>> /\ counter < MaxCounter
      /\ trx' = NewTrx(step.kind, step, Reverse(step.changes))
      /\ BeginStep(step.kind, rest, redo_steps, "Undoing")
      /\ mode' = "Undoing" /\ db' = db /\ clock' = clock
  BY DEF Undo
<1>2. undo_steps \in Seq(UndoSteps) /\ redo_steps \in Seq(RedoSteps) /\ Reverse(redo_steps) \in Seq(Step)
  BY InvTypes
<1>3. step \in UndoSteps /\ rest \in Seq(UndoSteps) /\ undo_steps = <<step>> \o rest
  BY <1>1, <1>2, HeadAndTail
<1> HIDE DEF step, rest
<1>4. step \in Step /\ step.kind # "NoUndo" /\ HasChanges(step) /\ EndsModified(step.changes)
      /\ rest \in Seq(Step)
  BY <1>3, StepSets DEF UndoSteps
<1>5. /\ undo_steps' = rest /\ redo_steps' = redo_steps /\ current_step' = NewStep(step.kind)
      /\ counter' = counter + 1
  BY <1>1, <1>4 DEF BeginStep
<1>6. /\ Here = Now /\ Behind = ReturnAll(Now, undo_steps)
      /\ Ahead = ReturnAll(Now, Reverse(redo_steps))
      /\ Leads(Now, undo_steps, clock) /\ Leads(Now, Reverse(redo_steps), clock)
  BY <1>1, IdleFacts
<1>7. trx'.step = step
  BY <1>1 DEF NewTrx
<1>8. PastSteps' = undo_steps /\ FutureSteps' = Reverse(redo_steps)
  <2>1. ActiveStep("Undoing")' = <<step>> /\ ActiveStep("Redoing")' = <<>>
    BY <1>1, <1>7 DEF ActiveStep
  <2>2. <<>> \o Reverse(redo_steps) = Reverse(redo_steps)
    BY <1>2, NoPrefix
  <2>3. QED
    BY <1>3, <1>5, <2>1, <2>2 DEF PastSteps, FutureSteps
<1>9. Reverts(Now, step.changes, Return(Now, step))
  BY <1>3, <1>4, <1>6, LeadsNext
<1>10. /\ HistoryInv' /\ Here' = Now
       /\ Behind' = ReturnAll(Now, PastSteps') /\ Ahead' = ReturnAll(Now, FutureSteps')
  BY <1>1, <1>2, <1>3, <1>4, <1>5, <1>6, <1>8, <1>9, StartReplay
<1>11. QED
  BY <1>6, <1>8, <1>10, Stuttering

\* So does redo.
LEMMA RedoBegins ==
  ASSUME HistoryInv, Redo
  PROVE  HistoryInv' /\ HistoryStep
<1> DEFINE step == Last(redo_steps)
           rest == Front(redo_steps)
<1>1. /\ ~InTrx /\ redo_steps # <<>> /\ counter < MaxCounter
      /\ trx' = NewTrx(step.kind, step, Reverse(step.changes))
      /\ BeginStep(step.kind, undo_steps, rest, "Redoing")
      /\ mode' = "Redoing" /\ db' = db /\ clock' = clock
  BY DEF Redo
<1>2. undo_steps \in Seq(UndoSteps) /\ redo_steps \in Seq(RedoSteps) /\ undo_steps \in Seq(Step)
  BY InvTypes
<1>3. /\ step \in RedoSteps /\ rest \in Seq(RedoSteps)
      /\ Reverse(redo_steps) = <<step>> \o Reverse(rest)
  BY <1>1, <1>2, ReverseLast
<1> HIDE DEF step, rest
<1>4. step \in Step /\ step.kind # "NoUndo" /\ HasChanges(step) /\ StartsModified(step.changes)
      /\ rest \in Seq(Step) /\ Reverse(rest) \in Seq(Step)
  BY <1>3, StepSets, ReverseFacts DEF RedoSteps
<1>5. /\ undo_steps' = undo_steps /\ redo_steps' = rest /\ current_step' = NewStep(step.kind)
      /\ counter' = counter + 1
  BY <1>1, <1>4 DEF BeginStep
<1>6. /\ Here = Now /\ Behind = ReturnAll(Now, undo_steps)
      /\ Ahead = ReturnAll(Now, Reverse(redo_steps))
      /\ Leads(Now, undo_steps, clock) /\ Leads(Now, Reverse(redo_steps), clock)
  BY <1>1, IdleFacts
<1>7. trx'.step = step
  BY <1>1 DEF NewTrx
<1>8. PastSteps' = undo_steps /\ FutureSteps' = Reverse(redo_steps)
  <2>1. ActiveStep("Undoing")' = <<>> /\ ActiveStep("Redoing")' = <<step>>
    BY <1>1, <1>7 DEF ActiveStep
  <2>2. <<>> \o undo_steps = undo_steps
    BY <1>2, NoPrefix
  <2>3. QED
    BY <1>3, <1>5, <2>1, <2>2 DEF PastSteps, FutureSteps
<1>9. Reverts(Now, step.changes, Return(Now, step))
  <2> DEFINE steps == Reverse(rest)
  <2>1. steps \in Seq(Step) /\ Leads(Now, <<step>> \o steps, clock)
    BY <1>3, <1>4, <1>6
  <2> HIDE DEF steps
  <2>2. QED
    BY <1>4, <2>1, LeadsNext
<1>10. /\ HistoryInv' /\ Here' = Now
       /\ Behind' = ReturnAll(Now, PastSteps') /\ Ahead' = ReturnAll(Now, FutureSteps')
  BY <1>1, <1>2, <1>3, <1>4, <1>5, <1>6, <1>8, <1>9, StartReplay
<1>11. QED
  BY <1>6, <1>8, <1>10, Stuttering

\* A sequence with one more element at its end.
LEMMA SnocFacts ==
  ASSUME NEW S, NEW s \in Seq(S), NEW x \in S
  PROVE  /\ s \o <<x>> \in Seq(S) /\ Len(s \o <<x>>) = Len(s) + 1 /\ s \o <<x>> # <<>>
         /\ (s \o <<x>>)[Len(s) + 1] = x
         /\ \A n \in 1..Len(s) : (s \o <<x>>)[n] = s[n]
<1> DEFINE one == <<x>>
           u == s \o one
<1>1. one \in Seq(S) /\ Len(one) = 1 /\ one[1] = x
  OBVIOUS
<1>2. Len(s) \in Nat
  BY LenProperties
<1> HIDE DEF one
<1>3. /\ u \in Seq(S) /\ Len(u) = Len(s) + 1
      /\ \A n \in 1..(Len(s) + 1) : u[n] = IF n <= Len(s) THEN s[n] ELSE one[n - Len(s)]
  <2>1. /\ u \in Seq(S) /\ Len(u) = Len(s) + Len(one)
        /\ \A n \in 1..(Len(s) + Len(one)) : u[n] = IF n <= Len(s) THEN s[n] ELSE one[n - Len(s)]
    BY <1>1, ConcatProperties
  <2> HIDE DEF u
  <2>2. QED
    BY <1>1, <2>1
<1> HIDE DEF u
<1>4. u # <<>>
  <2>1. Len(u) # 0
    BY <1>2, <1>3
  <2>2. QED
    BY <2>1, EmptySeq
<1>5. u[Len(s) + 1] = x
  <2>1. Len(s) + 1 \in 1..(Len(s) + 1) /\ ~ (Len(s) + 1 <= Len(s)) /\ (Len(s) + 1) - Len(s) = 1
    BY <1>2
  <2>2. QED
    BY <1>1, <1>3, <2>1
<1>6. \A n \in 1..Len(s) : u[n] = s[n]
  <2> SUFFICES ASSUME NEW n \in 1..Len(s) PROVE u[n] = s[n]
    OBVIOUS
  <2>1. n \in 1..(Len(s) + 1) /\ n <= Len(s)
    BY <1>2
  <2>2. QED
    BY <1>3, <2>1
<1>7. QED
  BY <1>3, <1>4, <1>5, <1>6 DEF u, one

\* Of the changes still to be reverted, and of those recorded in their stead, the
\* ones at the ends stay in place.
LEMMA ReplayedEnds ==
  ASSUME NEW todo \in Seq(Change), todo # <<>>, NEW done \in Seq(Change), NEW inv \in Change,
         Head(todo).kind = "Modified" => inv.kind = "Modified"
  PROVE  /\ (IF done = <<>> THEN StartsModified(todo) ELSE StartsModified(done))
              => StartsModified(done \o <<inv>>)
         /\ EndsModified(todo) => IF Tail(todo) = <<>> THEN EndsModified(done \o <<inv>>)
                                                      ELSE EndsModified(Tail(todo))
<1> DEFINE more == done \o <<inv>>
           rest == Tail(todo)
<1>1. /\ more \in Seq(Change) /\ Len(more) = Len(done) + 1 /\ more # <<>>
      /\ more[Len(done) + 1] = inv /\ \A n \in 1..Len(done) : more[n] = done[n]
  BY SnocFacts
<1>2. Len(done) \in Nat /\ Len(todo) \in Nat \ {0}
  BY LenProperties, EmptySeq
<1>3. Head(todo) = todo[1]
  OBVIOUS
<1>4. rest \in Seq(Change) /\ Len(rest) = Len(todo) - 1 /\ \A n \in 1..Len(rest) : rest[n] = todo[n + 1]
  BY HeadTailProperties
<1> HIDE DEF more, rest
<1>5. ASSUME IF done = <<>> THEN StartsModified(todo) ELSE StartsModified(done)
      PROVE  StartsModified(more)
  <2>1. CASE done = <<>>
    <3>1. Len(done) + 1 = 1 /\ todo[1].kind = "Modified"
      BY <1>5, <2>1, EmptySeq DEF StartsModified
    <3>2. QED
      BY <1>1, <1>3, <3>1 DEF StartsModified
  <2>2. CASE done # <<>>
    <3>1. Len(done) # 0 /\ done[1].kind = "Modified"
      BY <1>5, <2>2, EmptySeq DEF StartsModified
    <3>2. 1 \in 1..Len(done)
      BY <1>2, <3>1
    <3>3. QED
      BY <1>1, <3>1, <3>2 DEF StartsModified
  <2>3. QED
    BY <2>1, <2>2
<1>6. ASSUME EndsModified(todo)
      PROVE  IF rest = <<>> THEN EndsModified(more) ELSE EndsModified(rest)
  <2>1. todo[Len(todo)].kind = "Modified"
    BY <1>6 DEF EndsModified
  <2>2. CASE rest = <<>>
    <3>1. Len(rest) = 0
      BY <2>2, EmptySeq
    <3>2. Len(todo) = 1
      BY <1>2, <1>4, <3>1
    <3>3. more[Len(more)] = inv
      BY <1>1
    <3>4. QED
      BY <1>3, <2>1, <2>2, <3>2, <3>3 DEF EndsModified
  <2>3. CASE rest # <<>>
    <3>1. Len(rest) # 0
      BY <1>4, <2>3, EmptySeq
    <3>2. Len(rest) \in 1..Len(rest) /\ Len(rest) + 1 = Len(todo)
      BY <1>2, <1>4, <3>1
    <3>3. rest[Len(rest)] = todo[Len(todo)]
      BY <1>4, <3>2
    <3>4. QED
      BY <2>1, <2>3, <3>3 DEF EndsModified
  <2>4. QED
    BY <2>2, <2>3
<1>7. QED
  BY <1>5, <1>6 DEF more, rest

\* A change that is reverted is recorded inverted, whichever way the step goes.
LEMMA RevertNextHistory ==
  ASSUME HistoryInv, RevertNext
  PROVE  HistoryInv' /\ HistoryStep
<1> DEFINE c == Head(trx.todo)
           inv == Inverted(Now, c)
           s == Began
           o == trx.op
           w == trx.writes
           st == trx.step
           td == trx.todo
           done == current_step.changes
           e == Return(Began, trx.step)
<1>26. /\ InTrx /\ td # <<>> /\ db' = Revert(db, c) /\ current_step' = Save(current_step, <<Inverted(db, c)>>)
      /\ trx' = [trx EXCEPT !.todo = Tail(@)] /\ undo_steps' = undo_steps /\ redo_steps' = redo_steps
      /\ mode' = mode /\ counter' = counter /\ clock' = clock
  BY DEF RevertNext, queues
<1>27. c \in Change
  <2>1. td \in Seq(Change) /\ td # <<>>
    BY <1>26 DEF HistoryInv, TypeOK
  <2>2. QED
    BY <2>1, HeadAndTail
<1>28. db \in Db /\ trx.saved \in Db /\ Now = Returnable(db) /\ Began = Returnable(trx.saved)
       /\ Now \in Db /\ Now \in PlainDb
  BY <1>26, InvDb DEF Now, Began
<1>29. db' \in Db /\ Now' = Back(Now, c) /\ Inverted(db, c) = inv
  <2> HIDE DEF c
  <2>1. QED
    BY <1>26, <1>27, <1>28, BackIsRevert DEF Now
<1>1. /\ InTrx /\ td # <<>> /\ Now' = Back(Now, c) /\ current_step' = Save(current_step, <<inv>>)
      /\ trx' = [trx EXCEPT !.todo = Tail(@)] /\ undo_steps' = undo_steps /\ redo_steps' = redo_steps
      /\ mode' = mode /\ counter' = counter /\ clock' = clock
  BY <1>26, <1>29
<1>2. mode \in {"Undoing", "Redoing"} /\ mode # "NormalOp"
  <2>1. mode # "NormalOp"
    BY <1>1, RecordingFacts DEF Recording
  <2>2. QED
    BY <2>1 DEF HistoryInv, TypeOK
<1>3. IsTrx /\ Replaying
  BY <1>1, <1>2, UndoingFacts, RedoingFacts
<1>4. Leads(s, PastSteps, clock) /\ Leads(s, FutureSteps, clock) /\ Here = s
  BY <1>1 DEF HistoryInv, Here, Present, Began
<1>5. /\ o \in OpKinds \cup {"Custom"} /\ w \in 0..MaxWrites /\ td \in Seq(Change)
      /\ undo_steps \in Seq(UndoSteps) /\ redo_steps \in Seq(RedoSteps)
      /\ counter \in 0..MaxCounter /\ clock \in 0..MaxClock
  BY <1>1, InvTypes DEF HistoryInv, TypeOK
<1>6. /\ st \in Step /\ st.kind # "NoUndo" /\ HasChanges(st)
      /\ current_step \in Step /\ current_step.kind = st.kind /\ o = st.kind
      /\ Len(done) + Len(td) = Len(st.changes)
      /\ Reverts(Now, done, s) /\ Replays(Now, td, e)
      /\ mode = "Undoing" => IF done = <<>> THEN StartsModified(td) ELSE StartsModified(done)
      /\ mode = "Redoing" => IF td = <<>> THEN EndsModified(done) ELSE EndsModified(td)
  BY <1>3 DEF Replaying
<1>7. trx' = [open |-> TRUE, saved |-> trx.saved, op |-> o, writes |-> w, step |-> st, todo |-> Tail(td)]
  <2>1. trx = [open |-> TRUE, saved |-> trx.saved, op |-> o, writes |-> w, step |-> st, todo |-> td]
    BY <1>3 DEF IsTrx
  <2>2. trx' = [trx EXCEPT !.todo = Tail(trx.todo)] /\ trx.todo = td
    BY <1>1
  <2> DEFINE sv == trx.saved
             rest == Tail(td)
  <2>3. trx = [open |-> TRUE, saved |-> sv, op |-> o, writes |-> w, step |-> st, todo |-> td]
    BY <2>1
  <2>4. trx' = [trx EXCEPT !.todo = rest]
    BY <2>2
  <2> HIDE DEF o, w, st, td, sv, rest
  <2>5. trx' = [open |-> TRUE, saved |-> sv, op |-> o, writes |-> w, step |-> st, todo |-> rest]
    BY ONLY <2>3, <2>4
  <2>6. QED
    BY <2>5 DEF sv, rest
<1>8. Fits(Now, c) /\ Replays(Back(Now, c), Tail(td), e)
  BY <1>1, <1>6, ReplaysNext
<1>9. Head(td) = c
  OBVIOUS
<1> HIDE DEF c
<1>10. /\ Back(Now, c) \in PlainDb /\ inv \in Change /\ Fits(Back(Now, c), inv)
       /\ Back(Back(Now, c), inv) = Now /\ (c.kind = "Modified" => inv.kind = "Modified")
  BY <1>27, <1>28, <1>8, RevertFits
<1> HIDE DEF inv, o, w, st, td, e
<1>11. Reverts(Now', <<inv>>, Now)
  BY <1>1, <1>10, RevertsOne
<1>12. Reverts(Now', done \o <<inv>>, s)
  BY <1>6, <1>11, RevertsConcat
<1>13. done \in Seq(Change) /\ <<inv>> \in Seq(Change)
  BY <1>6, <1>11, RevertsTypes
<1>14. /\ current_step' \in Step /\ current_step'.kind = st.kind
       /\ current_step'.changes = done \o <<inv>>
  BY <1>1, <1>6, <1>13, SaveChanges
<1>15. Tail(td) \in Seq(Change) /\ Len(Tail(td)) = Len(td) - 1 /\ Len(td) \in Nat
  BY <1>1, <1>5, HeadTailProperties, LenProperties
<1>16. Len(done \o <<inv>>) + Len(Tail(td)) = Len(st.changes)
  <2>1. Len(done \o <<inv>>) = Len(done) + 1 /\ Len(done) \in Nat
    BY <1>10, <1>13, SnocFacts, LenProperties
  <2>2. QED
    BY <1>6, <1>15, <2>1
<1>17. /\ (IF done = <<>> THEN StartsModified(td) ELSE StartsModified(done))
            => StartsModified(done \o <<inv>>)
       /\ EndsModified(td) => IF Tail(td) = <<>> THEN EndsModified(done \o <<inv>>)
                                                 ELSE EndsModified(Tail(td))
  BY <1>1, <1>5, <1>9, <1>10, <1>13, ReplayedEnds
<1>18. done \o <<inv>> # <<>>
  BY <1>10, <1>13, SnocFacts
<1>19. /\ Began' = s /\ trx'.op = o /\ trx'.step = st /\ trx'.todo = Tail(td) /\ Here' = s
  BY <1>7, <1>28, OpenTrx
<1>20. Replaying'
  <2> DEFINE more == done \o <<inv>>
             rest == Tail(td)
  <2>1. /\ current_step'.changes = more /\ Len(more) + Len(rest) = Len(st.changes)
        /\ Reverts(Now', more, s) /\ more # <<>> /\ Replays(Now', rest, e)
        /\ trx'.todo = rest
    BY <1>1, <1>8, <1>12, <1>14, <1>16, <1>18, <1>19
  <2>2. mode' = "Undoing" => StartsModified(more)
    BY <1>1, <1>6, <1>17
  <2>3. mode' = "Redoing" => IF rest = <<>> THEN EndsModified(more) ELSE EndsModified(rest)
    BY <1>1, <1>6, <1>17
  <2>4. e = Return(Began', trx'.step)
    BY <1>19 DEF e, s, st
  <2> HIDE DEF more, rest
  <2>5. QED
    BY <1>6, <1>14, <1>19, <2>1, <2>2, <2>3, <2>4 DEF Replaying
<1>21. PastSteps' = PastSteps /\ FutureSteps' = FutureSteps
  <2>1. trx'.step = trx.step
    BY <1>19 DEF st
  <2>2. ActiveStep("Undoing")' = ActiveStep("Undoing") /\ ActiveStep("Redoing")' = ActiveStep("Redoing")
    BY <1>1, <2>1 DEF ActiveStep
  <2>3. QED
    BY <1>1, <2>2 DEF PastSteps, FutureSteps
<1>22. Leads(s, PastSteps', clock') /\ Leads(s, FutureSteps', clock')
  BY <1>1, <1>4, <1>21
<1>23. /\ HistoryInv'
       /\ Behind' = ReturnAll(s, PastSteps') /\ Ahead' = ReturnAll(s, FutureSteps')
  <2>1. /\ mode' \in {"Undoing", "Redoing"} /\ undo_steps' \in Seq(UndoSteps)
        /\ redo_steps' \in Seq(RedoSteps) /\ db' \in Db
        /\ counter' \in 0..MaxCounter /\ clock' \in 0..MaxClock
    BY <1>1, <1>2, <1>5, <1>29
  <2> DEFINE rest == Tail(td)
  <2>2. rest \in Seq(Change) /\ trx' = [open |-> TRUE, saved |-> trx.saved, op |-> o, writes |-> w,
                                         step |-> st, todo |-> rest]
    BY <1>7, <1>15
  <2> HIDE DEF rest
  <2>3. QED
    BY <1>5, <1>6, <1>14, <1>20, <1>22, <1>28, <2>1, <2>2, ReplayingAfter
<1>24. Behind = ReturnAll(s, PastSteps) /\ Ahead = ReturnAll(s, FutureSteps)
  BY <1>4, SeenHistory
<1>25. QED
  BY <1>4, <1>19, <1>21, <1>23, <1>24, Stuttering

-----------------------------------------------------------------------------
(* A note update that is folded into the previous one.                      *)

\* Row i and the collection's time stamp are put back; the rest stays.
Renoted(d, i, old, t) ==
  [items |-> [d.items EXCEPT ![i] = old], graves |-> d.graves, mod |-> t, ls |-> d.ls]

\* Renoted is what reverting the two changes of a note update does.
LEMMA RenotedReverts ==
  ASSUME NEW d \in PlainDb, NEW i \in Items, NEW old \in Entry, NEW t \in 0..MaxClock
  PROVE  /\ SetRow(Stamped(d, t), i, old) = Renoted(d, i, old, t)
         /\ Renoted(d, i, old, t) \in PlainDb
<1> DEFINE rows == [d.items EXCEPT ![i] = old]
           f == Stamped(d, t)
<1>1. /\ d = [items |-> d.items, graves |-> d.graves, mod |-> d.mod, ls |-> d.ls]
      /\ d.items \in [Items -> Entry \cup {NoItem}] /\ d.graves \in SUBSET Items
      /\ d.ls \in 0..MaxClock /\ d.graves \cap Packaged = {}
  BY DEF PlainDb, Db
<1>2. rows \in [Items -> Entry \cup {NoItem}]
  BY <1>1
<1>3. f = [items |-> d.items, graves |-> d.graves, mod |-> t, ls |-> d.ls]
  BY <1>1 DEF Stamped
<1> HIDE DEF f
<1>4. SetRow(f, i, old) = [items |-> rows, graves |-> d.graves, mod |-> t, ls |-> d.ls]
  <2>1. [f EXCEPT !.items[i] = old] =
          [items |-> [f.items EXCEPT ![i] = old], graves |-> f.graves, mod |-> f.mod, ls |-> f.ls]
    BY <1>3
  <2>2. f.items = d.items /\ f.graves = d.graves /\ f.mod = t /\ f.ls = d.ls
    BY <1>3
  <2>3. QED
    BY <2>1, <2>2 DEF SetRow
<1>5. Renoted(d, i, old, t) = [items |-> rows, graves |-> d.graves, mod |-> t, ls |-> d.ls]
  BY DEF Renoted
<1> HIDE DEF rows
<1>6. Renoted(d, i, old, t) \in PlainDb
  BY <1>1, <1>2, <1>5 DEF PlainDb, Db
<1>7. QED
  BY <1>4, <1>5, <1>6 DEF f

\* Of two updates of one row, the earlier decides what reverting both leaves.
LEMMA RenotedAgain ==
  ASSUME NEW d, NEW i, NEW old, NEW t, NEW old1, NEW t1, d \in PlainDb
  PROVE  Renoted(Renoted(d, i, old, t), i, old1, t1) = Renoted(d, i, old1, t1)
<1> DEFINE rows == [d.items EXCEPT ![i] = old]
           e == Renoted(d, i, old, t)
<1>1. d.items \in [Items -> Entry \cup {NoItem}]
  BY DEF PlainDb, Db
<1>2. [rows EXCEPT ![i] = old1] = [d.items EXCEPT ![i] = old1]
  BY <1>1
<1> HIDE DEF rows
<1>3. e.items = rows /\ e.graves = d.graves /\ e.ls = d.ls
  BY DEF Renoted, rows
<1> HIDE DEF e
<1>4. Renoted(e, i, old1, t1) = Renoted(d, i, old1, t1)
  BY <1>2, <1>3 DEF Renoted
<1>5. QED
  BY <1>4 DEF e

\* Only row i is put back.
LEMMA RenotedRows ==
  ASSUME NEW d, NEW i, NEW old, NEW t, d \in PlainDb
  PROVE  \A j \in Items \ {i} : Renoted(d, i, old, t).items[j] = d.items[j]
  BY DEF Renoted, PlainDb, Db

\* What the two changes of a note update revert to.
LEMMA NoteUpdateReverts ==
  ASSUME NEW step \in Step, IsNoteUpdate(step)
  PROVE  LET i == step.changes[1].item
             old == step.changes[1].old
             t == step.changes[2].old
         IN  /\ i \in Items /\ old \in Entry /\ t \in 0..MaxClock
             /\ \A d, e : Reverts(d, step.changes, e) <=>
                            d \in PlainDb /\ d.items[i] # NoItem /\ e = Renoted(d, i, old, t)
<1> DEFINE cs == step.changes
<1>1. /\ cs \in Seq(Change) /\ Len(cs) = 2 /\ cs[1].kind = "Updated" /\ cs[2].kind = "Modified"
  BY DEF Step, IsNoteUpdate
<1>2. PICK u : u = cs[1]
  OBVIOUS
<1>3. PICK m : m = cs[2]
  OBVIOUS
<1> HIDE DEF cs
<1>4. u \in Change /\ m \in Change
  <2>1. 1 \in 1..Len(cs) /\ 2 \in 1..Len(cs)
    BY <1>1
  <2>2. QED
    BY <1>1, <1>2, <1>3, <2>1, ElementOfSeq
<1>5. /\ u.kind = "Updated" /\ u.item \in Items /\ u.old \in Entry
      /\ m.kind = "Modified" /\ m.old \in 0..MaxClock
  BY <1>1, <1>2, <1>3, <1>4, ChangeKinds
<1>6. cs = <<u>> \o <<m>>
  <2>1. <<u>> \in Seq(Change) /\ <<m>> \in Seq(Change)
    BY <1>4
  <2>2. cs # <<>>
    BY <1>1, EmptySeq
  <2>3. cs = <<cs[1]>> \o Tail(cs)
    BY <1>1, <2>2, HeadAndTail
  <2>4. /\ Tail(cs) \in Seq(Change) /\ Len(Tail(cs)) = 1 /\ Tail(cs)[1] = m
    <3>1. /\ Tail(cs) \in Seq(Change) /\ Len(Tail(cs)) = Len(cs) - 1
          /\ \A n \in 1..Len(Tail(cs)) : Tail(cs)[n] = cs[n + 1]
      BY <1>1, <2>2, HeadTailProperties
    <3>2. Len(Tail(cs)) = 1 /\ 1 \in 1..1 /\ 1 + 1 = 2
      BY <1>1, <3>1
    <3>3. QED
      BY <1>3, <3>1, <3>2
  <2>5. Tail(cs) = <<m>>
    <3> DEFINE rest == Tail(cs)
               one == <<m>>
    <3>1. one \in Seq(Change) /\ Len(one) = 1 /\ one[1] = m
      BY <1>4
    <3>2. rest \in Seq(Change) /\ Len(rest) = 1 /\ rest[1] = m
      BY <2>4
    <3> HIDE DEF rest, one
    <3>3. \A n \in 1..Len(rest) : rest[n] = one[n]
      BY <3>1, <3>2
    <3>4. rest = one
      BY <3>1, <3>2, <3>3, SeqEqual
    <3>5. QED
      BY <3>4 DEF rest, one
  <2>6. QED
    BY <1>2, <2>3, <2>5
<1>7. ASSUME NEW d \in PlainDb
      PROVE  /\ Back(d, m) = Stamped(d, m.old) /\ Back(d, m) \in PlainDb /\ Fits(d, m)
             /\ Back(d, m).items = d.items
             /\ Back(Back(d, m), u) = Renoted(d, u.item, u.old, m.old)
             /\ Fits(Back(d, m), u) <=> d.items[u.item] # NoItem
  <2>0. d \in Db /\ Returnable(d) = d
    BY PlainFacts
  <2>1. Back(d, m) = Stamped(d, m.old) /\ Fits(d, m)
    <3>1. Revert(d, m) = Stamped(d, m.old) /\ Fits(d, m)
      BY <1>5 DEF Stamped, Revert, Fits
    <3>2. Returnable(Stamped(d, m.old)) = Stamped(d, m.old)
      BY <1>5, <2>0, ReturnableStamp
    <3>3. QED
      BY <3>1, <3>2 DEF Back
  <2>2. Back(d, m) \in PlainDb /\ Back(d, m).items = d.items
    <3>1. PICK t \in 0..MaxClock : t = m.old
      BY <1>5
    <3>2. Stamped(d, t) \in PlainDb /\ Stamped(d, t).items = d.items
      BY StampOfPlain
    <3>3. QED
      BY <2>1, <3>1, <3>2
  <2> DEFINE f == Back(d, m)
  <2>3. SetRow(f, u.item, u.old) = Renoted(d, u.item, u.old, m.old)
    BY <1>5, <2>1, RenotedReverts
  <2> HIDE DEF f
  <2>6. f \in Db /\ Returnable(f) = f
    BY <2>2, PlainFacts DEF f
  <2>4. Back(f, u) = SetRow(f, u.item, u.old) /\ (Fits(f, u) <=> f.items[u.item] # NoItem)
    <3>1. Revert(f, u) = SetRow(f, u.item, u.old) /\ (Fits(f, u) <=> f.items[u.item] # NoItem)
      BY <1>5 DEF Revert, Fits
    <3>2. Returnable(SetRow(f, u.item, u.old)) = SetRow(f, u.item, u.old)
      BY <1>5, <2>6, ReturnableRow
    <3>3. QED
      BY <3>1, <3>2 DEF Back
  <2>5. QED
    BY <2>1, <2>2, <2>3, <2>4 DEF f
<1>8. ASSUME NEW d, NEW e, d \in PlainDb, d.items[u.item] # NoItem, e = Renoted(d, u.item, u.old, m.old)
      PROVE  Reverts(d, cs, e)
  <2>1. Reverts(d, <<m>>, Back(d, m))
    BY <1>4, <1>7, <1>8, RevertsOne
  <2>2. Reverts(Back(d, m), <<u>>, e)
    BY <1>4, <1>7, <1>8, RevertsOne
  <2>3. QED
    BY <1>6, <2>1, <2>2, RevertsConcat
<1>9. ASSUME NEW d, NEW e, Reverts(d, cs, e)
      PROVE  d \in PlainDb /\ d.items[u.item] # NoItem /\ e = Renoted(d, u.item, u.old, m.old)
  <2>1. d \in PlainDb
    BY <1>9, RevertsTypes
  <2>2. Reverse(cs) = <<m>> \o <<u>>
    <3>1. <<u>> \in Seq(Change) /\ <<m>> \in Seq(Change)
      BY <1>4
    <3>2. QED
      BY ZenonT(60), <1>6, <3>1, ReverseConcat, ReverseSmall
  <2>3. Replays(d, <<m>> \o <<u>>, e)
    BY <1>9, <2>2 DEF Reverts
  <2>4. /\ <<m>> \o <<u>> # <<>> /\ Head(<<m>> \o <<u>>) = m /\ Tail(<<m>> \o <<u>>) = <<u>>
    <3> DEFINE one == <<u>>
    <3>1. one \in Seq(Change)
      BY <1>4
    <3> HIDE DEF one
    <3>2. <<m>> \o one # <<>> /\ Head(<<m>> \o one) = m /\ Tail(<<m>> \o one) = one
      BY <1>4, <3>1, ConsFacts
    <3>3. QED
      BY <3>2 DEF one
  <2>5. Replays(Back(d, m), <<u>>, e)
    BY <2>3, <2>4, ReplaysNext
  <2>6. <<u>> # <<>> /\ Head(<<u>>) = u /\ Tail(<<u>>) = <<>>
    OBVIOUS
  <2>7. Fits(Back(d, m), u) /\ Replays(Back(Back(d, m), u), <<>>, e)
    BY <2>5, <2>6, ReplaysNext
  <2>8. e = Back(Back(d, m), u)
    BY <2>7, ReplaysEmpty
  <2>9. QED
    BY <1>7, <2>1, <2>7, <2>8
<1>10. QED
  BY <1>2, <1>3, <1>5, <1>8, <1>9 DEF cs

\* Without the newer step, the previous one takes both updates back: the same
\* states remain reachable, and the present differs from the last in one row.
LEMMA FoldedUpdate ==
  ASSUME NEW s, NEW undo, NEW t, Leads(s, undo, t), undo \in Seq(Step), undo # <<>>,
         NEW d \in SoundDb(t), NEW step \in Step, Reverts(d, step.changes, s),
         IsNoteUpdate(step), IsNoteUpdate(Head(undo)),
         step.changes[1].item = Head(undo).changes[1].item
  PROVE  LET p == ReturnAll(s, undo)
             i == step.changes[1].item
         IN  /\ Leads(d, undo, t) /\ ReturnAll(d, undo) = p
             /\ p # <<>> /\ d.graves = p[1].graves /\ i \in DOMAIN d.items
             /\ \A j \in DOMAIN d.items \ {i} : d.items[j] = p[1].items[j]
<1> DEFINE first == Head(undo)
           rest == Tail(undo)
<1>1. first \in Step /\ rest \in Seq(Step) /\ undo = <<first>> \o rest
  BY HeadAndTail
<1> HIDE DEF first, rest
<1>2. IsNoteUpdate(first) /\ step.changes[1].item = first.changes[1].item
  BY DEF first
<1> DEFINE e == Return(s, first)
<1>3. /\ e \in SoundDb(t) /\ Reverts(s, first.changes, e) /\ Leads(e, rest, t)
      /\ ReturnAll(s, undo) = <<e>> \o ReturnAll(e, rest)
  BY <1>1, LeadsNext
<1> HIDE DEF e
<1>4. PICK i : i = step.changes[1].item
  OBVIOUS
<1>5. PICK old \in Entry : old = step.changes[1].old
  BY NoteUpdateReverts
<1>6. PICK m \in 0..MaxClock : m = step.changes[2].old
  BY NoteUpdateReverts
<1>7. PICK old1 \in Entry : old1 = first.changes[1].old
  BY <1>1, <1>2, NoteUpdateReverts
<1>8. PICK m1 \in 0..MaxClock : m1 = first.changes[2].old
  BY <1>1, <1>2, NoteUpdateReverts
<1>9. /\ i \in Items
      /\ \A x, y : Reverts(x, step.changes, y) <=>
                     x \in PlainDb /\ x.items[i] # NoItem /\ y = Renoted(x, i, old, m)
  BY <1>4, <1>5, <1>6, NoteUpdateReverts
<1>10. \A x, y : Reverts(x, first.changes, y) <=>
                   x \in PlainDb /\ x.items[i] # NoItem /\ y = Renoted(x, i, old1, m1)
  BY ZenonT(60), <1>1, <1>2, <1>4, <1>7, <1>8, NoteUpdateReverts
<1>11. d \in PlainDb /\ d.items[i] # NoItem /\ s = Renoted(d, i, old, m)
  BY <1>9
<1>12. e = Renoted(s, i, old1, m1)
  BY <1>3, <1>10
<1>13. e = Renoted(d, i, old1, m1) /\ \A j \in Items \ {i} : e.items[j] = d.items[j]
  <2>1. Renoted(Renoted(d, i, old, m), i, old1, m1) = Renoted(d, i, old1, m1)
    BY <1>9, <1>11, RenotedAgain
  <2>2. \A j \in Items \ {i} : Renoted(d, i, old1, m1).items[j] = d.items[j]
    BY <1>9, <1>11, RenotedRows
  <2>3. QED
    BY <1>11, <1>12, <2>1, <2>2
<1>14. Reverts(d, first.changes, e)
  BY <1>10, <1>11, <1>13
<1>15. /\ Leads(d, undo, t) /\ ReturnAll(d, undo) = <<e>> \o ReturnAll(e, rest)
  BY <1>1, <1>3, <1>14, LeadsCons
<1>16. ReturnAll(s, undo) # <<>> /\ ReturnAll(s, undo)[1] = e
  <2> DEFINE p == ReturnAll(e, rest)
  <2>1. p \in Seq(SoundDb(t))
    BY <1>3, LeadsTypes
  <2> HIDE DEF p
  <2>2. <<e>> \o p # <<>> /\ (<<e>> \o p)[1] = e
    BY <1>3, <2>1, ConsFacts
  <2>3. QED
    BY <1>3, <2>2 DEF p
<1>17. d.graves = e.graves
  BY <1>13 DEF Renoted
<1>18. DOMAIN d.items = Items
  BY <1>11 DEF PlainDb, Db
<1>19. ReturnAll(d, undo) = ReturnAll(s, undo)
  BY <1>3, <1>15
<1>20. PICK p : p = ReturnAll(s, undo)
  OBVIOUS
<1>21. p # <<>> /\ p[1] = e
  BY <1>16, <1>20
<1>22. /\ d.graves = p[1].graves /\ i \in DOMAIN d.items
       /\ \A j \in DOMAIN d.items \ {i} : d.items[j] = p[1].items[j]
  BY <1>9, <1>13, <1>17, <1>18, <1>21
<1>23. Leads(d, undo, t) /\ ReturnAll(d, undo) = p
  BY <1>15, <1>19, <1>20
<1>24. QED
  BY <1>4, <1>20, <1>21, <1>22, <1>23

-----------------------------------------------------------------------------
(* Ending a transaction.                                                    *)

\* commit gives the collection a later stamp, so what is unsent is covered by it.
LEMMA StampIsSound ==
  ASSUME NEW d \in PlainDb, Consistent(d), NEW t \in Nat, t < MaxClock, d.ls <= t
  PROVE  Stamped(d, t + 1) \in SoundDb(t + 1)
<1>1. t + 1 \in 0..MaxClock /\ d.ls \in 0..MaxClock
  BY BoundsAssumption DEF PlainDb, Db
<1> DEFINE e == Stamped(d, t + 1)
<1>2. e \in PlainDb /\ e.items = d.items /\ e.graves = d.graves /\ e.mod = t + 1 /\ e.ls = d.ls
  BY <1>1, StampOfPlain
<1> HIDE DEF e
<1>3. Consistent(e)
  BY <1>2 DEF Consistent
<1>4. e.ls <= t + 1 /\ e.mod > e.ls
  BY <1>1, <1>2
<1>5. e \in SoundDb(t + 1)
  BY <1>2, <1>3, <1>4 DEF SoundDb
<1>6. QED
  BY <1>5 DEF e

\* The step that commit ends: the recorded changes and the old stamp.
LEMMA StampedStep ==
  ASSUME NEW d \in PlainDb, NEW t \in 0..MaxClock, NEW step \in Step, NEW s,
         Reverts(d, step.changes, s)
  PROVE  LET stamped == Save(step, <<Modified(d.mod)>>)
         IN  /\ stamped \in Step /\ stamped.kind = step.kind
             /\ HasChanges(stamped) /\ EndsModified(stamped.changes)
             /\ Reverts(Stamped(d, t), stamped.changes, s)
<1> DEFINE m == Modified(d.mod)
           e == Stamped(d, t)
<1>11. d \in Db
  BY PlainFacts
<1>1. m \in Change /\ m.kind = "Modified" /\ m.old = d.mod
  BY <1>11, NewChanges DEF Db, Modified
<1>2. e \in PlainDb /\ Stamped(e, d.mod) = d
  BY StampOfPlain
<1> HIDE DEF m, e
<1>3. Fits(e, m) /\ Revert(e, m) = d
  BY <1>1, <1>2 DEF Stamped, Fits, Revert
<1>4. Reverts(e, <<m>>, d)
  BY <1>1, <1>2, <1>3, RevertsExactly
<1>5. Reverts(e, step.changes \o <<m>>, s)
  BY <1>4, RevertsConcat
<1>6. step.changes \in Seq(Change) /\ <<m>> \in Seq(Change)
  BY <1>4, RevertsTypes
<1> DEFINE stamped == Save(step, <<m>>)
<1>7. /\ stamped \in Step /\ stamped.kind = step.kind
      /\ stamped.changes = step.changes \o <<m>>
  BY <1>6, SaveChanges
<1> HIDE DEF stamped
<1>8. step.changes \o <<m>> # <<>> /\ EndsModified(step.changes \o <<m>>)
  <2> DEFINE more == step.changes \o <<m>>
  <2>1. more # <<>> /\ Len(more) = Len(step.changes) + 1 /\ more[Len(step.changes) + 1] = m
    BY <1>1, <1>6, SnocFacts
  <2> HIDE DEF more
  <2>2. EndsModified(more)
    BY <1>1, <2>1 DEF EndsModified
  <2>3. QED
    BY <2>1, <2>2 DEF more
<1>9. QED
  BY <1>5, <1>7, <1>8 DEF HasChanges, stamped, m, e

\* The stamp of the commit, as the history sees it.
LEMMA StampedNow ==
  ASSUME HistoryInv, NEW t \in 0..MaxClock, db' = Stamped(db, t)
  PROVE  /\ db' \in Db /\ Now' = Stamped(Now, t)
         /\ Modified(db.mod) = Modified(Now.mod)
<1>1. db \in Db /\ Now.mod = db.mod
  BY InvDb
<1>2. Stamped(db, t) \in Db /\ Returnable(Stamped(db, t)) = Stamped(Returnable(db), t)
  <2>1. PICK x \in Db : x = db
    BY <1>1
  <2>2. Stamped(x, t) \in Db /\ Returnable(Stamped(x, t)) = Stamped(Returnable(x), t)
    BY StampOfDb, ReturnableStamp
  <2>3. QED
    BY <2>1, <2>2
<1>3. Now' = Returnable(Stamped(db, t))
  BY DEF Now
<1>4. Returnable(Stamped(db, t)) = Stamped(Now, t)
  BY <1>2 DEF Now
<1>5. QED
  BY <1>1, <1>2, <1>3, <1>4

\* A step that end_step() does not keep.
LEMMA EndNothing ==
  ASSUME NEW step, EndStep(step),
         step = NoStep \/ ~HasChanges(step)
  PROVE  undo_steps' = undo_steps /\ redo_steps' = redo_steps /\ current_step' = NoStep
  BY DEF EndStep

\* A step that it keeps.
LEMMA EndKept ==
  ASSUME NEW step \in Step, EndStep(step), HasChanges(step), step.kind # "SkipUndo"
  PROVE  /\ current_step' = NoStep
         /\ mode # "Undoing" => undo_steps' = PushUndo(step, undo_steps) /\ redo_steps' = redo_steps
         /\ mode = "Undoing" => undo_steps' = undo_steps /\ redo_steps' = Append(redo_steps, step)
  BY NoStepAssumption DEF EndStep

\* An operation that cannot be undone.
LEMMA CommitNoUndo ==
  ASSUME HistoryInv, NEW recent \in BOOLEAN, Commit(recent), trx.op = "NoUndo"
  PROVE  HistoryInv' /\ HistoryStep
<1> DEFINE stamped == Save(current_step, <<Modified(Now.mod)>>)
<1>20. /\ InTrx /\ clock < MaxClock /\ clock' = clock + 1 /\ db' = Stamped(db, clock + 1)
       /\ recent => Coalesces(Save(current_step, <<Modified(db.mod)>>))
       /\ EndStep(IF recent THEN [Save(current_step, <<Modified(db.mod)>>) EXCEPT !.changes = <<>>]
                  ELSE Save(current_step, <<Modified(db.mod)>>))
       /\ trx' = NoTrx /\ mode' = "NormalOp" /\ counter' = counter
  BY DEF Stamped, Commit
<1>23. clock \in Nat
  BY InvTypes
<1>21. clock + 1 \in 0..MaxClock
  BY <1>20, <1>23, BoundsAssumption
<1>22. /\ db' \in Db /\ Now' = Stamped(Now, clock + 1)
       /\ Modified(db.mod) = Modified(Now.mod)
  <2>1. PICK t \in 0..MaxClock : t = clock + 1
    BY <1>21
  <2>2. QED
    BY <1>20, <2>1, StampedNow
<1>1. /\ InTrx /\ clock < MaxClock /\ clock' = clock + 1 /\ Now' = Stamped(Now, clock + 1)
      /\ recent => Coalesces(stamped)
      /\ EndStep(IF recent THEN [stamped EXCEPT !.changes = <<>>] ELSE stamped)
      /\ trx' = NoTrx /\ mode' = "NormalOp" /\ counter' = counter
  BY <1>20, <1>22
<1>2. mode = "NormalOp"
  <2>1. SUFFICES ASSUME mode # "NormalOp" PROVE FALSE
    OBVIOUS
  <2>2. Replaying
    BY <1>1, <2>1 DEF HistoryInv, InTrx, NoTrx
  <2>3. QED
    BY <2>2 DEF Replaying
<1>3. /\ Recording /\ redo_steps = <<>> /\ current_step = NoStep /\ undo_steps = <<>>
  BY <1>1, <1>2, RecordingFacts DEF Recording
<1>4. stamped = NoStep
  BY <1>3 DEF Save
<1> HIDE DEF stamped
<1>5. ~recent
  BY <1>1, <1>4 DEF Coalesces
<1>6. undo_steps' = <<>> /\ redo_steps' = <<>> /\ current_step' = NoStep
  BY <1>1, <1>3, <1>4, <1>5, EndNothing
<1>7. /\ counter \in 0..MaxCounter /\ clock \in Nat /\ Now \in PlainDb /\ Now.ls = db.ls
  BY InvTypes, InvDb
<1>8. Now' \in SoundDb(clock')
  BY <1>1, <1>3, <1>7, StampIsSound DEF Recording
<1>9. clock' \in 0..MaxClock
  BY <1>1, <1>7, BoundsAssumption
<1>10. QED
  BY <1>1, <1>6, <1>7, <1>8, <1>9, <1>22, ForgottenAfter

\* An operation without changes leaves no step.
LEMMA CommitNothing ==
  ASSUME HistoryInv, NEW recent \in BOOLEAN, Commit(recent), mode = "NormalOp",
         trx.op # "NoUndo", ~HasChanges(current_step)
  PROVE  HistoryInv' /\ HistoryStep
<1>1. /\ InTrx /\ clock' = clock /\ db' = db /\ Now' = Now
      /\ recent => Coalesces(current_step)
      /\ EndStep(IF recent THEN [current_step EXCEPT !.changes = <<>>] ELSE current_step)
      /\ trx' = NoTrx /\ mode' = "NormalOp" /\ counter' = counter
  BY DEF Commit, Now
<1>2. /\ Recording /\ redo_steps = <<>> /\ Here = Began
      /\ Behind = ReturnAll(Began, undo_steps) /\ Ahead = <<>>
      /\ Leads(Began, undo_steps, clock) /\ Began \in SoundDb(clock)
  BY <1>1, RecordingFacts
<1>3. /\ current_step \in Step /\ Reverts(Now, current_step.changes, Began)
      /\ current_step.changes = <<>>
  BY <1>2 DEF Recording, HasChanges
<1>4. Now = Began
  BY <1>3, RevertsEmpty
<1>5. ~recent
  <2>1. SUFFICES ASSUME recent PROVE FALSE
    OBVIOUS
  <2>2. Len(current_step.changes) = 2
    BY <1>1, <2>1 DEF Coalesces, IsNoteUpdate
  <2>3. QED
    BY <1>3, <2>2, EmptySeq
<1>6. undo_steps' = undo_steps /\ redo_steps' = redo_steps /\ current_step' = NoStep
  BY <1>1, <1>5, EndNothing
<1>7. /\ counter \in 0..MaxCounter /\ clock \in 0..MaxClock /\ undo_steps \in Seq(UndoSteps)
      /\ redo_steps \in Seq(RedoSteps) /\ db \in Db /\ Now \in PlainDb
  BY InvTypes, InvDb
<1>8. Reverse(<<>>) = <<>> /\ Leads(Began, <<>>, clock) /\ ReturnAll(Began, <<>>) = <<>>
  BY <1>2, ReverseSmall, LeadsEmpty
<1>9. /\ Leads(Now', undo_steps', clock') /\ Leads(Now', Reverse(redo_steps'), clock')
      /\ ReturnAll(Now', undo_steps') = Behind /\ ReturnAll(Now', Reverse(redo_steps')) = Ahead
      /\ Now' = Here
  BY <1>1, <1>2, <1>4, <1>6, <1>8
<1>10. /\ HistoryInv' /\ Here' = Now' /\ Behind' = ReturnAll(Now', undo_steps')
       /\ Ahead' = ReturnAll(Now', Reverse(redo_steps'))
  BY <1>1, <1>6, <1>7, <1>9, IdleAfter
<1>11. QED
  BY <1>9, <1>10, Stuttering

\* A note update in the closure, or a redone one, is folded into the previous step.
LEMMA AmendAfter ==
  ASSUME HistoryInv, NEW s, NEW step \in Step, Here = s, Behind = ReturnAll(s, undo_steps),
         Leads(s, undo_steps, clock'), Coalesces(step), Reverts(Now', step.changes, s),
         Now' \in SoundDb(clock'),
         Ahead' = <<>> \/ (Ahead # <<>> /\ Now' = Head(Ahead) /\ Ahead' = Tail(Ahead)),
         Here' = Now', Behind' = ReturnAll(Now', undo_steps)
  PROVE  HistoryStep
<1>1. /\ undo_steps # <<>> /\ undo_steps \in Seq(Step) /\ IsNoteUpdate(step)
      /\ IsNoteUpdate(Head(undo_steps))
      /\ step.changes[1].item = Head(undo_steps).changes[1].item
  BY InvTypes DEF Coalesces
<1> DEFINE i == step.changes[1].item
<1>2. /\ ReturnAll(Now', undo_steps) = Behind /\ Behind # <<>>
      /\ Now'.graves = Behind[1].graves /\ i \in DOMAIN Now'.items
      /\ \A j \in DOMAIN Now'.items \ {i} : Now'.items[j] = Behind[1].items[j]
  BY <1>1, FoldedUpdate
<1> HIDE DEF i
<1>3. Now' \in Db
  BY SoundIsDb, PlainFacts
<1>4. History!Amend
  BY <1>2, <1>3 DEF History!Amend, Here, Behind, Ahead
<1>5. QED
  BY <1>4 DEF HistoryStep, History!Next

\* After a fold the past is reached as before.
LEMMA FoldedLeads ==
  ASSUME HistoryInv, NEW s, NEW step \in Step,
         Leads(s, undo_steps, clock'), Coalesces(step), Reverts(Now', step.changes, s),
         Now' \in SoundDb(clock')
  PROVE  Leads(Now', undo_steps, clock')
<1>1. /\ undo_steps # <<>> /\ undo_steps \in Seq(Step) /\ IsNoteUpdate(step)
      /\ IsNoteUpdate(Head(undo_steps))
      /\ step.changes[1].item = Head(undo_steps).changes[1].item
  BY InvTypes DEF Coalesces
<1>2. QED
  BY <1>1, FoldedUpdate

\* The step is emptied before end_step() sees it.
LEMMA EmptiedStep ==
  ASSUME NEW step \in Step, IsNoteUpdate(step)
  PROVE  ~HasChanges([step EXCEPT !.changes = <<>>])
<1>1. step = [kind |-> step.kind, changes |-> step.changes, counter |-> step.counter]
  BY DEF Step
<1>2. [step EXCEPT !.changes = <<>>] = [kind |-> step.kind, changes |-> <<>>, counter |-> step.counter]
  BY <1>1
<1>3. step.kind # "Custom"
  BY DEF IsNoteUpdate
<1>4. QED
  BY <1>2, <1>3 DEF HasChanges

\* An operation with changes: its step is pushed, or folded into the previous one.
LEMMA CommitChanges ==
  ASSUME HistoryInv, NEW recent \in BOOLEAN, Commit(recent), mode = "NormalOp",
         trx.op # "NoUndo", HasChanges(current_step), "SkipUndo" \notin OpKinds
  PROVE  HistoryInv' /\ HistoryStep
<1> DEFINE stamped == Save(current_step, <<Modified(Now.mod)>>)
<1>20. /\ InTrx /\ clock < MaxClock /\ clock' = clock + 1 /\ db' = Stamped(db, clock + 1)
       /\ recent => Coalesces(Save(current_step, <<Modified(db.mod)>>))
       /\ EndStep(IF recent THEN [Save(current_step, <<Modified(db.mod)>>) EXCEPT !.changes = <<>>]
                  ELSE Save(current_step, <<Modified(db.mod)>>))
       /\ trx' = NoTrx /\ mode' = "NormalOp" /\ counter' = counter
  BY DEF Stamped, Commit, Undoing
<1>23. clock \in Nat
  BY InvTypes
<1>21. clock + 1 \in 0..MaxClock
  BY <1>20, <1>23, BoundsAssumption
<1>22. /\ db' \in Db /\ Now' = Stamped(Now, clock + 1)
       /\ Modified(db.mod) = Modified(Now.mod)
  <2>1. PICK t \in 0..MaxClock : t = clock + 1
    BY <1>21
  <2>2. QED
    BY <1>20, <2>1, StampedNow
<1>1. /\ InTrx /\ clock < MaxClock /\ clock' = clock + 1 /\ Now' = Stamped(Now, clock + 1)
      /\ recent => Coalesces(stamped)
      /\ EndStep(IF recent THEN [stamped EXCEPT !.changes = <<>>] ELSE stamped)
      /\ trx' = NoTrx /\ mode' = "NormalOp" /\ counter' = counter
  BY <1>20, <1>22
<1>2. /\ Recording /\ redo_steps = <<>> /\ Here = Began
      /\ Behind = ReturnAll(Began, undo_steps) /\ Ahead = <<>>
      /\ Leads(Began, undo_steps, clock)
  BY <1>1, RecordingFacts
<1>3. /\ counter \in 0..MaxCounter /\ clock \in Nat /\ Now \in PlainDb /\ Now.ls = db.ls
      /\ undo_steps \in Seq(UndoSteps) /\ redo_steps \in Seq(RedoSteps)
  BY InvTypes, InvDb
<1>4. clock' \in 0..MaxClock
  BY <1>1, <1>3, BoundsAssumption
<1>5. Now' \in SoundDb(clock')
  BY <1>1, <1>2, <1>3, StampIsSound DEF Recording
<1>6. Leads(Began, undo_steps, clock')
  BY <1>1, <1>2, <1>3, LeadsLater
<1>7. /\ current_step \in Step /\ current_step.kind = trx.op /\ trx.op \in OpKinds
      /\ Reverts(Now, current_step.changes, Began)
  BY <1>2 DEF Recording
<1> DEFINE s == Began
<1>8. /\ stamped \in Step /\ stamped.kind = trx.op /\ HasChanges(stamped)
      /\ EndsModified(stamped.changes) /\ Reverts(Now', stamped.changes, s)
  <2>1. PICK t \in 0..MaxClock : t = clock + 1
    BY <1>1, <1>4
  <2>2. Now' = Stamped(Now, t)
    BY <1>1, <2>1
  <2>3. QED
    BY <1>3, <1>7, <2>2, StampedStep
<1> HIDE DEF stamped, s
<1>9. stamped.kind # "SkipUndo" /\ stamped \in UndoSteps
  BY <1>7, <1>8 DEF UndoSteps
<1>10. /\ <<>> \in Seq(RedoSteps) /\ Leads(Now', <<>>, clock') /\ ReturnAll(Now', <<>>) = <<>>
       /\ Reverse(<<>>) = <<>>
  BY <1>5, EmptySeq, LeadsEmpty, ReverseSmall
<1>11. CASE recent
  <2>1. Coalesces(stamped) /\ IsNoteUpdate(stamped)
    BY <1>1, <1>11 DEF Coalesces
  <2>2. ~HasChanges([stamped EXCEPT !.changes = <<>>])
    BY <1>8, <2>1, EmptiedStep
  <2>3. undo_steps' = undo_steps /\ redo_steps' = <<>> /\ current_step' = NoStep
    BY <1>1, <1>2, <1>11, <2>2, EndNothing
  <2>4. Leads(Now', undo_steps, clock')
    BY <1>5, <1>6, <1>8, <2>1, FoldedLeads DEF s
  <2>5. /\ HistoryInv' /\ Here' = Now' /\ Behind' = ReturnAll(Now', undo_steps')
        /\ Ahead' = ReturnAll(Now', Reverse(redo_steps'))
    BY <1>1, <1>3, <1>4, <1>10, <1>22, <2>3, <2>4, IdleAfter
  <2>6. Ahead' = <<>> /\ Behind' = ReturnAll(Now', undo_steps)
    BY <1>10, <2>3, <2>5
  <2>7. Here = s /\ Behind = ReturnAll(s, undo_steps) /\ Leads(s, undo_steps, clock')
    BY <1>2, <1>6 DEF s
  <2>8. HistoryStep
    BY <1>5, <1>8, <2>1, <2>5, <2>6, <2>7, AmendAfter
  <2>9. QED
    BY <2>5, <2>8
<1>12. CASE ~recent
  <2>1. undo_steps' = PushUndo(stamped, undo_steps) /\ redo_steps' = <<>> /\ current_step' = NoStep
    BY <1>1, <1>2, <1>8, <1>9, <1>12, EndKept
  <2>2. /\ Leads(Now', PushUndo(stamped, undo_steps), clock')
        /\ ReturnAll(Now', PushUndo(stamped, undo_steps)) = History!Remember(s, ReturnAll(s, undo_steps))
    BY <1>5, <1>6, <1>8, LeadsPush DEF s
  <2>3. PushUndo(stamped, undo_steps) \in Seq(UndoSteps)
    BY <1>3, <1>9, PushSteps
  <2>4. /\ HistoryInv' /\ Here' = Now' /\ Behind' = ReturnAll(Now', undo_steps')
        /\ Ahead' = ReturnAll(Now', Reverse(redo_steps'))
    BY <1>1, <1>3, <1>4, <1>10, <1>22, <2>1, <2>2, <2>3, IdleAfter
  <2>5. Behind' = History!Remember(Here, Behind) /\ Ahead' = <<>> /\ Here' \in Db
    BY <1>2, <1>5, <1>10, <2>1, <2>2, <2>4, SoundIsDb, PlainFacts DEF s
  <2>6. QED
    BY <2>4, <2>5 DEF HistoryStep, History!Next, History!Do, Here, Behind, Ahead
<1>13. QED
  BY <1>11, <1>12

\* All changes of a step have been reverted: the database is where it led, and what
\* was recorded leads back.
LEMMA Replayed ==
  ASSUME HistoryInv, NEW recent \in BOOLEAN, Commit(recent), mode # "NormalOp",
         "SkipUndo" \notin OpKinds
  PROVE  /\ IsTrx /\ Replaying /\ InTrx /\ trx.todo = <<>>
         /\ clock' = clock /\ db' \in Db /\ Now' = Now /\ counter' = counter
         /\ recent => Coalesces(current_step)
         /\ EndStep(IF recent THEN [current_step EXCEPT !.changes = <<>>] ELSE current_step)
         /\ trx' = NoTrx /\ mode' = "NormalOp"
         /\ Now = Return(Began, trx.step)
         /\ Reverts(Now, current_step.changes, Began)
         /\ current_step \in Step /\ HasChanges(current_step)
         /\ current_step.kind # "NoUndo" /\ current_step.kind # "SkipUndo"
         /\ mode = "Undoing" => StartsModified(current_step.changes)
         /\ mode = "Redoing" => EndsModified(current_step.changes)
<1>1. InTrx /\ trx.todo = <<>>
  BY DEF Commit
<1>2. IsTrx /\ Replaying
  BY <1>1 DEF HistoryInv, InTrx, NoTrx
<1>3. /\ trx.step \in Step /\ trx.step.kind # "NoUndo" /\ HasChanges(trx.step)
      /\ current_step \in Step /\ current_step.kind = trx.step.kind /\ trx.op = trx.step.kind
      /\ Len(current_step.changes) + Len(trx.todo) = Len(trx.step.changes)
      /\ Reverts(Now, current_step.changes, Began)
      /\ Replays(Now, <<>>, Return(Began, trx.step))
      /\ mode = "Undoing" => IF current_step.changes = <<>> THEN StartsModified(<<>>)
                                                           ELSE StartsModified(current_step.changes)
      /\ mode = "Redoing" => EndsModified(current_step.changes)
  BY <1>1, <1>2 DEF Replaying
<1>4. /\ clock' = clock /\ db' = db /\ Now' = Now /\ counter' = counter
      /\ recent => Coalesces(current_step)
      /\ EndStep(IF recent THEN [current_step EXCEPT !.changes = <<>>] ELSE current_step)
      /\ trx' = NoTrx /\ mode' = "NormalOp"
  BY <1>3 DEF Commit, Undoing, Now
<1>5. Now = Return(Began, trx.step)
  BY <1>3, ReplaysEmpty
<1>6. HasChanges(current_step)
  <2>1. CASE trx.step.kind = "Custom"
    BY <1>3, <2>1 DEF HasChanges
  <2>2. CASE trx.step.changes # <<>>
    <3>1. Len(trx.step.changes) \in Nat \ {0}
      BY <1>3, <2>2, LenProperties, EmptySeq DEF Step
    <3>2. Len(trx.todo) = 0
      BY <1>1, EmptySeq
    <3>3. Len(current_step.changes) # 0
      <4>1. Len(current_step.changes) \in Nat
        BY <1>3, LenProperties DEF Step
      <4>2. QED
        BY <1>3, <3>1, <3>2, <4>1
    <3>4. QED
      BY <3>3, EmptySeq DEF HasChanges
  <2>3. QED
    BY <1>3, <2>1, <2>2 DEF HasChanges
<1>7. current_step.kind # "SkipUndo"
  BY <1>3 DEF Step
<1>8. mode = "Undoing" => StartsModified(current_step.changes)
  BY <1>3 DEF StartsModified
<1>9. QED
  BY <1>1, <1>2, <1>3, <1>4, <1>5, <1>6, <1>7, <1>8, InvDb

\* A sequence reversed after an append has the new element first.
LEMMA ReverseAppend ==
  ASSUME NEW S, NEW q \in Seq(S), NEW x \in S
  PROVE  Append(q, x) \in Seq(S) /\ Reverse(Append(q, x)) = <<x>> \o Reverse(q)
<1> DEFINE one == <<x>>
<1>1. one \in Seq(S) /\ Reverse(one) = one
  BY ReverseSmall
<1>2. Append(q, x) = q \o one
  BY AppendIsConcat
<1> HIDE DEF one
<1>3. q \o one \in Seq(S) /\ Reverse(q \o one) = one \o Reverse(q)
  BY <1>1, ConcatProperties, ReverseConcat
<1>4. QED
  BY <1>2, <1>3 DEF one

\* The commit of an undo is an undo of the history: its step can be redone.
LEMMA CommitUndone ==
  ASSUME HistoryInv, NEW recent \in BOOLEAN, Commit(recent), mode = "Undoing",
         "SkipUndo" \notin OpKinds
  PROVE  HistoryInv' /\ HistoryStep
<1> DEFINE s == Began
           cur == current_step
           q == Reverse(redo_steps)
<1>1. mode # "NormalOp"
  OBVIOUS
<1>2. /\ InTrx /\ clock' = clock /\ db' \in Db /\ Now' = Now /\ counter' = counter
      /\ recent => Coalesces(cur)
      /\ EndStep(IF recent THEN [cur EXCEPT !.changes = <<>>] ELSE cur)
      /\ trx' = NoTrx /\ mode' = "NormalOp"
      /\ Now = Return(Began, trx.step) /\ Reverts(Now, cur.changes, s)
      /\ cur \in Step /\ HasChanges(cur) /\ cur.kind # "NoUndo" /\ cur.kind # "SkipUndo"
      /\ StartsModified(cur.changes)
  BY <1>1, Replayed
<1>3. /\ Here = s /\ Now \in SoundDb(clock) /\ Leads(Now, undo_steps, clock)
      /\ Leads(s, q, clock) /\ Behind = <<Now>> \o ReturnAll(Now, undo_steps) /\ Ahead = ReturnAll(s, q)
      /\ s \in SoundDb(clock)
  BY <1>2, UndoingFacts
<1>4. /\ counter \in 0..MaxCounter /\ clock \in 0..MaxClock
      /\ undo_steps \in Seq(UndoSteps) /\ redo_steps \in Seq(RedoSteps)
  BY InvTypes
<1>5. ~recent
  <2>1. ~Coalesces(cur)
    <3>1. SUFFICES ASSUME IsNoteUpdate(cur) PROVE FALSE
      BY DEF Coalesces
    <3>2. Len(cur.changes) = 2 /\ cur.changes[1].kind = "Updated"
      BY <3>1 DEF IsNoteUpdate
    <3>3. cur.changes # <<>>
      BY <3>2, EmptySeq
    <3>4. QED
      BY <1>2, <3>2, <3>3 DEF StartsModified
  <2>2. QED
    BY <1>2, <2>1
<1>6. cur \in RedoSteps
  BY <1>2 DEF RedoSteps
<1> HIDE DEF s, cur
<1>7. undo_steps' = undo_steps /\ redo_steps' = Append(redo_steps, cur) /\ current_step' = NoStep
  BY <1>2, <1>5, EndKept
<1>8. Append(redo_steps, cur) \in Seq(RedoSteps) /\ Reverse(Append(redo_steps, cur)) = <<cur>> \o q
  BY <1>4, <1>6, ReverseAppend
<1> HIDE DEF q
<1>9. /\ Leads(Now, <<cur>> \o q, clock)
      /\ ReturnAll(Now, <<cur>> \o q) = <<s>> \o ReturnAll(s, q)
  BY <1>2, <1>3, LeadsCons
<1>10. /\ HistoryInv' /\ Here' = Now' /\ Behind' = ReturnAll(Now', undo_steps')
       /\ Ahead' = ReturnAll(Now', Reverse(redo_steps'))
  <2>1. /\ Leads(Now', undo_steps', clock') /\ Leads(Now', Reverse(redo_steps'), clock')
        /\ redo_steps' \in Seq(RedoSteps)
    BY <1>2, <1>3, <1>7, <1>8, <1>9
  <2>2. QED
    BY <1>2, <1>4, <1>7, <2>1, IdleAfter
<1>11. Ahead' = <<Here>> \o Ahead /\ Behind' = ReturnAll(Now, undo_steps) /\ Here' = Now
  BY <1>2, <1>3, <1>7, <1>8, <1>9, <1>10
<1>12. Behind # <<>> /\ Head(Behind) = Now /\ Tail(Behind) = ReturnAll(Now, undo_steps)
  <2> DEFINE p == ReturnAll(Now, undo_steps)
  <2>1. p \in Seq(SoundDb(clock))
    BY <1>3, LeadsTypes
  <2> HIDE DEF p
  <2>2. <<Now>> \o p # <<>> /\ Head(<<Now>> \o p) = Now /\ Tail(<<Now>> \o p) = p
    BY <1>3, <2>1, ConsFacts
  <2>3. QED
    BY <1>3, <2>2 DEF p
<1>13. History!Undo
  BY <1>11, <1>12 DEF History!Undo, Here, Behind, Ahead
<1>14. QED
  BY <1>10, <1>13 DEF HistoryStep, History!Next

\* The commit of a redo is a redo of the history, or, folded, amends its present.
LEMMA CommitRedone ==
  ASSUME HistoryInv, NEW recent \in BOOLEAN, Commit(recent), mode = "Redoing",
         "SkipUndo" \notin OpKinds
  PROVE  HistoryInv' /\ HistoryStep
<1> DEFINE s == Began
           cur == current_step
           q == Reverse(redo_steps)
<1>1. mode # "NormalOp" /\ mode # "Undoing"
  OBVIOUS
<1>2. /\ InTrx /\ clock' = clock /\ db' \in Db /\ Now' = Now /\ counter' = counter
      /\ recent => Coalesces(cur)
      /\ EndStep(IF recent THEN [cur EXCEPT !.changes = <<>>] ELSE cur)
      /\ trx' = NoTrx /\ mode' = "NormalOp"
      /\ Now = Return(Began, trx.step) /\ Reverts(Now, cur.changes, s)
      /\ cur \in Step /\ HasChanges(cur) /\ cur.kind # "NoUndo" /\ cur.kind # "SkipUndo"
      /\ EndsModified(cur.changes)
  BY <1>1, Replayed
<1>3. /\ Here = s /\ Now \in SoundDb(clock) /\ Leads(Now, q, clock)
      /\ Leads(s, undo_steps, clock) /\ Behind = ReturnAll(s, undo_steps)
      /\ Ahead = <<Now>> \o ReturnAll(Now, q) /\ s \in SoundDb(clock)
  BY <1>2, RedoingFacts
<1>4. /\ counter \in 0..MaxCounter /\ clock \in 0..MaxClock
      /\ undo_steps \in Seq(UndoSteps) /\ redo_steps \in Seq(RedoSteps)
  BY InvTypes
<1>5. cur \in UndoSteps
  BY <1>2 DEF UndoSteps
<1>6. Ahead # <<>> /\ Head(Ahead) = Now /\ Tail(Ahead) = ReturnAll(Now, q)
  <2> DEFINE p == ReturnAll(Now, q)
  <2>1. p \in Seq(SoundDb(clock))
    BY <1>3, LeadsTypes
  <2> HIDE DEF p
  <2>2. <<Now>> \o p # <<>> /\ Head(<<Now>> \o p) = Now /\ Tail(<<Now>> \o p) = p
    BY <1>3, <2>1, ConsFacts
  <2>3. QED
    BY <1>3, <2>2 DEF p
<1> HIDE DEF s, cur
<1>7. CASE recent
  <2>1. Coalesces(cur) /\ IsNoteUpdate(cur)
    BY <1>2, <1>7 DEF Coalesces
  <2>2. ~HasChanges([cur EXCEPT !.changes = <<>>])
    BY <1>2, <2>1, EmptiedStep
  <2>3. undo_steps' = undo_steps /\ redo_steps' = redo_steps /\ current_step' = NoStep
    BY <1>2, <1>7, <2>2, EndNothing
  <2>4. Now' \in SoundDb(clock') /\ Leads(s, undo_steps, clock') /\ Reverts(Now', cur.changes, s)
    BY <1>2, <1>3
  <2>5. Leads(Now', undo_steps, clock')
    BY <1>2, <2>1, <2>4, FoldedLeads
  <2>6. /\ HistoryInv' /\ Here' = Now' /\ Behind' = ReturnAll(Now', undo_steps')
        /\ Ahead' = ReturnAll(Now', Reverse(redo_steps'))
    <3>1. Leads(Now', undo_steps', clock') /\ Leads(Now', Reverse(redo_steps'), clock')
      BY <1>2, <1>3, <2>3, <2>5
    <3>2. QED
      BY <1>2, <1>4, <2>3, <3>1, IdleAfter
  <2>7. Behind' = ReturnAll(Now', undo_steps) /\ Ahead' = Tail(Ahead) /\ Now' = Head(Ahead)
    BY <1>2, <1>6, <2>3, <2>6
  <2>8. HistoryStep
    BY <1>2, <1>3, <1>6, <2>1, <2>4, <2>6, <2>7, AmendAfter
  <2>9. QED
    BY <2>6, <2>8
<1>8. CASE ~recent
  <2>1. undo_steps' = PushUndo(cur, undo_steps) /\ redo_steps' = redo_steps /\ current_step' = NoStep
    BY <1>1, <1>2, <1>8, EndKept
  <2>2. /\ Leads(Now, PushUndo(cur, undo_steps), clock)
        /\ ReturnAll(Now, PushUndo(cur, undo_steps)) = History!Remember(s, ReturnAll(s, undo_steps))
    BY <1>2, <1>3, LeadsPush
  <2>3. PushUndo(cur, undo_steps) \in Seq(UndoSteps)
    BY <1>4, <1>5, PushSteps
  <2>4. /\ HistoryInv' /\ Here' = Now' /\ Behind' = ReturnAll(Now', undo_steps')
        /\ Ahead' = ReturnAll(Now', Reverse(redo_steps'))
    <3>1. /\ Leads(Now', undo_steps', clock') /\ Leads(Now', Reverse(redo_steps'), clock')
          /\ undo_steps' \in Seq(UndoSteps)
      BY <1>2, <1>3, <2>1, <2>2, <2>3
    <3>2. QED
      BY <1>2, <1>4, <2>1, <3>1, IdleAfter
  <2>5. Behind' = History!Remember(Here, Behind) /\ Ahead' = Tail(Ahead) /\ Here' = Head(Ahead)
    BY <1>2, <1>3, <1>6, <2>1, <2>2, <2>4
  <2>6. History!Redo
    BY <1>6, <2>5 DEF History!Redo, Here, Behind, Ahead
  <2>7. QED
    BY <2>4, <2>6 DEF HistoryStep, History!Next
<1>9. QED
  BY <1>7, <1>8

\* Commit, in whatever mode and for whatever operation.
LEMMA CommitHistory ==
  ASSUME HistoryInv, NEW recent \in BOOLEAN, Commit(recent), "SkipUndo" \notin OpKinds
  PROVE  HistoryInv' /\ HistoryStep
<1>1. CASE mode = "NormalOp" /\ trx.op = "NoUndo"
  BY <1>1, CommitNoUndo
<1>2. CASE mode = "NormalOp" /\ trx.op # "NoUndo" /\ ~HasChanges(current_step)
  BY <1>2, CommitNothing
<1>3. CASE mode = "NormalOp" /\ trx.op # "NoUndo" /\ HasChanges(current_step)
  BY <1>3, CommitChanges
<1>4. CASE mode = "Undoing"
  BY <1>4, CommitUndone
<1>5. CASE mode = "Redoing"
  BY <1>5, CommitRedone
<1>6. mode \in {"NormalOp", "Undoing", "Redoing"}
  BY DEF HistoryInv, TypeOK
<1>7. QED
  BY <1>1, <1>2, <1>3, <1>4, <1>5, <1>6

-----------------------------------------------------------------------------
(* Merging.                                                                 *)

\* Two runs of changes that each end with a stamp do so together.
LEMMA EndsConcat ==
  ASSUME NEW a \in Seq(Change), NEW b \in Seq(Change), EndsModified(a), EndsModified(b)
  PROVE  EndsModified(a \o b) /\ (a # <<>> => a \o b # <<>>)
<1> DEFINE u == a \o b
<1>1. Len(a) \in Nat /\ Len(b) \in Nat
  BY LenProperties
<1>2. /\ u \in Seq(Change) /\ Len(u) = Len(a) + Len(b)
      /\ \A n \in 1..(Len(a) + Len(b)) : u[n] = IF n <= Len(a) THEN a[n] ELSE b[n - Len(a)]
  BY ConcatProperties
<1> HIDE DEF u
<1>3. a # <<>> => u # <<>>
  <2>1. SUFFICES ASSUME a # <<>> PROVE u # <<>>
    OBVIOUS
  <2>2. Len(a) # 0
    BY <2>1, EmptySeq
  <2>3. Len(u) # 0
    BY <1>1, <1>2, <2>2
  <2>4. QED
    BY <2>3, EmptySeq
<1>4. ASSUME u # <<>> PROVE u[Len(u)].kind = "Modified"
  <2>1. Len(u) # 0
    BY <1>2, <1>4, EmptySeq
  <2>2. Len(u) \in 1..(Len(a) + Len(b))
    BY <1>1, <1>2, <2>1
  <2>3. CASE Len(b) = 0
    <3>1. Len(u) = Len(a) /\ Len(u) <= Len(a) /\ Len(a) # 0
      BY <1>1, <1>2, <2>1, <2>3
    <3>2. u[Len(u)] = a[Len(a)]
      BY <1>2, <2>2, <3>1
    <3>3. a # <<>>
      BY <3>1, EmptySeq
    <3>4. QED
      BY <3>2, <3>3 DEF EndsModified
  <2>4. CASE Len(b) # 0
    <3>1. ~ (Len(u) <= Len(a)) /\ Len(u) - Len(a) = Len(b)
      BY <1>1, <1>2, <2>4
    <3>2. u[Len(u)] = b[Len(b)]
      BY <1>2, <2>2, <3>1
    <3>3. b # <<>>
      BY <2>4, EmptySeq
    <3>4. QED
      BY <3>2, <3>3 DEF EndsModified
  <2>5. QED
    BY <2>3, <2>4
<1>5. QED
  BY <1>3, <1>4 DEF EndsModified, u

\* The joined changes of the newest idx steps lead where the oldest of them does.
LEMMA JoinedReverts ==
  ASSUME NEW d, NEW steps \in Seq(UndoSteps), NEW past, Reaches(d, steps, past),
         NEW idx \in 1..Len(steps)
  PROVE  LET cs == Joined(steps, idx)[idx - 1]
         IN  /\ cs \in Seq(Change) /\ Reverts(d, cs, past[idx]) /\ EndsModified(cs)
             /\ steps[idx].changes # <<>> => cs # <<>>
<1> DEFINE r == Joined(steps, idx)
           from(n) == Before(d, past, idx - n)
           S == {n \in Nat : n <= idx - 1 =>
                   /\ r[n] \in Seq(Change) /\ Reverts(from(n), r[n], past[idx])
                   /\ EndsModified(r[n]) /\ (steps[idx].changes # <<>> => r[n] # <<>>)}
<1>1. idx \in Nat \ {0} /\ Len(steps) \in Nat /\ idx <= Len(steps)
  BY LenProperties
<1>2. r[0] = steps[idx].changes /\ \A n \in 1..(idx - 1) : r[n] = r[n - 1] \o steps[idx - n].changes
  BY ZenonT(60), <1>1, JoinedDef
<1>3. \A n \in 1..Len(steps) : /\ Reverts(Before(d, past, n), steps[n].changes, past[n])
                               /\ steps[n].changes \in Seq(Change) /\ EndsModified(steps[n].changes)
  BY ElementOfSeq DEF Reaches, UndoSteps, Step
<1> HIDE DEF r
<1>4. 0 \in S
  <2>1. from(0) = Before(d, past, idx)
    BY <1>1
  <2>2. QED
    BY <1>2, <1>3, <2>1
<1>5. ASSUME NEW n \in Nat, n \in S PROVE n + 1 \in S
  <2>1. SUFFICES ASSUME n + 1 <= idx - 1
                 PROVE  /\ r[n + 1] \in Seq(Change) /\ Reverts(from(n + 1), r[n + 1], past[idx])
                        /\ EndsModified(r[n + 1])
                        /\ (steps[idx].changes # <<>> => r[n + 1] # <<>>)
    OBVIOUS
  <2> DEFINE k == idx - (n + 1)
  <2>2. /\ n <= idx - 1 /\ n + 1 \in 1..(idx - 1) /\ (n + 1) - 1 = n
        /\ k \in 1..Len(steps) /\ idx - n = k + 1 /\ k + 1 # 1 /\ (k + 1) - 1 = k
    BY <1>1, <2>1
  <2>3. /\ r[n] \in Seq(Change) /\ Reverts(from(n), r[n], past[idx])
        /\ EndsModified(r[n]) /\ (steps[idx].changes # <<>> => r[n] # <<>>)
    BY <1>5, <2>2
  <2>4. r[n + 1] = r[n] \o steps[k].changes
    BY <1>2, <2>2
  <2>5. from(n) = past[k]
    BY <2>2 DEF Before
  <2>6. from(n + 1) = Before(d, past, k)
    OBVIOUS
  <2> HIDE DEF k, from
  <2>7. /\ Reverts(from(n + 1), steps[k].changes, from(n))
        /\ steps[k].changes \in Seq(Change) /\ EndsModified(steps[k].changes)
    BY <1>3, <2>2, <2>5, <2>6
  <2>8. Reverts(from(n + 1), r[n + 1], past[idx])
    BY <2>3, <2>4, <2>7, RevertsConcat
  <2>9. EndsModified(r[n + 1]) /\ (r[n] # <<>> => r[n + 1] # <<>>)
    BY <2>3, <2>4, <2>7, EndsConcat
  <2>10. r[n + 1] \in Seq(Change)
    BY <2>8, RevertsTypes
  <2>11. QED
    BY <2>3, <2>8, <2>9, <2>10
<1>6. \A n \in Nat : n \in S
  <2> HIDE DEF S
  <2>1. QED
    BY <1>4, <1>5, SetInduction
<1>7. idx - 1 \in Nat /\ idx - 1 <= idx - 1 /\ idx - (idx - 1) = 1
  BY <1>1
<1>8. from(idx - 1) = d
  BY <1>7 DEF Before
<1> HIDE DEF from
<1>9. QED
  BY <1>6, <1>7, <1>8 DEF r

\* Merging squashes the newest states of the past into one step.
LEMMA MergeHistory ==
  ASSUME HistoryInv, NEW starting_from \in 1..MaxCounter, MergeUndoableOps(starting_from)
  PROVE  HistoryInv' /\ HistoryStep
<1>1. PICK idx \in DOMAIN undo_steps :
        /\ undo_steps[idx].counter = starting_from
        /\ undo_steps' = <<[undo_steps[idx] EXCEPT !.changes = Joined(undo_steps, idx)[idx - 1]]>>
                           \o SubSeq(undo_steps, idx + 1, Len(undo_steps))
  BY DEF MergeUndoableOps
<1>2. /\ ~InTrx /\ counter' = starting_from /\ db' = db /\ Now' = Now /\ redo_steps' = redo_steps
      /\ mode' = mode /\ current_step' = current_step /\ trx' = trx /\ clock' = clock
  BY DEF MergeUndoableOps, Now
<1>3. /\ trx = NoTrx /\ mode = "NormalOp" /\ current_step = NoStep
      /\ Here = Now /\ Behind = ReturnAll(Now, undo_steps)
      /\ Ahead = ReturnAll(Now, Reverse(redo_steps))
      /\ Leads(Now, undo_steps, clock) /\ Leads(Now, Reverse(redo_steps), clock)
      /\ Now \in SoundDb(clock)
  BY <1>2, IdleFacts
<1>4. /\ undo_steps \in Seq(UndoSteps) /\ redo_steps \in Seq(RedoSteps)
      /\ clock \in 0..MaxClock /\ undo_steps \in Seq(Step) /\ db \in Db
  BY InvTypes, InvDb
<1>5. starting_from \in 0..MaxCounter
  BY BoundsAssumption
<1> DEFINE N == Len(undo_steps)
           p == ReturnAll(Now, undo_steps)
           old == undo_steps[idx]
           cs == Joined(undo_steps, idx)[idx - 1]
           merged == [old EXCEPT !.changes = cs]
           rest == SubSeq(undo_steps, idx + 1, N)
           later == SubSeq(p, idx + 1, N)
<1>6. idx \in 1..N /\ N \in Nat
  BY <1>4, LenProperties
<1>7. Reaches(Now, undo_steps, p) /\ p \in Seq(SoundDb(clock)) /\ Len(p) = N
  BY <1>3, LeadsTypes DEF Leads
<1>8. /\ p[idx] \in SoundDb(clock) /\ Leads(p[idx], rest, clock)
      /\ ReturnAll(p[idx], rest) = later
  BY <1>3, <1>6, <1>7, LeadsSuffix
<1>9. old \in UndoSteps
  BY <1>4, <1>6, ElementOfSeq
<1>10. /\ cs \in Seq(Change) /\ Reverts(Now, cs, p[idx]) /\ EndsModified(cs)
       /\ old.changes # <<>> => cs # <<>>
  BY <1>4, <1>6, <1>7, JoinedReverts
<1>11. rest \in Seq(UndoSteps)
  <2>1. \A n \in 1..N : undo_steps[n] \in UndoSteps
    BY <1>4, ElementOfSeq
  <2>2. idx + 1 \in Int /\ N \in Int /\ \A n \in (idx + 1)..N : undo_steps[n] \in UndoSteps
    BY <1>6, <2>1
  <2>3. QED
    BY <2>2, SubSeqProperties
<1>12. <<p[idx]>> \o later = SubSeq(p, idx, N)
  <2> HIDE DEF p
  <2>1. idx \in 1..Len(p) /\ N \in idx..Len(p)
    BY <1>6, <1>7
  <2>2. SubSeq(p, idx, N) = <<p[idx]>> \o SubSeq(p, idx + 1, N)
    BY <1>7, <2>1, SubSeqRecursiveFirst
  <2>3. QED
    BY <2>2
<1>13. undo_steps' = <<merged>> \o rest
  BY <1>1
<1> HIDE DEF cs, old, rest, later, p
<1>14. /\ old \in Step /\ old.kind # "NoUndo" /\ HasChanges(old)
       /\ old = [kind |-> old.kind, changes |-> old.changes, counter |-> old.counter]
  BY <1>9 DEF UndoSteps, Step
<1>15. merged = [kind |-> old.kind, changes |-> cs, counter |-> old.counter]
  BY <1>14
<1> HIDE DEF merged
<1>16. merged \in Step /\ merged.kind = old.kind /\ merged.changes = cs
  BY <1>10, <1>14, <1>15 DEF Step
<1>17. merged \in UndoSteps
  BY <1>10, <1>14, <1>16 DEF UndoSteps, HasChanges
<1>18. undo_steps' \in Seq(UndoSteps)
  BY <1>11, <1>13, <1>17, ConsFacts
<1>19. /\ Leads(Now, <<merged>> \o rest, clock)
       /\ ReturnAll(Now, <<merged>> \o rest) = <<p[idx]>> \o later
  BY <1>3, <1>8, <1>10, <1>16, LeadsCons
<1>20. Leads(Now', undo_steps', clock') /\ Leads(Now', Reverse(redo_steps'), clock')
  BY <1>2, <1>3, <1>13, <1>19
<1>21. /\ HistoryInv' /\ Here' = Now' /\ Behind' = ReturnAll(Now', undo_steps')
       /\ Ahead' = ReturnAll(Now', Reverse(redo_steps'))
  BY <1>2, <1>3, <1>4, <1>5, <1>18, <1>20, IdleAfter
<1>22. /\ Behind = p /\ Behind' = SubSeq(Behind, idx, Len(Behind)) /\ Here' = Here /\ Ahead' = Ahead
  BY <1>2, <1>3, <1>7, <1>12, <1>13, <1>19, <1>21 DEF p
<1>23. idx \in DOMAIN Behind
  BY <1>6, <1>7, <1>22, LenProperties
<1>24. History!Squash
  BY <1>22, <1>23 DEF History!Squash, Here, Behind, Ahead
<1>25. QED
  BY <1>21, <1>24 DEF HistoryStep, History!Next

-----------------------------------------------------------------------------
\* A new database has nothing the server has not seen, and no step to undo.
LEMMA InitHistory ==
  ASSUME Init
  PROVE  HistoryInv /\ History!Init
<1>1. /\ db \in [items: [Items -> {[val |-> v, pending |-> FALSE] : v \in Values} \cup {NoItem}],
                 graves: {{}}, mod: {0}, ls: {0}]
      /\ undo_steps = <<>> /\ redo_steps = <<>>
      /\ mode = "NormalOp" /\ current_step = NoStep
      /\ counter = 0 /\ trx = NoTrx /\ clock = 0
  BY DEF Init
<1>2. /\ db.graves = {} /\ db.mod = 0 /\ db.ls = 0
      /\ db = [items |-> db.items, graves |-> db.graves, mod |-> db.mod, ls |-> db.ls]
      /\ db.items \in [Items -> {[val |-> v, pending |-> FALSE] : v \in Values} \cup {NoItem}]
  BY <1>1
<1>3. \A i \in Items : db.items[i] = NoItem \/ (db.items[i] \in Entry /\ db.items[i].pending = FALSE)
  <2> SUFFICES ASSUME NEW i \in Items
               PROVE  db.items[i] = NoItem \/ (db.items[i] \in Entry /\ db.items[i].pending = FALSE)
    OBVIOUS
  <2>1. db.items[i] \in {[val |-> v, pending |-> FALSE] : v \in Values} \cup {NoItem}
    BY <1>2
  <2>2. CASE db.items[i] # NoItem
    <3>1. PICK v \in Values : db.items[i] = [val |-> v, pending |-> FALSE]
      BY <2>1, <2>2
    <3>2. [val |-> v, pending |-> FALSE] \in Entry /\ [val |-> v, pending |-> FALSE].pending = FALSE
      BY DEF Entry
    <3>3. QED
      BY <3>1, <3>2
  <2>3. QED
    BY <2>2
<1>4. db.items = [i \in Items |-> db.items[i]]
  BY <1>2
<1>5. db.items \in [Items -> Entry \cup {NoItem}]
  BY <1>3, <1>4
<1>6. 0 \in 0..MaxClock /\ 0 \in 0..MaxCounter
  BY BoundsAssumption
<1>7. db \in PlainDb
  BY <1>2, <1>5, <1>6 DEF PlainDb, Db
<1>8. Consistent(db) /\ db.ls <= 0
  BY <1>2 DEF Consistent
<1>9. ~Unsent(db)
  <2>1. ASSUME NEW i \in Items, db.items[i] # NoItem, db.items[i].pending PROVE FALSE
    BY <1>3, <2>1
  <2>2. QED
    BY <1>2, <2>1 DEF Unsent
<1>22. Now = db /\ db \in Db
  BY <1>7, PlainFacts DEF Now
<1>10. Now \in SoundDb(clock)
  BY <1>1, <1>7, <1>8, <1>9, <1>22 DEF SoundDb
<1>11. ~InTrx /\ ActiveStep("Undoing") = <<>> /\ ActiveStep("Redoing") = <<>>
  BY <1>1 DEF InTrx, NoTrx, ActiveStep
<1>12. Here = Now
  BY <1>11 DEF Here, Present, Now
<1>13. <<>> \o <<>> = <<>> /\ Reverse(<<>>) = <<>>
  <2>1. <<>> \in Seq(Step)
    BY EmptySeq
  <2>2. QED
    BY <2>1, NoPrefix, ReverseSmall
<1>14. PastSteps = <<>> /\ FutureSteps = <<>>
  BY <1>1, <1>11, <1>13 DEF PastSteps, FutureSteps
<1>16. Leads(Here, PastSteps, clock) /\ Leads(Here, FutureSteps, clock)
  BY <1>10, <1>12, <1>14, LeadsEmpty
<1>17. undo_steps \in Seq(UndoSteps) /\ redo_steps \in Seq(RedoSteps)
       /\ undo_steps \in Seq(Step) /\ redo_steps \in Seq(Step)
  BY <1>1, EmptySeq
<1>18. TypeOK
  BY <1>1, <1>6, <1>11, <1>17, <1>22 DEF TypeOK
<1>19. HistoryInv
  BY <1>1, <1>16, <1>17, <1>18 DEF HistoryInv
<1>15. Behind = <<>> /\ Ahead = <<>>
  BY <1>14, <1>19, SeenHistory, NoStepsNoStates
<1>20. History!Init
  BY <1>12, <1>15, <1>22 DEF History!Init, Here, Behind, Ahead
<1>21. QED
  BY <1>19, <1>20

-----------------------------------------------------------------------------
(* Type correctness, for every set of kinds.                                *)

\* TypeOK says nothing of the fields that an open transaction has.
TypeInv == TypeOK /\ (trx = NoTrx \/ IsTrx)

\* Option<UndoableOp>.
StepOrNone == Step \cup {NoStep}

\* A typed state between transactions.
LEMMA ClosedTypes ==
  ASSUME trx' = NoTrx, db' \in Db, undo_steps' \in Seq(Step), redo_steps' \in Seq(Step),
         mode' \in {"NormalOp", "Undoing", "Redoing"}, current_step' \in StepOrNone,
         counter' \in 0..MaxCounter, clock' \in 0..MaxClock
  PROVE  TypeInv'
  BY DEF TypeInv, TypeOK, InTrx, NoTrx, StepOrNone

\* A typed state in a transaction.
LEMMA OpenTypes ==
  ASSUME NEW s \in Db, NEW o \in OpKinds \cup {"Custom"}, NEW w \in 0..MaxWrites,
         NEW st \in StepOrNone, NEW td \in Seq(Change),
         trx' = [open |-> TRUE, saved |-> s, op |-> o, writes |-> w, step |-> st, todo |-> td],
         db' \in Db, undo_steps' \in Seq(Step), redo_steps' \in Seq(Step),
         mode' \in {"NormalOp", "Undoing", "Redoing"}, current_step' \in StepOrNone,
         counter' \in 0..MaxCounter, clock' \in 0..MaxClock
  PROVE  TypeInv'
<1>1. /\ IsTrx' /\ InTrx'
      /\ trx'.saved = s /\ trx'.op = o /\ trx'.writes = w /\ trx'.step = st /\ trx'.todo = td
  BY OpenTrx
<1>2. QED
  BY <1>1 DEF TypeInv, TypeOK, StepOrNone

\* The variables' types, one by one.
LEMMA TypeFacts ==
  ASSUME TypeInv
  PROVE  /\ db \in Db /\ undo_steps \in Seq(Step) /\ redo_steps \in Seq(Step)
         /\ mode \in {"NormalOp", "Undoing", "Redoing"} /\ current_step \in StepOrNone
         /\ counter \in 0..MaxCounter /\ clock \in 0..MaxClock /\ counter \in Nat /\ clock \in Nat
         /\ InTrx => /\ IsTrx /\ trx.saved \in Db /\ trx.op \in OpKinds \cup {"Custom"}
                     /\ trx.writes \in 0..MaxWrites /\ trx.step \in StepOrNone
                     /\ trx.todo \in Seq(Change)
         /\ ~InTrx => trx = NoTrx
  BY BoundsAssumption DEF TypeInv, TypeOK, StepOrNone, InTrx, NoTrx, IsTrx

\* begin_step() begins a step and may drop queues, but puts nothing into them.
LEMMA BeginStepTypes ==
  ASSUME TypeInv, NEW op \in OpKinds \cup {"Custom"}, counter < MaxCounter \/ op = "NoUndo",
         NEW undo \in Seq(Step), NEW redo \in Seq(Step), NEW m, BeginStep(op, undo, redo, m)
  PROVE  /\ undo_steps' \in Seq(Step) /\ redo_steps' \in Seq(Step)
         /\ current_step' \in StepOrNone /\ counter' \in 0..MaxCounter
<1>1. counter \in Nat /\ counter \in 0..MaxCounter /\ <<>> \in Seq(Step)
  BY TypeFacts, EmptySeq
<1>2. CASE op = "NoUndo"
  BY <1>1, <1>2 DEF BeginStep, StepOrNone
<1>3. CASE op # "NoUndo"
  <2>1. NewStep(op) \in Step /\ counter + 1 \in 0..MaxCounter
    BY <1>1, <1>3, NewStepFacts
  <2>2. QED
    BY <1>1, <1>3, <2>1 DEF BeginStep, StepOrNone
<1>4. QED
  BY <1>2, <1>3

\* save_undo() keeps the step a step.
LEMMA SaveTypes ==
  ASSUME NEW step \in StepOrNone, NEW changes \in Seq(Change)
  PROVE  Save(step, changes) \in StepOrNone
<1>1. CASE step = NoStep
  BY <1>1 DEF Save
<1>2. CASE step # NoStep
  BY <1>2, SaveChanges DEF StepOrNone
<1>3. QED
  BY <1>1, <1>2

\* Pushing keeps the queue one of steps.
LEMMA PushTypes ==
  ASSUME NEW undo \in Seq(Step), NEW step \in Step
  PROVE  PushUndo(step, undo) \in Seq(Step)
<1> DEFINE k == IF Len(undo) < UNDO_LIMIT THEN Len(undo) ELSE UNDO_LIMIT - 1
<1>1. Len(undo) \in Nat /\ k \in 0..Len(undo)
  BY LenProperties, UndoLimitAssumption
<1>2. PushUndo(step, undo) = <<step>> \o SubSeq(undo, 1, k)
  BY DEF PushUndo
<1> HIDE DEF k
<1>3. SubSeq(undo, 1, k) \in Seq(Step)
  <2>1. \A n \in 1..Len(undo) : undo[n] \in Step
    BY ElementOfSeq
  <2>2. 1 \in Int /\ k \in Int /\ \A n \in 1..k : undo[n] \in Step
    BY <1>1, <2>1
  <2>3. QED
    BY <2>2, SubSeqProperties
<1>4. QED
  BY <1>2, <1>3, ConsFacts

\* end_step() moves a step to a queue or drops it.
LEMMA EndStepTypes ==
  ASSUME TypeInv, NEW step \in StepOrNone, EndStep(step)
  PROVE  /\ undo_steps' \in Seq(Step) /\ redo_steps' \in Seq(Step) /\ current_step' \in StepOrNone
<1>1. undo_steps \in Seq(Step) /\ redo_steps \in Seq(Step)
  BY TypeFacts
<1>2. CASE step = NoStep \/ ~HasChanges(step) \/ step.kind = "SkipUndo"
  BY <1>1, <1>2 DEF EndStep, StepOrNone
<1>3. CASE step # NoStep /\ HasChanges(step) /\ step.kind # "SkipUndo"
  <2>1. step \in Step
    BY <1>3 DEF StepOrNone
  <2>2. PushUndo(step, undo_steps) \in Seq(Step) /\ Append(redo_steps, step) \in Seq(Step)
    BY <1>1, <2>1, PushTypes, AppendProperties
  <2>3. /\ undo_steps' \in {undo_steps, PushUndo(step, undo_steps)}
        /\ redo_steps' \in {redo_steps, Append(redo_steps, step)} /\ current_step' = NoStep
    BY DEF EndStep
  <2>4. QED
    BY <1>1, <2>2, <2>3 DEF StepOrNone
<1>4. QED
  BY <1>2, <1>3

\* A write of the closure keeps the types.
LEMMA WriteTypes ==
  ASSUME TypeInv, NEW d \in Db, NEW changes \in Seq(Change), Write(d, changes)
  PROVE  TypeInv'
<1>1. /\ InTrx /\ trx.writes < MaxWrites /\ db' = d /\ trx' = [trx EXCEPT !.writes = @ + 1]
      /\ current_step' = Save(current_step, changes)
      /\ undo_steps' = undo_steps /\ redo_steps' = redo_steps
      /\ mode' = mode /\ counter' = counter /\ clock' = clock
  BY DEF Write, queues
<1> DEFINE s == trx.saved
           o == trx.op
           w == trx.writes
           st == trx.step
           td == trx.todo
<1>2. /\ s \in Db /\ o \in OpKinds \cup {"Custom"} /\ w \in 0..MaxWrites /\ st \in StepOrNone
      /\ td \in Seq(Change)
      /\ trx = [open |-> TRUE, saved |-> s, op |-> o, writes |-> w, step |-> st, todo |-> td]
  BY <1>1, TypeFacts DEF IsTrx
<1>3. w + 1 \in 0..MaxWrites /\ w = trx.writes
  BY <1>1, <1>2, BoundsAssumption
<1> HIDE DEF s, o, w, st, td
<1>4. trx' = [open |-> TRUE, saved |-> s, op |-> o, writes |-> w + 1, step |-> st, todo |-> td]
  BY <1>1, <1>2, <1>3
<1>5. /\ db' \in Db /\ undo_steps' \in Seq(Step) /\ redo_steps' \in Seq(Step)
      /\ mode' \in {"NormalOp", "Undoing", "Redoing"} /\ current_step' \in StepOrNone
      /\ counter' \in 0..MaxCounter /\ clock' \in 0..MaxClock
  BY <1>1, TypeFacts, SaveTypes
<1>6. QED
  BY <1>2, <1>3, <1>4, <1>5, OpenTypes

\* The three writes of the closure.
LEMMA ClosureTypes ==
  ASSUME TypeInv, NEW i \in Items, NEW v \in Values,
         AddItem(i, v) \/ UpdateItem(i, v) \/ RemoveItem(i)
  PROVE  TypeInv'
<1> DEFINE e == [val |-> v, pending |-> TRUE]
<1>1. e \in Entry /\ db \in Db
  BY TypeFacts DEF Entry
<1>2. ASSUME db.items[i] # NoItem PROVE db.items[i] \in Entry
  BY <1>1, <1>2 DEF Db
<1>3. SetRow(db, i, e) \in Db /\ AddGrave(db, i) \in Db
  BY <1>1, RowsOfDb, GravesOfDb
<1>4. SetRow(AddGrave(db, i), i, NoItem) \in Db
  BY <1>3, RowsOfDb
<1>5. CASE AddItem(i, v)
  <2> DEFINE c == Row("Added", i, e)
  <2>1. c \in Change
    BY <1>1, NewChanges
  <2>2. Write(SetRow(db, i, e), <<c>>)
    BY <1>5 DEF AddItem
  <2> HIDE DEF c, e
  <2>3. <<c>> \in Seq(Change)
    BY <2>1
  <2>4. QED
    BY <1>3, <2>2, <2>3, WriteTypes
<1>6. CASE UpdateItem(i, v)
  <2> DEFINE c == Row("Updated", i, db.items[i])
  <2>1. c \in Change
    BY <1>2, <1>6, NewChanges DEF UpdateItem
  <2>2. Write(SetRow(db, i, e), <<c>>)
    BY <1>6 DEF UpdateItem
  <2> HIDE DEF c, e
  <2>3. <<c>> \in Seq(Change)
    BY <2>1
  <2>4. QED
    BY <1>3, <2>2, <2>3, WriteTypes
<1>7. CASE RemoveItem(i)
  <2> DEFINE g == Grave("GraveAdded", i)
             c == Row("Removed", i, db.items[i])
             d == SetRow(AddGrave(db, i), i, NoItem)
  <2>1. g \in Change /\ c \in Change
    BY <1>2, <1>7, NewChanges DEF RemoveItem
  <2>2. Write(d, <<g, c>>)
    BY <1>7 DEF RemoveItem
  <2>3. d \in Db
    BY <1>4
  <2> HIDE DEF g, c, d
  <2>4. <<g, c>> \in Seq(Change)
    BY <2>1
  <2>5. QED
    BY <2>2, <2>3, <2>4, WriteTypes
<1>8. QED
  BY <1>5, <1>6, <1>7

\* Commit keeps the types.
LEMMA CommitTypes ==
  ASSUME TypeInv, NEW recent \in BOOLEAN, Commit(recent)
  PROVE  TypeInv'
<1> DEFINE bump == trx.op = "NoUndo" \/ (~Undoing /\ HasChanges(current_step))
           m == Modified(db.mod)
           stamped == IF bump THEN Save(current_step, <<m>>) ELSE current_step
           ended == IF recent THEN [stamped EXCEPT !.changes = <<>>] ELSE stamped
<1>1. /\ clock < MaxClock \/ ~bump
      /\ clock' = IF bump THEN clock + 1 ELSE clock
      /\ db' = IF bump THEN Stamped(db, clock + 1) ELSE db
      /\ recent => Coalesces(stamped)
      /\ EndStep(ended) /\ trx' = NoTrx /\ mode' = "NormalOp" /\ counter' = counter
  BY DEF Stamped, Commit
<1>2. db \in Db /\ current_step \in StepOrNone /\ counter \in 0..MaxCounter /\ clock \in 0..MaxClock
  BY TypeFacts
<1>3. m \in Change
  BY <1>2, NewChanges DEF Db
<1> HIDE DEF m, bump
<1>4. <<m>> \in Seq(Change)
  BY <1>3
<1>5. stamped \in StepOrNone
  BY <1>2, <1>4, SaveTypes
<1> HIDE DEF stamped
<1>6. ended \in StepOrNone
  <2>1. CASE recent
    <3>1. stamped \in Step
      BY <1>1, <1>5, <2>1 DEF Coalesces, StepOrNone
    <3>2. stamped = [kind |-> stamped.kind, changes |-> stamped.changes, counter |-> stamped.counter]
      BY <3>1 DEF Step
    <3>3. ended = [kind |-> stamped.kind, changes |-> <<>>, counter |-> stamped.counter]
      BY <2>1, <3>2
    <3>4. <<>> \in Seq(Change)
      BY EmptySeq
    <3>5. ended \in Step
      BY <3>1, <3>3, <3>4 DEF Step
    <3>6. QED
      BY <3>5 DEF StepOrNone
  <2>2. CASE ~recent
    BY <1>5, <2>2
  <2>3. QED
    BY <2>1, <2>2
<1> HIDE DEF ended
<1>7. /\ undo_steps' \in Seq(Step) /\ redo_steps' \in Seq(Step) /\ current_step' \in StepOrNone
  BY <1>1, <1>6, EndStepTypes
<1>8. db' \in Db /\ clock' \in 0..MaxClock
  <2>1. CASE bump
    <3>1. clock + 1 \in 0..MaxClock
      BY <1>1, <1>2, <2>1, BoundsAssumption
    <3>2. Stamped(db, clock + 1) \in Db
      BY <1>2, <3>1, StampOfDb
    <3>3. QED
      BY <1>1, <2>1, <3>1, <3>2
  <2>2. CASE ~bump
    BY <1>1, <1>2, <2>2
  <2>3. QED
    BY <2>1, <2>2
<1>9. mode' \in {"NormalOp", "Undoing", "Redoing"} /\ counter' \in 0..MaxCounter
  BY <1>1, <1>2
<1>10. QED
  BY <1>1, <1>7, <1>8, <1>9, ClosedTypes

\* A change of any kind that can be reverted leaves a database and a change.
LEMMA RevertTypes ==
  ASSUME NEW d \in Db, NEW c \in Change, CanRevert(d, c)
  PROVE  Revert(d, c) \in Db /\ Inverted(d, c) \in Change
<1>1. CASE c.kind = "Added" /\ c.item \in Items /\ c.old \in Entry
  BY <1>1, RowsOfDb, NewChanges DEF Revert, Inverted
<1>2. CASE c.kind = "Updated" /\ c.item \in Items /\ c.old \in Entry
  <2>1. d.items[c.item] \in Entry
    BY <1>2 DEF CanRevert, Db
  <2>2. QED
    BY <1>2, <2>1, RowsOfDb, NewChanges DEF Revert, Inverted
<1>3. CASE c.kind = "Removed" /\ c.item \in Items /\ c.old \in Entry
  BY <1>3, RowsOfDb, NewChanges DEF Revert, Inverted
<1>4. CASE c.kind = "GraveAdded" /\ c.item \in Items
  BY <1>4, GravesOfDb, NewChanges DEF Revert, Inverted
<1>5. CASE c.kind = "GraveRemoved" /\ c.item \in Items
  BY <1>5, GravesOfDb, NewChanges DEF Revert, Inverted
<1>6. CASE c.kind = "Modified" /\ c.old \in 0..MaxClock
  <2>1. PICK t \in 0..MaxClock : t = c.old
    BY <1>6
  <2>2. Stamped(d, t) \in Db /\ d.mod \in 0..MaxClock
    BY StampOfDb DEF Db
  <2>3. Revert(d, c) = Stamped(d, t) /\ Inverted(d, c) = Modified(d.mod)
    BY <1>6, <2>1 DEF Stamped, Revert, Inverted
  <2>4. QED
    BY <2>2, <2>3, NewChanges
<1>7. QED
  BY <1>1, <1>2, <1>3, <1>4, <1>5, <1>6, ChangeKinds

\* Reverting one change keeps the types.
LEMMA RevertNextTypes ==
  ASSUME TypeInv, RevertNext
  PROVE  TypeInv'
<1> DEFINE s == trx.saved
           o == trx.op
           w == trx.writes
           st == trx.step
           td == trx.todo
           c == Head(trx.todo)
           inv == Inverted(db, c)
<1>1. /\ InTrx /\ td # <<>> /\ CanRevert(db, c) /\ db' = Revert(db, c)
      /\ current_step' = Save(current_step, <<inv>>) /\ trx' = [trx EXCEPT !.todo = Tail(@)]
      /\ undo_steps' = undo_steps /\ redo_steps' = redo_steps
      /\ mode' = mode /\ counter' = counter /\ clock' = clock
  BY DEF RevertNext, queues
<1>2. /\ s \in Db /\ o \in OpKinds \cup {"Custom"} /\ w \in 0..MaxWrites /\ st \in StepOrNone
      /\ td \in Seq(Change)
      /\ trx = [open |-> TRUE, saved |-> s, op |-> o, writes |-> w, step |-> st, todo |-> td]
  BY <1>1, TypeFacts DEF IsTrx
<1>3. c \in Change /\ Tail(td) \in Seq(Change)
  BY <1>1, <1>2, HeadTailProperties
<1>4. td = trx.todo
  OBVIOUS
<1> HIDE DEF s, o, w, st, td, c
<1>5. trx' = [open |-> TRUE, saved |-> s, op |-> o, writes |-> w, step |-> st, todo |-> Tail(td)]
  BY <1>1, <1>2, <1>4
<1>6. Revert(db, c) \in Db /\ inv \in Change
  BY <1>1, <1>3, TypeFacts, RevertTypes
<1> HIDE DEF inv
<1>7. Save(current_step, <<inv>>) \in StepOrNone
  <2>1. <<inv>> \in Seq(Change)
    BY <1>6
  <2>2. QED
    BY <2>1, TypeFacts, SaveTypes
<1>8. /\ db' \in Db /\ undo_steps' \in Seq(Step) /\ redo_steps' \in Seq(Step)
      /\ mode' \in {"NormalOp", "Undoing", "Redoing"} /\ current_step' \in StepOrNone
      /\ counter' \in 0..MaxCounter /\ clock' \in 0..MaxClock
  BY <1>1, <1>6, <1>7, TypeFacts
<1> DEFINE rest == Tail(td)
<1>9. rest \in Seq(Change) /\ trx' = [open |-> TRUE, saved |-> s, op |-> o, writes |-> w,
                                       step |-> st, todo |-> rest]
  BY <1>3, <1>5
<1> HIDE DEF rest
<1>10. QED
  BY <1>2, <1>8, <1>9, OpenTypes

\* undo_inner() pops a step and opens a transaction of its kind.
LEMMA PoppedTypes ==
  ASSUME TypeInv, NEW step \in Step, NEW undo \in Seq(Step), NEW redo \in Seq(Step), NEW m,
         m \in {"Undoing", "Redoing"}, counter < MaxCounter,
         trx' = NewTrx(step.kind, step, Reverse(step.changes)),
         BeginStep(step.kind, undo, redo, m), mode' = m, db' = db, clock' = clock
  PROVE  TypeInv'
<1> DEFINE o == step.kind
           td == Reverse(step.changes)
<1>1. o \in OpKinds \cup {"Custom"} /\ td \in Seq(Change)
  BY ReverseFacts DEF Step
<1>2. trx' = [open |-> TRUE, saved |-> db, op |-> o, writes |-> 0, step |-> step, todo |-> td]
  BY DEF NewTrx
<1>3. BeginStep(o, undo, redo, m)
  OBVIOUS
<1> HIDE DEF o, td
<1>4. /\ undo_steps' \in Seq(Step) /\ redo_steps' \in Seq(Step)
      /\ current_step' \in StepOrNone /\ counter' \in 0..MaxCounter
  BY <1>1, <1>3, BeginStepTypes
<1>5. /\ db \in Db /\ db' \in Db /\ clock' \in 0..MaxClock /\ 0 \in 0..MaxWrites
      /\ mode' \in {"NormalOp", "Undoing", "Redoing"} /\ step \in StepOrNone
  BY TypeFacts, BoundsAssumption DEF StepOrNone
<1>6. QED
  BY <1>1, <1>2, <1>4, <1>5, OpenTypes

\* Joined changes are changes.
LEMMA JoinedTypes ==
  ASSUME NEW steps \in Seq(Step), NEW idx \in 1..Len(steps)
  PROVE  Joined(steps, idx)[idx - 1] \in Seq(Change)
<1> DEFINE r == Joined(steps, idx)
           S == {n \in Nat : n <= idx - 1 => r[n] \in Seq(Change)}
<1>1. idx \in Nat \ {0} /\ Len(steps) \in Nat /\ idx <= Len(steps)
  BY LenProperties
<1>2. r[0] = steps[idx].changes /\ \A n \in 1..(idx - 1) : r[n] = r[n - 1] \o steps[idx - n].changes
  BY <1>1, JoinedDef
<1>3. \A n \in 1..Len(steps) : steps[n].changes \in Seq(Change)
  <2>1. \A n \in 1..Len(steps) : steps[n] \in Step
    BY ElementOfSeq
  <2>2. \A x \in Step : x.changes \in Seq(Change)
    BY DEF Step
  <2>3. QED
    BY <2>1, <2>2
<1> HIDE DEF r
<1>4. 0 \in S
  BY <1>2, <1>3
<1>5. ASSUME NEW n \in Nat, n \in S PROVE n + 1 \in S
  <2>1. SUFFICES ASSUME n + 1 <= idx - 1 PROVE r[n + 1] \in Seq(Change)
    OBVIOUS
  <2> DEFINE k == idx - (n + 1)
  <2>2. /\ n <= idx - 1 /\ n + 1 \in 1..(idx - 1) /\ (n + 1) - 1 = n /\ k \in 1..Len(steps)
    BY <1>1, <2>1
  <2>3. r[n] \in Seq(Change) /\ r[n + 1] = r[n] \o steps[k].changes
    BY <1>2, <1>5, <2>2
  <2> HIDE DEF k
  <2>4. steps[k].changes \in Seq(Change)
    BY <1>3, <2>2
  <2>5. QED
    BY <2>3, <2>4, ConcatProperties
<1>6. \A n \in Nat : n \in S
  <2> HIDE DEF S
  <2>1. QED
    BY <1>4, <1>5, SetInduction
<1>7. idx - 1 \in Nat /\ idx - 1 <= idx - 1
  BY <1>1
<1>8. QED
  BY <1>6, <1>7 DEF r

\* Merging keeps the types.
LEMMA MergeTypes ==
  ASSUME TypeInv, NEW starting_from \in 1..MaxCounter, MergeUndoableOps(starting_from)
  PROVE  TypeInv'
<1>1. PICK idx \in DOMAIN undo_steps :
        undo_steps' = <<[undo_steps[idx] EXCEPT !.changes = Joined(undo_steps, idx)[idx - 1]]>>
                        \o SubSeq(undo_steps, idx + 1, Len(undo_steps))
  BY DEF MergeUndoableOps
<1>2. /\ ~InTrx /\ counter' = starting_from /\ db' = db /\ redo_steps' = redo_steps
      /\ mode' = mode /\ current_step' = current_step /\ trx' = trx /\ clock' = clock
  BY DEF MergeUndoableOps
<1> DEFINE N == Len(undo_steps)
           old == undo_steps[idx]
           cs == Joined(undo_steps, idx)[idx - 1]
           merged == [old EXCEPT !.changes = cs]
           rest == SubSeq(undo_steps, idx + 1, N)
<1>3. undo_steps \in Seq(Step) /\ idx \in 1..N /\ N \in Nat
  BY TypeFacts, LenProperties
<1>4. old \in Step
  BY <1>3, ElementOfSeq
<1>5. cs \in Seq(Change)
  BY <1>3, JoinedTypes
<1>6. rest \in Seq(Step)
  <2>1. \A n \in 1..N : undo_steps[n] \in Step
    BY <1>3, ElementOfSeq
  <2>2. idx + 1 \in Int /\ N \in Int /\ \A n \in (idx + 1)..N : undo_steps[n] \in Step
    BY <1>3, <2>1
  <2>3. QED
    BY <2>2, SubSeqProperties
<1>7. undo_steps' = <<merged>> \o rest
  BY <1>1
<1> HIDE DEF cs, old, rest
<1>8. old = [kind |-> old.kind, changes |-> old.changes, counter |-> old.counter]
  BY <1>4 DEF Step
<1>9. merged = [kind |-> old.kind, changes |-> cs, counter |-> old.counter]
  BY <1>8
<1> HIDE DEF merged
<1>10. merged \in Step
  BY <1>4, <1>5, <1>9 DEF Step
<1>11. undo_steps' \in Seq(Step)
  BY <1>6, <1>7, <1>10, ConsFacts
<1>12. starting_from \in 0..MaxCounter
  BY BoundsAssumption
<1>13. trx' = NoTrx
  BY <1>2, TypeFacts
<1>14. /\ db' \in Db /\ redo_steps' \in Seq(Step) /\ mode' \in {"NormalOp", "Undoing", "Redoing"}
       /\ current_step' \in StepOrNone /\ counter' \in 0..MaxCounter /\ clock' \in 0..MaxClock
  BY <1>2, <1>12, TypeFacts
<1>15. QED
  BY <1>11, <1>13, <1>14, ClosedTypes

\* Every step keeps the types.
LEMMA NextTypes ==
  ASSUME TypeInv, [Next]_vars
  PROVE  TypeInv'
<1> USE TypeFacts
<1>1. ASSUME NEW op \in OpKinds, Begin(op) PROVE TypeInv'
  <2>1. /\ ~InTrx /\ counter < MaxCounter /\ db' = db /\ mode' = mode /\ clock' = clock
        /\ trx' = [open |-> TRUE, saved |-> db, op |-> op, writes |-> 0, step |-> NoStep, todo |-> <<>>]
        /\ BeginStep(op, undo_steps, redo_steps, "NormalOp")
    BY <1>1 DEF Begin, NewTrx
  <2>2. /\ undo_steps' \in Seq(Step) /\ redo_steps' \in Seq(Step)
        /\ current_step' \in StepOrNone /\ counter' \in 0..MaxCounter
    <3>1. PICK m : m = "NormalOp"
      OBVIOUS
    <3>2. BeginStep(op, undo_steps, redo_steps, m)
      BY <2>1, <3>1
    <3>3. undo_steps \in Seq(Step) /\ redo_steps \in Seq(Step) /\ op \in OpKinds \cup {"Custom"}
      OBVIOUS
    <3>4. QED
      BY <2>1, <3>2, <3>3, BeginStepTypes
  <2>3. 0 \in 0..MaxWrites /\ NoStep \in StepOrNone /\ <<>> \in Seq(Change) /\ db' \in Db
        /\ mode' \in {"NormalOp", "Undoing", "Redoing"} /\ clock' \in 0..MaxClock
        /\ op \in OpKinds \cup {"Custom"} /\ db \in Db
    BY <2>1, BoundsAssumption, EmptySeq DEF StepOrNone
  <2>4. QED
    BY <2>1, <2>2, <2>3, OpenTypes
<1>2. ASSUME NEW i \in Items, NEW v \in Values, AddItem(i, v) PROVE TypeInv'
  BY <1>2, ClosureTypes
<1>3. ASSUME NEW i \in Items, NEW v \in Values, UpdateItem(i, v) PROVE TypeInv'
  BY <1>3, ClosureTypes
<1>4. ASSUME NEW i \in Items, RemoveItem(i) PROVE TypeInv'
  <2>1. PICK v : v \in Values
    <3>1. db.items[i] \in Entry
      BY <1>4 DEF RemoveItem, Db
    <3>2. QED
      BY <3>1 DEF Entry
  <2>2. QED
    BY <1>4, <2>1, ClosureTypes
<1>5. ASSUME NEW recent \in BOOLEAN, Commit(recent) PROVE TypeInv'
  BY <1>5, CommitTypes
<1>6. CASE RollBack
  <2>1. /\ InTrx /\ db' = trx.saved /\ trx' = NoTrx /\ mode' = "NormalOp" /\ clock' = clock
        /\ undo_steps' = <<>> /\ redo_steps' = <<>> /\ current_step' = NoStep /\ counter' = counter
    BY <1>6 DEF RollBack, BeginStep
  <2>2. <<>> \in Seq(Step) /\ NoStep \in StepOrNone
    BY EmptySeq DEF StepOrNone
  <2>3. QED
    BY <2>1, <2>2, ClosedTypes
<1>7. CASE Undo
  <2> DEFINE step == Head(undo_steps)
             rest == Tail(undo_steps)
  <2>1. /\ undo_steps # <<>> /\ counter < MaxCounter
        /\ trx' = NewTrx(step.kind, step, Reverse(step.changes))
        /\ BeginStep(step.kind, rest, redo_steps, "Undoing")
        /\ mode' = "Undoing" /\ db' = db /\ clock' = clock
    BY <1>7 DEF Undo
  <2>2. step \in Step /\ rest \in Seq(Step) /\ redo_steps \in Seq(Step)
    BY <2>1, HeadTailProperties
  <2>3. PICK m : m = "Undoing"
    OBVIOUS
  <2> HIDE DEF step, rest
  <2>4. BeginStep(step.kind, rest, redo_steps, m) /\ mode' = m /\ m \in {"Undoing", "Redoing"}
    BY <2>1, <2>3
  <2>5. QED
    BY <2>1, <2>2, <2>4, PoppedTypes
<1>8. CASE Redo
  <2> DEFINE step == Last(redo_steps)
             rest == Front(redo_steps)
  <2>1. /\ redo_steps # <<>> /\ counter < MaxCounter
        /\ trx' = NewTrx(step.kind, step, Reverse(step.changes))
        /\ BeginStep(step.kind, undo_steps, rest, "Redoing")
        /\ mode' = "Redoing" /\ db' = db /\ clock' = clock
    BY <1>8 DEF Redo
  <2>2. step \in Step /\ rest \in Seq(Step) /\ undo_steps \in Seq(Step)
    BY <2>1, ReverseLast
  <2>3. PICK m : m = "Redoing"
    OBVIOUS
  <2> HIDE DEF step, rest
  <2>4. BeginStep(step.kind, undo_steps, rest, m) /\ mode' = m /\ m \in {"Undoing", "Redoing"}
    BY <2>1, <2>3
  <2>5. QED
    BY <2>1, <2>2, <2>4, PoppedTypes
<1>9. CASE RevertNext
  BY <1>9, RevertNextTypes
<1>10. CASE AddCustomStep
  <2> DEFINE step == NewStep("Custom")
  <2>1. /\ ~InTrx /\ counter < MaxCounter /\ undo_steps' = PushUndo(step, undo_steps)
        /\ redo_steps' = <<>> /\ counter' = counter + 1 /\ db' = db /\ mode' = mode
        /\ current_step' = current_step /\ trx' = trx /\ clock' = clock
    BY <1>10 DEF AddCustomStep
  <2>2. step \in Step /\ counter + 1 \in 0..MaxCounter
    BY <2>1, NewStepFacts
  <2> HIDE DEF step
  <2>3. undo_steps' \in Seq(Step) /\ redo_steps' \in Seq(Step)
    BY <2>1, <2>2, PushTypes, EmptySeq
  <2>4. QED
    BY <2>1, <2>2, <2>3, ClosedTypes
<1>11. ASSUME NEW c \in 1..MaxCounter, MergeUndoableOps(c) PROVE TypeInv'
  BY <1>11, MergeTypes
<1>12. CASE Sync
  <2>1. /\ ~InTrx /\ clock < MaxClock /\ clock' = clock + 1 /\ db' = Synced(db, clock + 1)
        /\ undo_steps' = <<>> /\ redo_steps' = <<>>
        /\ mode' = mode /\ current_step' = current_step /\ counter' = counter /\ trx' = trx
    BY <1>12 DEF Sync
  <2>2. clock + 1 \in 0..MaxClock /\ <<>> \in Seq(Step)
    BY <2>1, BoundsAssumption, EmptySeq
  <2>3. Synced(db, clock + 1) \in Db
    BY <2>2, SyncedIsSound, SoundIsDb
  <2>4. QED
    BY <2>1, <2>2, <2>3, ClosedTypes
<1>13. CASE Reopen
  <2>1. /\ db' = (IF InTrx THEN trx.saved ELSE db) /\ undo_steps' = <<>> /\ redo_steps' = <<>>
        /\ mode' = "NormalOp" /\ current_step' = NoStep /\ counter' = 0 /\ trx' = NoTrx
        /\ clock' = clock
    BY <1>13 DEF Reopen
  <2>2. <<>> \in Seq(Step) /\ NoStep \in StepOrNone /\ 0 \in 0..MaxCounter /\ db' \in Db
    BY <2>1, EmptySeq, BoundsAssumption DEF StepOrNone
  <2>3. QED
    BY <2>1, <2>2, ClosedTypes
<1>14. CASE UNCHANGED vars
  BY <1>14 DEF vars, TypeInv, TypeOK, InTrx, IsTrx
<1>15. QED
  BY <1>1, <1>2, <1>3, <1>4, <1>5, <1>6, <1>7, <1>8, <1>9, <1>10, <1>11, <1>12, <1>13, <1>14 DEF Next

\* They hold at the start.
LEMMA InitTypes ==
  ASSUME Init
  PROVE  TypeInv
  BY InitHistory DEF TypeInv, HistoryInv

\* Every field of the undo manager, of its steps and of the open transaction keeps
\* its type: what begin_step(), end_step(), undo_inner() and merge build are steps.
THEOREM TypeCorrect == Spec => []TypeOK
<1>1. Init => TypeInv
  BY InitTypes
<1>2. TypeInv /\ [Next]_vars => TypeInv'
  BY NextTypes
<1>3. TypeInv => TypeOK
  BY DEF TypeInv
<1>4. QED
  BY <1>1, <1>2, <1>3, PTL DEF Spec

-----------------------------------------------------------------------------
(* The theorems.                                                            *)

\* A step that changes no variable.
LEMMA StutterHistory ==
  ASSUME HistoryInv, UNCHANGED vars
  PROVE  HistoryInv' /\ HistoryStep
<1>1. /\ db' = db /\ Now' = Now /\ undo_steps' = undo_steps /\ redo_steps' = redo_steps /\ mode' = mode
      /\ current_step' = current_step /\ counter' = counter /\ trx' = trx /\ clock' = clock
  BY DEF vars, Now
<1>2. /\ ActiveStep("Undoing")' = ActiveStep("Undoing") /\ ActiveStep("Redoing")' = ActiveStep("Redoing")
      /\ InTrx' = InTrx
  BY <1>1 DEF ActiveStep, InTrx
<1>3. Present' = Present /\ Here' = Here /\ Began' = Began
  BY <1>1, <1>2 DEF Here, Present, Began
<1>4. PastSteps' = PastSteps /\ FutureSteps' = FutureSteps
  BY <1>1, <1>2 DEF PastSteps, FutureSteps
<1>5. Behind' = Behind /\ Ahead' = Ahead
  BY <1>1, <1>2, <1>3 DEF Behind, Ahead, Past, Future
<1>6. TypeOK'
  BY <1>1, <1>2 DEF HistoryInv, TypeOK
<1>7. (trx = NoTrx /\ mode = "NormalOp" /\ current_step = NoStep)' <=>
        trx = NoTrx /\ mode = "NormalOp" /\ current_step = NoStep
  BY <1>1
<1>8. (Recording' <=> Recording) /\ (Replaying' <=> Replaying) /\ (IsTrx' <=> IsTrx)
  BY <1>1, <1>3 DEF Recording, Replaying, IsTrx
<1>9. HistoryInv'
  BY <1>1, <1>3, <1>4, <1>6, <1>7, <1>8 DEF HistoryInv
<1>10. QED
  BY <1>3, <1>5, <1>9, Stuttering

\* Every step keeps the invariant and is a step, or a stutter, of the history.
LEMMA NextHistory ==
  ASSUME HistoryInv, [Next]_vars, "SkipUndo" \notin OpKinds
  PROVE  HistoryInv' /\ HistoryStep
<1>1. ASSUME NEW op \in OpKinds, Begin(op) PROVE HistoryInv' /\ HistoryStep
  BY <1>1, BeginHistory
<1>2. ASSUME NEW i \in Items, NEW v \in Values, AddItem(i, v) PROVE HistoryInv' /\ HistoryStep
  BY <1>2, AddItemHistory
<1>3. ASSUME NEW i \in Items, NEW v \in Values, UpdateItem(i, v) PROVE HistoryInv' /\ HistoryStep
  BY <1>3, UpdateItemHistory
<1>4. ASSUME NEW i \in Items, RemoveItem(i) PROVE HistoryInv' /\ HistoryStep
  BY <1>4, RemoveItemHistory
<1>5. ASSUME NEW recent \in BOOLEAN, Commit(recent) PROVE HistoryInv' /\ HistoryStep
  BY <1>5, CommitHistory
<1>6. CASE RollBack
  BY <1>6, RollBackHistory
<1>7. CASE Undo
  BY <1>7, UndoBegins
<1>8. CASE Redo
  BY <1>8, RedoBegins
<1>9. CASE RevertNext
  BY <1>9, RevertNextHistory
<1>10. CASE AddCustomStep
  BY <1>10, AddCustomStepHistory
<1>11. ASSUME NEW c \in 1..MaxCounter, MergeUndoableOps(c) PROVE HistoryInv' /\ HistoryStep
  BY <1>11, MergeHistory
<1>12. CASE Sync
  BY <1>12, SyncHistory
<1>13. CASE Reopen
  BY <1>13, ReopenHistory
<1>14. CASE UNCHANGED vars
  BY <1>14, StutterHistory
<1>15. QED
  BY <1>1, <1>2, <1>3, <1>4, <1>5, <1>6, <1>7, <1>8, <1>9, <1>10, <1>11, <1>12, <1>13, <1>14 DEF Next

\* The invariant holds in every state, if no operation is left out of the undo queue
\* (Op::SkipUndo: collapsing a deck or tag, a config write without undo), across
\* which the stamps of the queued steps do not lead back to sound databases.
THEOREM HistoryIsKept ==
  ASSUME "SkipUndo" \notin OpKinds
  PROVE  Spec => []HistoryInv
<1>1. Init => HistoryInv
  BY InitHistory
<1>2. HistoryInv /\ [Next]_vars => HistoryInv'
  BY NextHistory
<1>3. QED
  BY <1>1, <1>2, PTL DEF Spec

\* No undo or redo meets an object that is not there: undo_card_change() and its kin
\* never answer "card disappeared".
THEOREM RevertingSucceeds ==
  ASSUME "SkipUndo" \notin OpKinds
  PROVE  Spec => []RevertNeverFails
<1>1. HistoryInv => RevertNeverFails
  <2>1. SUFFICES ASSUME HistoryInv, InTrx, trx.todo # <<>> PROVE CanRevert(db, Head(trx.todo))
    BY DEF RevertNeverFails
  <2>2. Replaying
    BY <2>1 DEF HistoryInv, InTrx, NoTrx, Recording
  <2>3. Replays(Now, trx.todo, Return(Began, trx.step))
    BY <2>2 DEF Replaying
  <2>4. Head(trx.todo) \in Change /\ Fits(Now, Head(trx.todo)) /\ Now \in PlainDb
    BY <2>1, <2>3, ReplaysNext, ReplaysTypes
  <2>5. QED
    BY <2>1, <2>4, RevertFits, BackIsRevert, InvDb DEF Now
<1>2. QED
  BY <1>1, HistoryIsKept, PTL

\* Nothing the server lacks is left but graves of ids that packages contain.
OnlyImportedGraves ==
  db.graves \subseteq Packaged /\ \A i \in Items : db.items[i] # NoItem => ~db.items[i].pending

\* Between transactions, what the server has not seen is announced by col.mod: undo
\* and redo move the stamp back only together with the changes made under it.  For
\* graves of ids that packages contain the theorem leaves it open.
THEOREM PendingIsAnnounced ==
  ASSUME "SkipUndo" \notin OpKinds
  PROVE  Spec => [](PendingImpliesChanged \/ OnlyImportedGraves)
<1>1. HistoryInv => PendingImpliesChanged \/ OnlyImportedGraves
  <2>1. SUFFICES ASSUME HistoryInv, ~InTrx, ~OnlyImportedGraves PROVE ChangedSinceSync
    BY DEF PendingImpliesChanged
  <2>2. /\ Now \in SoundDb(clock) /\ Now.items = db.items /\ Now.graves = db.graves \ Packaged
        /\ Now.mod = db.mod /\ Now.ls = db.ls
    BY <2>1, IdleFacts, InvDb
  <2>3. Unsent(Now)
    <3>1. CASE ~(db.graves \subseteq Packaged)
      BY <2>2, <3>1 DEF Unsent
    <3>2. CASE \E i \in Items : db.items[i] # NoItem /\ db.items[i].pending
      BY <2>2, <3>2 DEF Unsent
    <3>3. QED
      BY <2>1, <3>1, <3>2 DEF OnlyImportedGraves
  <2>4. QED
    BY <2>2, <2>3 DEF SoundDb, ChangedSinceSync
<1>2. QED
  BY <1>1, HistoryIsKept, PTL

\* The queues of change records implement the history of databases, up to the graves
\* of ids that packages contain: the undo manager, merging, folding and a full queue
\* included, is UndoHistory.
THEOREM QueuesImplementHistory ==
  ASSUME "SkipUndo" \notin OpKinds
  PROVE  Spec => ImplementsHistory
<1>1. Init => HistoryInv /\ History!Init
  BY InitHistory
<1>2. HistoryInv /\ [Next]_vars => HistoryInv' /\ [History!Next]_(History!vars)
  BY NextHistory DEF HistoryStep
<1>3. QED
  BY <1>1, <1>2, PTL DEF Spec, ImplementsHistory, History!Spec

=============================================================================
