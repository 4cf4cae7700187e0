---------------------------- MODULE MCUndoManager ----------------------------
(* Small instances of UndoManager for TLC. *)
EXTENDS UndoManager, TLC

\* Kinds of operation whose changes undo knows about; "NoUndo" is transact_no_undo().
\* A note update that is not folded into the previous one is like any other operation.
RecordedKinds == {"UpdateNote", "NoUndo"}
\* Operations that change the database but leave no undo step, among others.
SkippingKinds == {"Other", "SkipUndo"}

\* Ids that packages contain are told apart from the others.
ItemSymmetry == Permutations(Packaged) \cup Permutations(Items \ Packaged) \cup Permutations(Values)

=============================================================================
